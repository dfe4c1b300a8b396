----------------------------- MODULE Controller -----------------------------
(***************************************************************************)
(* One unattended controller run.  Processes step it, stop it and hand it  *)
(* to an operator, each under an idempotency key of its caller.  A call    *)
(* reads the projection without the lock and then appends events by        *)
(* compare and swap under the run's lock; between two events it reserves   *)
(* budget, acquires a task and launches a delegated run, three stores that *)
(* know nothing of the controller's own.  A call may die anywhere.         *)
(*                                                                         *)
(* chain is the history that current.json projects; ahead holds the event  *)
(* files that were made durable and never folded.  The lock is held over   *)
(* each append, so an append is one step with the prefixes a death in it   *)
(* leaves.  The event `start' is the state before chain[1].                *)
(***************************************************************************)
EXTENDS Naturals, Sequences, FiniteSets, SequencesExt

CONSTANTS
  Proc,        \* processes that call the controller
  Key,         \* idempotency keys of the callers that step it
  OperatorKey, \* idempotency keys of those that stop or reconcile it
  Run,         \* delegated runs admitted for each claim
  MaxRetry,    \* policy.maximum_transient_retries
  MaxEvents,   \* bound: events of the run after start
  Torn,        \* bound: operations whose append a death may cut short
  Nothing      \* no key, no dispatch, no reservation

\* A delegated run is admitted for one claim, and a claim is named by the key
\* under which acquire-next took it.
Dispatch == Key \X Run

Reservation == Key \X {"acquisition", "dispatch"}

ASSUME ControllerAssumption ==
  /\ Nothing \notin Key \cup OperatorKey \cup Dispatch \cup Reservation
  /\ MaxRetry \in Nat /\ MaxEvents \in Nat

VARIABLES
  chain,       \* the events folded into current.json, in order
  ahead,       \* [event, named]: durable, not folded; named: transition file too
  proc,        \* what each process is doing
  budget,      \* the budget run: "active" or "stopped"
  held,        \* the open reservation
  usage,       \* what each settled reservation was charged as
  receipt,     \* acquire-next receipt of each key
  claims,      \* the keys whose acquisition took a task
  attempt,     \* attempt record of each dispatch
  launch       \* delegated run of each dispatch

budgetVars == <<budget, held, usage>>
effectVars == <<receipt, claims, attempt, launch>>
vars == <<chain, ahead, proc, budgetVars, effectVars>>

State == {"created", "observing", "acquiring", "executing",
          "waiting_for_evidence", "blocked", "budget_exhausted", "completed",
          "stopping", "stopped", "reconciliation_required"}

Terminal == {"blocked", "budget_exhausted", "completed", "stopped",
             "reconciliation_required"}

\* What each state allows, and the state it leads to.
Allowed(state, op) ==
  CASE state = "created" -> op \in {"observe", "request_stop"}
    [] state = "observing" -> op \in {"begin_acquire", "no_offer", "block",
                                      "exhaust_budget", "request_stop"}
    [] state = "acquiring" -> op \in {"acquired", "retry_wait", "block",
                                      "exhaust_budget"}
    [] state = "executing" -> op \in {"begin_dispatch", "dispatch_started",
                                      "exhaust_budget", "request_stop"}
    [] state = "waiting_for_evidence" ->
         op \in {"outcome_observed", "retry_wait", "complete", "block",
                 "exhaust_budget", "request_stop"}
    [] state = "stopping" -> op = "stop"
    [] OTHER -> FALSE

\* Mutated: a stop may be requested while a task is being acquired.
AdmitsStop(state, op) ==
  \/ Allowed(state, op) \/ op = "request_stop"
  \/ state \notin Terminal /\ op = "require_reconciliation"

Admits(state, op) ==
  \/ Allowed(state, op)
  \/ state \notin Terminal /\ op = "require_reconciliation"

StateAfter ==
  [observe |-> "observing", outcome_observed |-> "observing",
   retry_wait |-> "observing", begin_acquire |-> "acquiring",
   acquired |-> "executing", begin_dispatch |-> "executing",
   dispatch_started |-> "waiting_for_evidence", no_offer |-> "completed",
   complete |-> "completed", block |-> "blocked",
   exhaust_budget |-> "budget_exhausted", request_stop |-> "stopping",
   stop |-> "stopped", require_reconciliation |-> "reconciliation_required"]

-----------------------------------------------------------------------------
(* The projection, a fold of the chain.                                    *)

Tip == Last(chain)
Current == IF chain = <<>> THEN "created" ELSE StateAfter[Last(chain).op]

\* consecutive_transient_failures of the projection of the first n events: the
\* retries since an event that sets the count back.
Failures(n) ==
  LET Keeps == {"retry_wait", "observe", "begin_acquire", "begin_dispatch"}
  IN Cardinality({i \in 1..n : /\ chain[i].op = "retry_wait"
                               /\ \A j \in i..n : chain[j].op \in Keeps})

\* The claim of the latest event that carries an attempt context.
Context ==
  LET taken == {i \in DOMAIN chain : chain[i].op = "acquired"}
  IN IF taken = {} THEN Nothing
     ELSE chain[CHOOSE i \in taken : \A j \in taken : j <= i].key

Idle == [pc |-> "idle", key |-> Nothing, did |-> Nothing, cur |-> 0,
         res |-> Nothing]

Init ==
  /\ chain = <<>> /\ ahead = {}
  /\ proc = [p \in Proc |-> Idle]
  /\ budget = "active" /\ held = Nothing
  /\ usage = [r \in Reservation |-> "none"]
  /\ receipt = [k \in Key |-> "none"] /\ claims = {}
  /\ attempt = [d \in Dispatch |-> "none"]
  /\ launch = [d \in Dispatch |-> "intent"]

-----------------------------------------------------------------------------
(* appendLocked.  An event is stamped with the instant of the append, and  *)
(* a repeated name must rebuild the stored event, its stamp included: the  *)
(* clock that a repeat reads may be the stored one or, in general, another.*)

\* Mutated: the revision is the head's own.
EventAtHead(p, slot, n, op) ==
  [rev |-> Len(chain), key |-> proc[p].key, slot |-> slot, n |-> n, op |-> op,
   did |-> IF slot = "budget-refusal" THEN Nothing ELSE proc[p].did]

Event(p, slot, n, op) ==
  [rev |-> Len(chain) + 1, key |-> proc[p].key, slot |-> slot, n |-> n, op |-> op,
   did |-> IF slot = "budget-refusal" THEN Nothing ELSE proc[p].did]

\* The transition files of this name.
Named(e) ==
  {f \in ToSet(chain) \cup {a.event : a \in {b \in ahead : b.named}} :
     f.slot = e.slot /\ f.key = e.key /\ f.n = e.n}

Rebuilds(e, f) == [e EXCEPT !.rev = f.rev] = f

\* Mutated: events that were never folded are not looked for.
UnfoldedIgnored == TRUE

NothingUnfolded == \A a \in ahead : a.event.rev # Len(chain) + 1

Extends(e, cur) == cur = Len(chain) /\ NothingUnfolded /\ Admits(Current, e.op)

Become(p, q) == proc' = [proc EXCEPT ![p] = q]
Goto(p, pc) == Become(p, [proc[p] EXCEPT !.pc = pc])
Leave(p) == Become(p, Idle)

\* Continue at pc with the projection the append returned.
Onward(p, pc) ==
  IF pc = "idle" THEN Leave(p)
  ELSE Become(p, [proc[p] EXCEPT !.pc = pc, !.cur = Len(chain'), !.res = Nothing])

Throw(p) == Leave(p) /\ UNCHANGED <<chain, ahead>>

\* A name that is taken: the head is returned, an event that was never folded
\* is folded, and any other is a conflict.
Repeat(p, e, f, pc) ==
  \/ Throw(p)
  \/ Rebuilds(e, f) /\ chain # <<>> /\ f = Tip /\ UNCHANGED <<chain, ahead>> /\ Onward(p, pc)
  \/ /\ Rebuilds(e, f) /\ proc[p].cur = Len(chain) /\ f.rev = Len(chain) + 1
     /\ chain' = Append(chain, f)
     /\ ahead' = {a \in ahead : a.event # f}
     /\ Onward(p, pc)

\* A new name: both files, then the projection; a death leaves a prefix.  One
\* that dies within the first leaves a temporary file beside the events at which
\* every later append throws: each call ends there, as it does under Die.
Extend(p, e, pc) ==
  /\ Len(chain) < MaxEvents
  /\ \/ chain' = Append(chain, e) /\ UNCHANGED ahead /\ Onward(p, pc)
     \/ \E named \in BOOLEAN :
          /\ e.op \in Torn
          /\ ahead' = ahead \cup {[event |-> e, named |-> named]}
          /\ UNCHANGED chain /\ Leave(p)

Publish(p, e, pc) ==
  /\ LET stored == Named(e) IN
     \/ \E f \in stored : Repeat(p, e, f, pc)
     \/ stored = {} /\ ~Extends(e, proc[p].cur) /\ Throw(p)
     \/ stored = {} /\ Extends(e, proc[p].cur) /\ Extend(p, e, pc)
  /\ UNCHANGED <<budgetVars, effectVars>>

At(p, pc) == proc[p].pc = pc

Record(p, from, slot, op, to) ==
  At(p, from) /\ Publish(p, Event(p, slot, 0, op), to)

-----------------------------------------------------------------------------
(* The budget store, as BudgetLedger models it, and the two stores whose   *)
(* verbs are idempotent by their own key.                                  *)

\* Grant or replay, and continue at pc; or be refused.  Any failure of the ledger
\* is a refusal to its caller, before or behind its writes.
Reserve(p, r, pc) ==
  LET free == budget = "active" /\ held = Nothing
      granted == IF free /\ usage[r] = "none" THEN r ELSE held
  IN
  /\ \/ /\ budget = "active" /\ (held \in {Nothing, r} \/ usage[r] # "none")
        /\ held' = granted
        /\ Goto(p, pc) /\ UNCHANGED budget
     \/ /\ held' \in {held, granted}
        /\ Goto(p, "refused") /\ UNCHANGED budget
     \/ /\ free
        /\ budget' = "stopped"
        /\ Goto(p, "exhausted") \/ Goto(p, "refused")
        /\ UNCHANGED held
  /\ UNCHANGED <<chain, ahead, usage, effectVars>>

\* deriveAutomationConsumption, in what tells outcomes of an operation apart.
Consumed(r, outcome) ==
  outcome = IF r[2] = "acquisition" THEN "progress" ELSE "provider_failure"

\* Settle, or replay a settlement of the same cost; anything else throws.
Charge(p, r, outcome, pc) ==
  /\ IF usage[r] = "none" \/ Consumed(r, usage[r]) = Consumed(r, outcome)
     THEN /\ usage' = IF usage[r] = "none" THEN [usage EXCEPT ![r] = outcome] ELSE usage
          /\ held' = IF held = r THEN Nothing ELSE held
          /\ Goto(p, pc)
     ELSE UNCHANGED <<usage, held>> /\ Leave(p)
  /\ UNCHANGED <<chain, ahead, budget, effectVars>>

-----------------------------------------------------------------------------
(* Calls.                                                                  *)

Begin(p, k, pc) ==
  /\ At(p, "idle")
  /\ Become(p, [Idle EXCEPT !.pc = pc, !.key = k, !.cur = Len(chain)])
  /\ UNCHANGED <<chain, ahead, budgetVars, effectVars>>

\* Mutated: a restart while a task is being acquired acquires again.
StepReacquires(p, k) ==
  \/ Current = "created" /\ Begin(p, k, "observe")
  \/ Current = "observing" /\ Begin(p, k, "reserve")
  \/ Current = "acquiring" /\ Begin(p, k, "acquire")
  \/ Current = "waiting_for_evidence" /\ Begin(p, k, "uncertain")
  \/ Current = "executing" /\ Begin(p, k, "context")

Step(p, k) ==
  \/ Current = "created" /\ Begin(p, k, "observe")
  \/ Current = "observing" /\ Begin(p, k, "reserve")
  \/ Current \in {"acquiring", "waiting_for_evidence"} /\ Begin(p, k, "uncertain")
  \/ Current = "executing" /\ Begin(p, k, "context")

Stop(p, k) ==
  /\ Current \notin Terminal
  /\ Begin(p, k, IF Current = "stopping" THEN "stop" ELSE "requestStop")

Reconcile(p, k) ==
  /\ Current \in {"acquiring", "waiting_for_evidence", "executing"}
  /\ Begin(p, k, "reconcile")

RequestStop(p) ==
  /\ At(p, "requestStop")
  /\ Publish(p, Event(p, "request", 0, "request_stop"), "stop")
StopRun(p) ==
  /\ At(p, "stop")
  /\ Publish(p, Event(p, "stopped", 0, "stop"), "idle")
RequireOperator(p) ==
  Record(p, "reconcile", "reconcile", "require_reconciliation", "idle")

\* room(): the invocation may have no step or no time left.
Observe(p) == \E to \in {"reserve", "idle"} : Record(p, "observe", "observe", "observe", to)
Uncertain(p) == Record(p, "uncertain", "uncertain", "require_reconciliation", "idle")
Refused(p) == Record(p, "refused", "budget-refusal", "require_reconciliation", "idle")
Exhausted(p) == Record(p, "exhausted", "budget-refusal", "exhaust_budget", "idle")

\* Mutated: the task is acquired before the event that announces it.
AcquireUnannounced(p) ==
  At(p, "reserve") /\ Reserve(p, <<proc[p].key, "acquisition">>, "acquire")

ReserveAcquisition(p) ==
  At(p, "reserve") /\ Reserve(p, <<proc[p].key, "acquisition">>, "beginAcquire")
BeginAcquire(p) == Record(p, "beginAcquire", "begin-acquire", "begin_acquire", "acquire")

\* acquire-next, under its own lock and receipt: a receipt that is pending or
\* holds a failure answers every repeat with a failure.
AcquireNext(p) ==
  LET k == proc[p].key
      Answer(res) == Become(p, [proc[p] EXCEPT !.pc = "chargeAcquisition", !.res = res])
  IN
  /\ At(p, "acquire")
  /\ \/ /\ receipt[k] = "none"
        /\ \/ \E res \in {"ok", "transient", "failed"} :
                /\ receipt' = [receipt EXCEPT ![k] = res]
                /\ claims' = IF res = "ok" THEN claims \cup {k} ELSE claims
                /\ Answer(res)
           \/ Answer("no_offer") /\ UNCHANGED <<receipt, claims>>
           \/ /\ receipt' = [receipt EXCEPT ![k] = "failed"]
              /\ claims' \in {claims, claims \cup {k}}
              /\ Goto(p, "acquireUnknown") \/ Leave(p)
     \/ receipt[k] # "none" /\ Answer(receipt[k]) /\ UNCHANGED <<receipt, claims>>
  /\ UNCHANGED <<chain, ahead, budgetVars, attempt, launch>>

AcquireUnknown(p) ==
  Record(p, "acquireUnknown", "acquire-unknown", "require_reconciliation", "idle")

ChargeAcquisition(p) ==
  /\ At(p, "chargeAcquisition")
  /\ Charge(p, <<proc[p].key, "acquisition">>,
            IF proc[p].res = "ok" THEN "progress" ELSE "no_progress",
            proc[p].res)

\* The lease may no longer be the acquired one, which throws.
Acquired(p) ==
  \/ \E to \in {"context", "idle"} : Record(p, "ok", "acquired", "acquired", to)
  \/ At(p, "ok") /\ Leave(p) /\ UNCHANGED <<chain, ahead, budgetVars, effectVars>>
NoOffer(p) == Record(p, "no_offer", "no-offer", "no_offer", "idle")
AcquireFailed(p) == Record(p, "failed", "acquire-failed", "require_reconciliation", "idle")

\* The failures are those of the projection the call holds.
Transient(p) ==
  LET n == Failures(proc[p].cur) + 1 IN
  /\ At(p, "transient")
  /\ IF n > MaxRetry
     THEN Publish(p, Event(p, "retry-exhausted", 0, "block"), "idle")
     ELSE Publish(p, Event(p, "retry", n, "retry_wait"), "idle")

\* Attempt context, head event and authority of the dispatch the caller named,
\* read without the lock; a dispatch of another claim has no authority.
ReadAuthority(p) ==
  /\ At(p, "context")
  /\ \/ /\ chain # <<>> /\ Tip.op \in {"acquired", "begin_dispatch"}
        /\ \E d \in {Context} \X Run :
             Become(p, [proc[p] EXCEPT !.pc = "reserveDispatch", !.res = Tip.op,
                                       !.did = d])
     \/ Leave(p)
  /\ UNCHANGED <<chain, ahead, budgetVars, effectVars>>

\* Mutated: the dispatch is reserved under the name of the acquisition.
ReserveUnderOneName(p) ==
  At(p, "reserveDispatch") /\ Reserve(p, <<proc[p].key, "acquisition">>, "startAttempt")

ReserveDispatch(p) ==
  At(p, "reserveDispatch") /\ Reserve(p, <<proc[p].key, "dispatch">>, "startAttempt")

\* Mutated: the head is not asked whether a dispatch was begun.
StartRegardless(p) ==
  /\ At(p, "startAttempt")
  /\ attempt' = [attempt EXCEPT ![proc[p].did] = "started"]
  /\ Goto(p, "beginDispatch")
  /\ UNCHANGED <<chain, ahead, budgetVars, receipt, claims, launch>>

\* A new attempt is refused while another of the task is open or ended for
\* good; what the retry policy says of a failed one, or of the attempts under
\* other claims, is left open.
StartAttempt(p) ==
  LET d == proc[p].did
      others == {attempt[e] : e \in {f \in Dispatch \ {d} : f[1] = d[1]}} \ {"none"}
      next == IF proc[p].res = "acquired" THEN "beginDispatch" ELSE "closeAttempt"
  IN
  /\ At(p, "startAttempt")
  /\ \/ attempt[d] # "none" /\ Goto(p, next) /\ UNCHANGED attempt
     \/ /\ attempt[d] = "none" /\ others \subseteq {"failed"}
        /\ attempt' = [attempt EXCEPT ![d] = "started"]
        /\ Goto(p, next)
     \/ attempt[d] = "none" /\ Leave(p) /\ UNCHANGED attempt
  /\ UNCHANGED <<chain, ahead, budgetVars, receipt, claims, launch>>

\* recordTaskAutomationAttemptOutcome: end a started attempt or replay its end.
EndAttempt(p, outcome, q) ==
  LET d == proc[p].did IN
  /\ \/ /\ attempt[d] \in {"started", outcome}
        /\ attempt' = [attempt EXCEPT ![d] = outcome]
        /\ Become(p, q)
     \/ attempt[d] # "started" /\ Leave(p) /\ UNCHANGED attempt
  /\ UNCHANGED <<chain, ahead, budgetVars, receipt, claims, launch>>

CloseAttempt(p) ==
  /\ At(p, "closeAttempt")
  /\ EndAttempt(p, "reconciliation_required", [proc[p] EXCEPT !.pc = "attemptClosed"])
AttemptReconciliation(p) ==
  Record(p, "attemptClosed", "attempt-reconciliation", "require_reconciliation", "idle")

BeginDispatch(p) == Record(p, "beginDispatch", "begin-dispatch", "begin_dispatch", "dispatch")

\* dispatchDelegatedRun: one launch claim permits one action.  A run whose end
\* is not known is answered, and stays, for reconciliation.
Launch(p) ==
  LET d == proc[p].did
      Answer(end) == Become(p, [proc[p] EXCEPT !.pc = "chargeDispatch", !.res = end])
  IN
  /\ At(p, "dispatch")
  /\ \/ /\ launch[d] = "intent"
        /\ \/ \E end \in {"completed", "failed", "unknown"} :
                launch' = [launch EXCEPT ![d] = end] /\ Answer(end)
           \/ launch' = [launch EXCEPT ![d] = "unknown"] /\ Leave(p)
           \/ launch' \in {launch, [launch EXCEPT ![d] = "unknown"]}
              /\ Goto(p, "dispatchUnknown")
     \/ launch[d] # "intent" /\ Answer(launch[d]) /\ UNCHANGED launch
  /\ UNCHANGED <<chain, ahead, budgetVars, receipt, claims, attempt>>

DispatchUnknown(p) ==
  Record(p, "dispatchUnknown", "dispatch-unknown", "require_reconciliation", "idle")

ChargeDispatch(p) ==
  /\ At(p, "chargeDispatch")
  /\ Charge(p, <<proc[p].key, "dispatch">>,
            [completed |-> "progress", failed |-> "provider_failure",
             unknown |-> "no_progress"][proc[p].res],
            "completeAttempt")

CompleteAttempt(p) ==
  /\ At(p, "completeAttempt")
  /\ EndAttempt(p, IF proc[p].res = "unknown" THEN "reconciliation_required"
                   ELSE proc[p].res,
       [proc[p] EXCEPT !.pc = IF proc[p].res = "completed"
                              THEN "dispatchStarted" ELSE "dispatchObserved"])

DispatchStarted(p) ==
  \E to \in {"outcome", "idle"} :
    Record(p, "dispatchStarted", "dispatch-started", "dispatch_started", to)
OutcomeObserved(p) == Record(p, "outcome", "outcome", "outcome_observed", "idle")
DispatchObserved(p) ==
  Record(p, "dispatchObserved", "dispatch-observed", "require_reconciliation", "idle")

Die(p) ==
  /\ ~At(p, "idle") /\ Leave(p)
  /\ UNCHANGED <<chain, ahead, budgetVars, effectVars>>

Continue(p) ==
  \/ RequestStop(p) \/ StopRun(p) \/ RequireOperator(p)
  \/ Observe(p) \/ Uncertain(p) \/ Refused(p) \/ Exhausted(p)
  \/ ReserveAcquisition(p) \/ BeginAcquire(p) \/ AcquireNext(p)
  \/ AcquireUnknown(p) \/ ChargeAcquisition(p) \/ Acquired(p) \/ NoOffer(p)
  \/ AcquireFailed(p) \/ Transient(p)
  \/ ReadAuthority(p) \/ ReserveDispatch(p) \/ StartAttempt(p)
  \/ CloseAttempt(p) \/ AttemptReconciliation(p) \/ BeginDispatch(p)
  \/ Launch(p) \/ DispatchUnknown(p) \/ ChargeDispatch(p)
  \/ CompleteAttempt(p) \/ DispatchStarted(p) \/ OutcomeObserved(p)
  \/ DispatchObserved(p)

Next ==
  \E p \in Proc :
       \/ \E k \in Key : Step(p, k)
       \/ \E k \in OperatorKey : Stop(p, k) \/ Reconcile(p, k)
       \/ Continue(p)
       \/ Die(p)

Spec == Init /\ [][Next]_vars

-----------------------------------------------------------------------------
(* Properties.                                                             *)

PC == {"idle", "observe", "uncertain", "refused", "exhausted", "reserve",
       "beginAcquire", "acquire", "acquireUnknown", "chargeAcquisition", "ok",
       "no_offer", "transient", "failed", "context", "reserveDispatch",
       "startAttempt", "closeAttempt", "attemptClosed", "beginDispatch",
       "dispatch", "dispatchUnknown", "chargeDispatch", "completeAttempt",
       "dispatchStarted", "dispatchObserved", "outcome", "requestStop", "stop",
       "reconcile"}

\* Every variable has its type.
TypeOK ==
  /\ \A i \in DOMAIN chain : chain[i].rev = i
  /\ \A a \in ahead : a.named \in BOOLEAN
  /\ \A p \in Proc : proc[p].pc \in PC
  /\ budget \in {"active", "stopped"}
  /\ held \in Reservation \cup {Nothing}
  /\ receipt \in [Key -> {"none", "ok", "transient", "failed"}]
  /\ claims \subseteq Key

Events(op) == {i \in DOMAIN chain : chain[i].op = op}
Launched == {d \in Dispatch : launch[d] # "intent"}

\* The durable events are one history: each extends its predecessor by an
\* operation its state allows, and beyond the projection there is at most one
\* (assertNoUnfoldedEvent and the compare and swap of appendLocked).
OneHistory ==
  /\ \A i \in DOMAIN chain :
       Admits(IF i = 1 THEN "created" ELSE StateAfter[chain[i - 1].op], chain[i].op)
  /\ \A a \in ahead : a.event.rev = Len(chain) + 1 /\ Admits(Current, a.event.op)
  /\ \A a, b \in ahead : a = b

\* A task that acquire-next took is in the history, or the run is at the
\* boundary or with an operator.  A launched run has its outcome in the
\* history, or the loop goes no further: whoever died and whatever was
\* repeated, the run never acquires or completes past an effect it cannot
\* account for.
EffectsAreRecorded ==
  /\ \A k \in claims :
       \/ \E i \in Events("acquired") : chain[i].key = k
       \/ Current \in {"acquiring", "reconciliation_required"}
  /\ \A d \in Launched :
       \/ \E i \in Events("dispatch_started") : chain[i].did = d
       \/ Current \in {"executing", "budget_exhausted", "stopping", "stopped",
                       "reconciliation_required"}

\* The run works on one claim at a time: every other claim of its keys has an
\* observed outcome.
OneClaimAtATime ==
  \A k, l \in claims :
    k = l \/ \E i \in Events("outcome_observed") :
               \E j \in Events("acquired") : j < i /\ chain[j].key \in {k, l}

\* One claim is dispatched once, under whatever dispatch ids and keys the
\* callers come back after a death.
DispatchOnce == \A d, e \in Launched : d[1] = e[1] => d = e

\* A launched run has its durable event, under a claim the run recorded and
\* under a reservation that was charged or is still open: the three stores
\* agree in the order of the writes.
LaunchIsCovered ==
  \A d \in Launched :
    \E i \in Events("begin_dispatch"), j \in Events("acquired") :
      /\ j < i /\ chain[i].did = d /\ chain[j].key = d[1]
      /\ LET r == <<chain[i].key, "dispatch">> IN held = r \/ usage[r] # "none"

\* A task is claimed only while the history says that it may be: after
\* begin_acquire and never once a stop was requested.
AcquiresWhenAnnounced ==
  [][claims' # claims => /\ Current \in {"acquiring", "reconciliation_required"}
                         /\ Events("begin_acquire") # {}
                         /\ Events("request_stop") = {}]_vars

=============================================================================
