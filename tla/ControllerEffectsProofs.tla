----------------------- MODULE ControllerEffectsProofs -----------------------
(***************************************************************************)
(* What a Controller run never leaves behind: a task it claimed or a run   *)
(* it launched that its history cannot account for.                        *)
(*                                                                         *)
(* The argument.  Two calls change something outside the run's own store:  *)
(* acquire-next claims a task, the dispatch launches a run.  Both come     *)
(* right behind the event that announces them, and both are answered once  *)
(* and for all under a key of their own.  Until the answer is there, no    *)
(* call can append the event that would go on: whoever has the answer is   *)
(* the one that asked (Told), and a call that read the run in the          *)
(* meantime knows it to be at the announcement (Placed) and can only hand  *)
(* it to an operator.  The run is therefore still at the announcement, or  *)
(* with the operator directly behind it (Announces, Dispatches), when the  *)
(* task is claimed or the run is launched.                                 *)
(***************************************************************************)
EXTENDS ControllerProofs

\* Calls between the announcement of an acquisition and its event, and between
\* that of a dispatch and its event.
Taking == {"acquire", "chargeAcquisition", "ok", "transient", "failed", "no_offer",
           "acquireUnknown"}
Launching == {"dispatch", "chargeDispatch", "completeAttempt", "dispatchStarted",
              "dispatchObserved", "dispatchUnknown"}

AtHead(op) == chain # <<>> /\ Tip.op = op

\* The run waits for the acquisition under key k, or was handed over waiting.
Announces(k) ==
  \/ AtHead("begin_acquire") /\ Tip.key = k
  \/ /\ AtHead("require_reconciliation") /\ Len(chain) > 1
     /\ chain[Len(chain) - 1].op = "begin_acquire" /\ chain[Len(chain) - 1].key = k

\* The run waits for the end of dispatch d, or goes no further.
Over == {"budget_exhausted", "stopping", "stopped", "reconciliation_required"}
Dispatches(d) == (AtHead("begin_dispatch") /\ Tip.did = d) \/ Current \in Over

\* What a call knows of the run as long as the chain is the one it read.
Placed(p) ==
  LET c == proc[p] IN
  c.cur = Len(chain) =>
    /\ c.pc = "reserve" => Current = "observing"
    /\ c.pc \in {"context", "reserveDispatch"} => Current = "executing"
    /\ c.pc = "exhausted" => Current \in {"observing", "executing"}
    /\ c.pc \in Taking => AtHead("begin_acquire") /\ Tip.key = c.key
    /\ c.pc \in Launching => AtHead("begin_dispatch") /\ Tip.did = c.did

\* What it knows of the two stores, whatever the chain is: the answers are final,
\* and before there is one nobody went on.
Told(p) ==
  LET c == proc[p] IN
  /\ c.pc \in {"ok", "transient"} => receipt[c.key] = c.pc
  /\ c.pc = "chargeAcquisition" /\ c.res \in {"ok", "transient"} => receipt[c.key] = c.res
  /\ c.pc = "acquire" /\ receipt[c.key] = "none" => Announces(c.key)
  /\ c.pc \in {"chargeDispatch", "completeAttempt", "dispatchStarted"} => c.did \in Launched
  /\ c.pc = "dispatch" /\ c.did \notin Launched => Dispatches(c.did)

Acknowledged(k) == \E i \in Events("acquired") : chain[i].key = k
Started(d) == \E i \in Events("dispatch_started") : chain[i].did = d

\* The work on the task that was claimed under k has an outcome.
Closed(k) ==
  \E i \in Events("outcome_observed"), j \in Events("acquired") : j < i /\ chain[j].key = k

\* A claim whose outcome is open is the one the run is at.
Occupies(k) ==
  \/ Closed(k)
  \/ Current \notin {"created", "observing"} /\ \A l \in Key : Announces(l) => l = k

Claimed ==
  \A k \in claims : /\ receipt[k] \in {"ok", "failed"}
                    /\ Acknowledged(k) \/ Announces(k)
                    /\ Occupies(k)
OneOpen == \A k, l \in claims : k = l \/ Closed(k) \/ Closed(l)
Ran == \A d \in Launched : Started(d) \/ Dispatches(d)

\* Nothing but the stop follows a request to stop.
StopIsFinal ==
  \A i \in Events("request_stop"), j \in DOMAIN chain :
    i < j => chain[j].op \in {"stop", "require_reconciliation"}

Effects == Claimed /\ OneOpen /\ Ran /\ StopIsFinal

EInv ==
  /\ \A p \in Proc : Placed(p) /\ Told(p)
  /\ Effects

-----------------------------------------------------------------------------
(* An event that is appended.                                              *)

Adds(f) == f \in Evt /\ Admits(Current, f.op) /\ chain' = Append(chain, f)

\* What the event rests on besides the table of transitions.
Justified(f) ==
  /\ f.op \in {"acquired", "retry_wait", "block"} =>
       /\ AtHead("begin_acquire") /\ Tip.key = f.key /\ f.key \in Key
       /\ receipt[f.key] = IF f.op = "acquired" THEN "ok" ELSE "transient"
  /\ f.op = "exhaust_budget" => Current \in {"observing", "executing"}
  /\ f.op = "begin_dispatch" => AtHead("acquired")
  /\ f.op = "dispatch_started" =>
       AtHead("begin_dispatch") /\ Tip.did = f.did /\ f.did \in Launched

LEMMA AddsIs ==
  ASSUME chain \in Seq(Evt), NEW f, Adds(f)
  PROVE  /\ Len(chain') = Len(chain) + 1 /\ Len(chain) \in Nat
         /\ DOMAIN chain = 1..Len(chain) /\ DOMAIN chain' = 1..(Len(chain) + 1)
         /\ \A i \in DOMAIN chain : chain'[i] = chain[i]
         /\ chain'[Len(chain) + 1] = f /\ f.op \in Ops
         /\ Tip' = f /\ chain' # <<>> /\ Current' = StateAfter[f.op]
         /\ \A op : Events(op) \subseteq Events(op)'
         /\ Len(chain) + 1 \in Events(f.op)'
<1>1. /\ Len(chain') = Len(chain) + 1 /\ Len(chain) \in Nat
      /\ DOMAIN chain = 1..Len(chain) /\ DOMAIN chain' = 1..(Len(chain) + 1)
      /\ \A i \in DOMAIN chain : chain'[i] = chain[i]
      /\ chain'[Len(chain) + 1] = f /\ f.op \in Ops /\ chain' # <<>>
  BY DEF Adds, Evt
<1>2. Tip' = f
  BY <1>1 DEF Tip, Last
<1>3. Current' = StateAfter[f.op]
  BY <1>1, <1>2 DEF Current, Tip
<1> QED
  BY <1>1, <1>2, <1>3 DEF Events

LEMMA HeadIs ==
  ASSUME chain \in Seq(Evt), NEW op, AtHead(op)
  PROVE  Current = StateAfter[op] /\ Len(chain) \in DOMAIN chain /\ chain[Len(chain)].op = op
  BY TipIs DEF AtHead

LEMMA AnnouncesOne ==
  ASSUME NEW k, NEW l, Announces(k), Announces(l) PROVE k = l
  BY DEF Announces, AtHead

LEMMA AnnouncesAt ==
  ASSUME chain \in Seq(Evt), NEW k, Announces(k)
  PROVE  /\ Current \in {"acquiring", "reconciliation_required"}
         /\ AtHead("begin_acquire") \/ Current = "reconciliation_required"
  BY HeadIs DEF Announces, StateAfter

\* What follows an announcement: the event of its answer, or the operator.
LEMMA AfterAnnouncement ==
  ASSUME chain \in Seq(Evt), NEW f, Adds(f), Justified(f), NEW k, Announces(k)
  PROVE  \/ Announces(k)'
         \/ f.key = k /\ f.op = "acquired" /\ receipt[k] = "ok"
         \/ f.key = k /\ f.op \in {"retry_wait", "block"} /\ receipt[k] = "transient"
<1>1. CASE AtHead("begin_acquire") /\ Tip.key = k
  <2>1. Current = "acquiring"
    BY <1>1, HeadIs DEF StateAfter
  <2>2. f.op \in {"acquired", "retry_wait", "block", "exhaust_budget", "require_reconciliation"}
    BY <2>1 DEF Adds, Admits, Allowed, Terminal
  <2>3. CASE f.op = "require_reconciliation"
    <3>1. chain'[Len(chain)] = Tip /\ Len(chain) >= 1
      BY <1>1, AddsIs, TipIs DEF AtHead
    <3> QED
      BY <1>1, <2>3, <3>1, AddsIs DEF Announces, AtHead
  <2> QED
    BY <1>1, <2>1, <2>2, <2>3 DEF Justified
<1>2. CASE AtHead("require_reconciliation")
  <2>1. Current = "reconciliation_required"
    BY <1>2, HeadIs DEF StateAfter
  <2> QED
    BY <2>1 DEF Adds, Admits, Allowed, Terminal
<1> QED
  BY <1>1, <1>2 DEF Announces

LEMMA AfterDispatch ==
  ASSUME chain \in Seq(Evt), NEW f, Adds(f), Justified(f), NEW d, Dispatches(d)
  PROVE  Dispatches(d)' \/ (f.op = "dispatch_started" /\ f.did = d /\ d \in Launched)
<1>1. CASE AtHead("begin_dispatch") /\ Tip.did = d
  <2>1. Current = "executing"
    BY <1>1, HeadIs DEF StateAfter
  <2>2. f.op \in {"dispatch_started", "exhaust_budget", "request_stop", "require_reconciliation"}
    BY <1>1, <2>1 DEF Adds, Admits, Allowed, Terminal, Justified, AtHead
  <2> QED
    BY <1>1, <2>2, AddsIs DEF Justified, Dispatches, Over, StateAfter
<1>2. CASE Current \in Over
  <2>1. f.op \in {"stop", "require_reconciliation"}
    BY <1>2 DEF Adds, Admits, Allowed, Terminal, Over
  <2> QED
    BY <2>1, AddsIs DEF Dispatches, Over, StateAfter
<1> QED
  BY <1>1, <1>2 DEF Dispatches

\* The unchanged stores.
Idem == UNCHANGED <<receipt, claims, launch>>

LEMMA ClosedStays ==
  ASSUME chain \in Seq(Evt), NEW f, Adds(f), NEW k
  PROVE  /\ Closed(k) => Closed(k)'
         /\ Acknowledged(k) => Acknowledged(k)'
         /\ Started(k) => Started(k)'
<1>1. \A op : \A i \in Events(op) : i \in Events(op)' /\ chain'[i] = chain[i]
  BY AddsIs DEF Events
<1> QED
  BY <1>1 DEF Closed, Acknowledged, Started

LEMMA ClaimedKept ==
  ASSUME chain \in Seq(Evt), NEW f, Adds(f), Justified(f), Idem, Claimed, claims \subseteq Key
  PROVE  Claimed'
<1> SUFFICES ASSUME NEW k \in claims
             PROVE  (Acknowledged(k)' \/ Announces(k)') /\ Occupies(k)'
  BY DEF Claimed, Idem
<1>0. k \in Key /\ receipt[k] \in {"ok", "failed"} /\ (Acknowledged(k) \/ Announces(k)) /\ Occupies(k)
  BY DEF Claimed
<1>1. Acknowledged(k)' \/ Announces(k)'
  <2>1. CASE Acknowledged(k)
    BY <2>1, ClosedStays
  <2>2. CASE Announces(k)
    <3>1. CASE f.key = k /\ f.op = "acquired"
      BY <3>1, AddsIs DEF Acknowledged
    <3> QED
      BY <1>0, <2>2, <3>1, AfterAnnouncement
  <2> QED
    BY <1>0, <2>1, <2>2
<1>2. Occupies(k)'
  <2>1. CASE Closed(k)
    BY <2>1, ClosedStays DEF Occupies
  <2>2. CASE ~Closed(k)
    <3>0. Current \notin {"created", "observing"} /\ \A l \in Key : Announces(l) => l = k
      BY <1>0, <2>2 DEF Occupies
    <3>1. CASE f.op = "outcome_observed"
      <4>1. Current = "waiting_for_evidence"
        BY <3>1 DEF Adds, Admits, Allowed, Terminal
      <4>2. PICK j \in Events("acquired") : chain[j].key = k
        BY <1>0, <4>1, AnnouncesAt DEF Acknowledged
      <4>3. j \in Events("acquired")' /\ chain'[j] = chain[j] /\ j < Len(chain) + 1
        BY AddsIs DEF Events
      <4> QED
        BY <3>1, <4>2, <4>3, AddsIs DEF Occupies, Closed
    <3>2. f.op \notin {"observe", "retry_wait", "begin_acquire", "no_offer"}
      <4>1. f.op \notin {"observe", "begin_acquire", "no_offer"}
        BY <3>0 DEF Adds, Admits, Allowed, Terminal
      <4>2. f.op # "retry_wait"
        BY <1>0, <3>0 DEF Justified, Announces
      <4> QED
        BY <4>1, <4>2
    <3>3. CASE f.op # "outcome_observed"
      <4>1. Current' \notin {"created", "observing"}
        BY <3>2, <3>3, AddsIs DEF StateAfter, Ops
      <4>2. ASSUME NEW l \in Key, Announces(l)' PROVE l = k
        <5>1. /\ f.op = "require_reconciliation" /\ Len(chain') > 1
              /\ chain'[Len(chain') - 1].op = "begin_acquire" /\ chain'[Len(chain') - 1].key = l
          BY <3>2, <4>2, AddsIs DEF Announces, AtHead
        <5>2. Len(chain) >= 1 /\ chain'[Len(chain') - 1] = chain[Len(chain)]
          BY <5>1, AddsIs
        <5>3. chain # <<>> /\ Tip = chain[Len(chain)]
          BY <5>2, TipIs
        <5>4. Announces(l)
          BY <5>1, <5>2, <5>3 DEF Announces, AtHead
        <5> QED
          BY <3>0, <5>4
      <4> QED
        BY <4>1, <4>2 DEF Occupies
    <3> QED
      BY <3>1, <3>3
  <2> QED
    BY <2>1, <2>2
<1> QED
  BY <1>1, <1>2

LEMMA EffectsKept ==
  ASSUME chain \in Seq(Evt), NEW f, Adds(f), Justified(f), Idem, Effects, claims \subseteq Key
  PROVE  Effects'
<1>1. Claimed'
  BY ClaimedKept DEF Effects
<1>2. OneOpen'
  BY ClosedStays DEF Effects, OneOpen, Idem
<1>3. Ran'
  <2> SUFFICES ASSUME NEW d \in Launched PROVE Started(d)' \/ Dispatches(d)'
    BY DEF Ran, Idem, Launched
  <2>1. CASE f.op = "dispatch_started" /\ f.did = d
    BY <2>1, AddsIs DEF Started
  <2> QED
    BY <2>1, ClosedStays, AfterDispatch DEF Effects, Ran
<1>4. StopIsFinal'
  <2> SUFFICES ASSUME NEW i \in Events("request_stop")', NEW j \in DOMAIN chain', i < j
               PROVE  chain'[j].op \in {"stop", "require_reconciliation"}
    BY DEF StopIsFinal
  <2>1. i \in Events("request_stop") /\ chain'[i] = chain[i]
    BY AddsIs DEF Events
  <2>2. CASE j \in DOMAIN chain
    BY <2>1, <2>2, AddsIs DEF Effects, StopIsFinal
  <2>3. CASE j = Len(chain) + 1
    <3>1. chain # <<>> /\ i \in 1..Len(chain)
      BY <2>1, AddsIs DEF Events
    <3>2. Tip.op \in {"request_stop", "stop", "require_reconciliation"}
      BY <2>1, <3>1, TipIs DEF Effects, StopIsFinal, Events
    <3>3. Current \in {"stopping", "stopped", "reconciliation_required"}
      BY <3>1, <3>2, TipIs DEF StateAfter
    <3> QED
      BY <2>3, <3>3, AddsIs DEF Adds, Admits, Allowed, Terminal
  <2> QED
    BY <2>2, <2>3, AddsIs
<1> QED
  BY <1>1, <1>2, <1>3, <1>4 DEF Effects

-----------------------------------------------------------------------------
(* A call that publishes.                                                  *)

\* What an append does: nothing, the head again, or one event more.
Like(f, e) == f.op = e.op /\ f.key = e.key /\ f.did = e.did

Published(p, e, to) ==
  \/ chain' = chain /\ Leave(p)
  \/ chain' = chain /\ chain # <<>> /\ Like(Tip, e) /\ Onward(p, to)
  \/ /\ proc[p].cur = Len(chain)
     /\ \E f \in Evt : Like(f, e) /\ Adds(f)
     /\ Onward(p, to)

LEMMA PublishedIs ==
  ASSUME IInv, NEW p \in Proc, NEW e \in Evt, NEW to, Publish(p, e, to)
  PROVE  Published(p, e, to) /\ Idem
<1>0. chain \in Seq(Evt) /\ DOMAIN chain = 1..Len(chain) /\ Len(chain) \in Nat
  BY DEF IInv, History, Folded
<1>1. ASSUME NEW f \in Named(e), Repeat(p, e, f, to) PROVE Published(p, e, to)
  <2>0. ASSUME Rebuilds(e, f) PROVE Like(f, e)
    BY <2>0 DEF Rebuilds, Evt, Like
  <2>1. CASE Throw(p)
    BY <2>1 DEF Throw, Published
  <2>2. CASE Rebuilds(e, f) /\ chain # <<>> /\ f = Tip /\ UNCHANGED <<chain, ahead>> /\ Onward(p, to)
    BY <2>0, <2>2 DEF Published
  <2>3. CASE /\ Rebuilds(e, f) /\ proc[p].cur = Len(chain) /\ f.rev = Len(chain) + 1
             /\ chain' = Append(chain, f)
             /\ Onward(p, to)
    <3>1. f \notin ToSet(chain)
      BY <1>0, <2>3 DEF ToSet, IInv, History, Folded
    <3>2. PICK a \in ahead : a.event = f
      BY <3>1 DEF Named
    <3>3. f \in Evt /\ Admits(Current, f.op)
      BY <3>2 DEF IInv, History, Unfolded, Fits
    <3> QED
      BY <2>0, <2>3, <3>3 DEF Published, Adds
  <2> QED
    BY <1>1, <2>1, <2>2, <2>3 DEF Repeat
<1>2. ASSUME Throw(p) PROVE Published(p, e, to)
  BY <1>2 DEF Throw, Published
<1>3. ASSUME Extends(e, proc[p].cur), Extend(p, e, to) PROVE Published(p, e, to)
  BY <1>3 DEF Extends, Extend, Published, Adds, Like
<1> QED
  BY <1>1, <1>2, <1>3 DEF Publish, effectVars, Idem

\* The places from which an operation is appended, and where the call goes on.
Way(pc, op, to) ==
  /\ op = "acquired" => pc = "ok"
  /\ op \in {"retry_wait", "block"} => pc = "transient"
  /\ op = "exhaust_budget" => pc = "exhausted"
  /\ op = "begin_dispatch" => pc = "beginDispatch"
  /\ op = "dispatch_started" => pc = "dispatchStarted"
  /\ to \in Targets /\ pc \notin {"idle"}
  /\ to = "reserve" => op = "observe"
  /\ to = "acquire" => op = "begin_acquire"
  /\ to = "context" => op = "acquired"
  /\ to = "dispatch" => op = "begin_dispatch"

\* An event of a call that knows where it is is justified.
LEMMA JustifiedIs ==
  ASSUME IInv, EInv, NEW p \in Proc, NEW e, NEW f, NEW to, Way(proc[p].pc, e.op, to),
         e.key = proc[p].key, e.op = "dispatch_started" => e.did = proc[p].did,
         Like(f, e), proc[p].cur = Len(chain)
  PROVE  Justified(f)
<1>1. Placed(p) /\ Told(p) /\ Knows(p)
  BY DEF EInv, IInv
<1>2. ASSUME f.op \in {"acquired", "retry_wait", "block"}
      PROVE  /\ AtHead("begin_acquire") /\ Tip.key = f.key /\ f.key \in Key
             /\ receipt[f.key] = IF f.op = "acquired" THEN "ok" ELSE "transient"
  <2>1. proc[p].pc = IF f.op = "acquired" THEN "ok" ELSE "transient"
    BY <1>2 DEF Way, Like
  <2> QED
    BY <1>1, <2>1 DEF Placed, Told, Knows, Taking, Like, Outside
<1>3. f.op = "exhaust_budget" => Current \in {"observing", "executing"}
  BY <1>1 DEF Placed, Way, Like
<1>4. f.op = "begin_dispatch" => AtHead("acquired")
  BY <1>1 DEF Knows, Ready, Way, Like, AtHead
<1>5. f.op = "dispatch_started" =>
        AtHead("begin_dispatch") /\ Tip.did = f.did /\ f.did \in Launched
  BY <1>1 DEF Placed, Told, Launching, Way, Like
<1> QED
  BY <1>2, <1>3, <1>4, <1>5 DEF Justified

\* The calls that do not move.
LEMMA OthersAppend ==
  ASSUME IInv, EInv, NEW p \in Proc, NEW q, Become(p, q), Idem, NEW r \in Proc \ {p},
         chain' = chain \/ \E f : Adds(f) /\ Justified(f)
  PROVE  Placed(r)' /\ Told(r)'
<1>0. chain \in Seq(Evt) /\ proc[r] \in Call /\ proc[r].cur <= Len(chain) /\ proc[r].cur \in Nat
      /\ (proc[r].pc \notin Outside => proc[r].key \in Key)
  BY DEF IInv, History, Folded, Typed, Call, Knows
<1>1. proc'[r] = proc[r] /\ Placed(r) /\ Told(r)
  BY DEF EInv, IInv, Typed, Become
<1>2. CASE chain' = chain
  <2>1. Tip' = Tip /\ Current' = Current
    BY <1>2 DEF Tip, Last, Current
  <2> QED
    BY <1>1, <1>2, <2>1 DEF Placed, Told, Idem, AtHead, Announces, Dispatches, Launched
<1>3. ASSUME NEW f, Adds(f), Justified(f) PROVE Placed(r)' /\ Told(r)'
  <2>1. proc[r].cur # Len(chain')
    BY <1>0, <1>3, AddsIs
  <2>2. proc[r].pc = "acquire" /\ receipt[proc[r].key] = "none" => Announces(proc[r].key)'
    BY <1>0, <1>1, <1>3, AfterAnnouncement DEF Told
  <2>3. proc[r].pc = "dispatch" /\ proc[r].did \notin Launched => Dispatches(proc[r].did)'
    BY <1>0, <1>1, <1>3, AfterDispatch DEF Told
  <2>4. Launched' = Launched
    BY DEF Launched, Idem
  <2> QED
    BY <1>1, <2>1, <2>2, <2>3, <2>4 DEF Placed, Told, Idem, Announces, Dispatches
<1> QED
  BY <1>2, <1>3

LEMMA Unmoved ==
  ASSUME chain' = chain, Idem, Effects PROVE Effects'
<1>1. Tip' = Tip /\ Current' = Current
  BY DEF Tip, Last, Current
<1> QED
  BY <1>1 DEF Effects, Claimed, OneOpen, Ran, StopIsFinal, Idem, Launched, Acknowledged, Started,
              Closed, Occupies, Announces, Dispatches, AtHead, Events

\* Where a call goes on, it knows what it has to.
LEMMA OnwardKnows ==
  ASSUME chain' \in Seq(Evt), NEW p \in Proc, proc \in [Proc -> Call], NEW e,
         NEW to \in Targets, Way(proc[p].pc, e.op, to),
         e.key = proc[p].key, to = "dispatch" => e.did = proc[p].did,
         chain' # <<>>, Like(Tip', e), Onward(p, to)
  PROVE  Placed(p)' /\ Told(p)'
<1>1. CASE to = "idle"
  <2>1. proc'[p] = Idle
    BY <1>1 DEF Onward, Leave, Become
  <2> QED
    BY <2>1 DEF Idle, Placed, Told, Taking, Launching
<1>2. CASE to # "idle"
  <2>1. /\ proc'[p].pc = to /\ proc'[p].key = proc[p].key /\ proc'[p].did = proc[p].did
    BY <1>2 DEF Onward, Become, Call
  <2>2. Tip'.op = e.op /\ Tip'.key = e.key /\ Tip'.did = e.did /\ AtHead(e.op)'
    BY DEF Like, AtHead
  <2>3. Current' = StateAfter[e.op]
    BY <2>2 DEF Current, AtHead, Tip
  <2>4. Placed(p)'
    BY <2>1, <2>2, <2>3 DEF Placed, Taking, Launching, Targets, Way, StateAfter
  <2>5. Told(p)'
    BY <2>1, <2>2, <2>3 DEF Told, Targets, Way, Announces, Dispatches
  <2> QED
    BY <2>4, <2>5
<1> QED
  BY <1>1, <1>2

LEMMA LeaveKnows ==
  ASSUME NEW p \in Proc, proc \in [Proc -> Call], Leave(p)
  PROVE  Placed(p)' /\ Told(p)'
<1>1. proc'[p] = Idle
  BY DEF Leave, Become
<1> QED
  BY <1>1 DEF Idle, Placed, Told, Taking, Launching

LEMMA AppendEffects ==
  ASSUME IInv, EInv, NEW p \in Proc, NEW slot \in Slots, NEW n \in Nat, NEW op \in Ops,
         NEW to, Way(proc[p].pc, op, to),
         slot = "budget-refusal" => op \notin {"dispatch_started", "begin_dispatch"},
         Publish(p, Event(p, slot, n, op), to)
  PROVE  EInv'
<1> DEFINE e == Event(p, slot, n, op)
<1>0. /\ chain \in Seq(Evt) /\ Len(chain) \in Nat /\ proc \in [Proc -> Call] /\ claims \subseteq Key
      /\ proc[p].key \in Caller
  BY DEF IInv, History, Folded, Typed, Knows, Way
<1>1. /\ e \in Evt /\ e.op = op /\ e.key = proc[p].key
      /\ op \in {"dispatch_started", "begin_dispatch"} => e.did = proc[p].did
  BY <1>0 DEF Event, Evt, Call
<1>2. to \in Targets /\ (to = "dispatch" => op = "begin_dispatch")
  BY DEF Way
<1> HIDE DEF e
<1>3. Published(p, e, to) /\ Idem
  BY <1>1, PublishedIs DEF e
<1>4. PICK q : Become(p, q)
  BY <1>3 DEF Published, Onward, Leave
<1>5. ASSUME chain' = chain \/ \E f : Adds(f) /\ Justified(f), Placed(p)', Told(p)'
      PROVE  EInv'
  <2>1. Effects'
    <3>1. CASE chain' = chain
      BY <1>3, <3>1, Unmoved DEF EInv
    <3>2. ASSUME NEW f, Adds(f), Justified(f) PROVE Effects'
      BY <1>0, <1>3, <3>2, EffectsKept DEF EInv
    <3> QED
      BY <1>5, <3>1, <3>2
  <2>2. \A r \in Proc \ {p} : Placed(r)' /\ Told(r)'
    BY <1>3, <1>4, <1>5, OthersAppend
  <2> QED
    BY <1>5, <2>1, <2>2 DEF EInv
<1>6. CASE chain' = chain /\ Leave(p)
  BY <1>0, <1>5, <1>6, LeaveKnows
<1>7. CASE chain' = chain /\ chain # <<>> /\ Like(Tip, e) /\ Onward(p, to)
  <2>1. chain' \in Seq(Evt) /\ chain' # <<>> /\ Tip' = Tip
    BY <1>0, <1>7 DEF Tip, Last
  <2> QED
    BY <1>0, <1>1, <1>2, <1>5, <1>7, <2>1, OnwardKnows
<1>8. ASSUME proc[p].cur = Len(chain), NEW f \in Evt, Like(f, e), Adds(f), Onward(p, to)
      PROVE  EInv'
  <2>1. Justified(f)
    BY <1>1, <1>8, JustifiedIs
  <2>2. chain' \in Seq(Evt) /\ chain' # <<>> /\ Tip' = f
    BY <1>0, <1>8, AddsIs DEF Adds
  <2> QED
    BY <1>0, <1>1, <1>2, <1>5, <1>8, <2>1, <2>2, OnwardKnows
<1> QED
  BY <1>3, <1>6, <1>7, <1>8 DEF Published

-----------------------------------------------------------------------------
(* The actions that append.                                                *)

Road(from, slot, op, to) ==
  /\ Way(from, op, to) /\ slot \in Slots /\ op \in Ops
  /\ slot = "budget-refusal" => op \notin {"dispatch_started", "begin_dispatch"}

LEMMA RecordEffects ==
  ASSUME IInv, EInv, NEW p \in Proc, NEW from, NEW slot, NEW op, NEW to,
         Road(from, slot, op, to), Record(p, from, slot, op, to)
  PROVE  EInv'
<1>1. proc[p].pc = from /\ Publish(p, Event(p, slot, 0, op), to)
  BY DEF Record, At
<1> QED
  BY <1>1, AppendEffects DEF Road

LEMMA Roads ==
  /\ Road("requestStop", "request", "request_stop", "stop")
  /\ Road("stop", "stopped", "stop", "idle")
  /\ Road("reconcile", "reconcile", "require_reconciliation", "idle")
  /\ Road("observe", "observe", "observe", "reserve")
  /\ Road("observe", "observe", "observe", "idle")
  /\ Road("uncertain", "uncertain", "require_reconciliation", "idle")
  /\ Road("refused", "budget-refusal", "require_reconciliation", "idle")
  /\ Road("exhausted", "budget-refusal", "exhaust_budget", "idle")
  /\ Road("beginAcquire", "begin-acquire", "begin_acquire", "acquire")
  /\ Road("acquireUnknown", "acquire-unknown", "require_reconciliation", "idle")
  /\ Road("ok", "acquired", "acquired", "context")
  /\ Road("ok", "acquired", "acquired", "idle")
  /\ Road("no_offer", "no-offer", "no_offer", "idle")
  /\ Road("failed", "acquire-failed", "require_reconciliation", "idle")
  /\ Road("attemptClosed", "attempt-reconciliation", "require_reconciliation", "idle")
  /\ Road("beginDispatch", "begin-dispatch", "begin_dispatch", "dispatch")
  /\ Road("dispatchUnknown", "dispatch-unknown", "require_reconciliation", "idle")
  /\ Road("dispatchStarted", "dispatch-started", "dispatch_started", "outcome")
  /\ Road("dispatchStarted", "dispatch-started", "dispatch_started", "idle")
  /\ Road("outcome", "outcome", "outcome_observed", "idle")
  /\ Road("dispatchObserved", "dispatch-observed", "require_reconciliation", "idle")
  BY DEF Road, Way, Slots, Ops, Targets

LEMMA RecordsEffects ==
  ASSUME IInv, EInv, NEW p \in Proc,
         \/ RequestStop(p) \/ StopRun(p) \/ RequireOperator(p)
         \/ Observe(p) \/ Uncertain(p) \/ Refused(p) \/ Exhausted(p) \/ BeginAcquire(p)
         \/ AcquireUnknown(p) \/ NoOffer(p) \/ AcquireFailed(p) \/ AttemptReconciliation(p)
         \/ BeginDispatch(p) \/ DispatchUnknown(p) \/ DispatchStarted(p) \/ OutcomeObserved(p)
         \/ DispatchObserved(p)
  PROVE  EInv'
<1>1. CASE RequestStop(p)
  BY <1>1, Roads, RecordEffects DEF RequestStop, Record
<1>2. CASE StopRun(p)
  BY <1>2, Roads, RecordEffects DEF StopRun, Record
<1>3. CASE RequireOperator(p) \/ Uncertain(p) \/ Refused(p) \/ Exhausted(p)
  BY <1>3, Roads, RecordEffects DEF RequireOperator, Uncertain, Refused, Exhausted
<1>4. CASE Observe(p) \/ DispatchStarted(p)
  BY <1>4, Roads, RecordEffects DEF Observe, DispatchStarted
<1>5. CASE BeginAcquire(p) \/ AcquireUnknown(p) \/ NoOffer(p) \/ AcquireFailed(p)
  BY <1>5, Roads, RecordEffects DEF BeginAcquire, AcquireUnknown, NoOffer, AcquireFailed
<1>6. CASE AttemptReconciliation(p) \/ BeginDispatch(p) \/ DispatchUnknown(p)
  BY <1>6, Roads, RecordEffects DEF AttemptReconciliation, BeginDispatch, DispatchUnknown
<1>7. CASE OutcomeObserved(p) \/ DispatchObserved(p)
  BY <1>7, Roads, RecordEffects DEF OutcomeObserved, DispatchObserved
<1> QED
  BY <1>1, <1>2, <1>3, <1>4, <1>5, <1>6, <1>7

\* Steps of a call that leave the chain and the two stores alone.
LEMMA QuietStep ==
  ASSUME IInv, EInv, NEW p \in Proc, NEW q, Become(p, q), UNCHANGED chain, Idem,
         Placed(p)', Told(p)'
  PROVE  EInv'
<1>1. Effects'
  BY Unmoved DEF EInv
<1>2. \A r \in Proc \ {p} : Placed(r)' /\ Told(r)'
  BY OthersAppend
<1> QED
  BY <1>1, <1>2 DEF EInv

LEMMA LeaveEffects ==
  ASSUME IInv, EInv, NEW p \in Proc, Leave(p), UNCHANGED chain, Idem
  PROVE  EInv'
  BY LeaveKnows, QuietStep DEF Leave, IInv, Typed

LEMMA AcquiredEffects ==
  ASSUME IInv, EInv, NEW p \in Proc, Acquired(p)
  PROVE  EInv'
<1>1. ASSUME NEW to \in {"context", "idle"}, Record(p, "ok", "acquired", "acquired", to)
      PROVE  EInv'
  BY <1>1, Roads, RecordEffects
<1>2. CASE Leave(p) /\ UNCHANGED <<chain, ahead, budgetVars, effectVars>>
  BY <1>2, LeaveEffects DEF effectVars, Idem
<1> QED
  BY <1>1, <1>2 DEF Acquired

LEMMA TransientEffects ==
  ASSUME IInv, EInv, NEW p \in Proc, Transient(p)
  PROVE  EInv'
<1> DEFINE n == Failures(proc[p].cur) + 1
<1>1. proc[p].pc = "transient" /\ proc[p] \in Call
  BY DEF Transient, At, IInv, Typed
<1>2. n \in Nat
  BY <1>1, FailuresType DEF Call
<1>3. \/ Publish(p, Event(p, "retry-exhausted", 0, "block"), "idle")
      \/ Publish(p, Event(p, "retry", n, "retry_wait"), "idle")
  BY DEF Transient
<1> HIDE DEF n
<1> QED
  BY <1>1, <1>2, <1>3, AppendEffects DEF Way, Slots, Ops, Targets

-----------------------------------------------------------------------------
(* The actions beside the chain.                                           *)

LEMMA BeginEffects ==
  ASSUME IInv, EInv, NEW p \in Proc, NEW k,
         NEW to \in {"observe", "reserve", "uncertain", "context", "requestStop", "stop", "reconcile"},
         Begin(p, k, to), to = "reserve" => Current = "observing",
         to = "context" => Current = "executing"
  PROVE  EInv'
<1> DEFINE q == [Idle EXCEPT !.pc = to, !.key = k, !.cur = Len(chain)]
<1>1. q.pc = to /\ Become(p, q) /\ UNCHANGED chain /\ Idem
  BY DEF Idle, Begin, effectVars, Idem
<1>2. proc'[p] = q /\ Current' = Current
  BY <1>1 DEF IInv, Typed, Become, Current
<1> HIDE DEF q
<1>3. Placed(p)' /\ Told(p)'
  BY <1>1, <1>2 DEF Placed, Told, Taking, Launching
<1> QED
  BY <1>1, <1>3, QuietStep

LEMMA CallEffects ==
  ASSUME IInv, EInv, NEW p \in Proc,
         \/ \E k \in Key : Step(p, k)
         \/ \E k \in OperatorKey : Stop(p, k) \/ Reconcile(p, k)
  PROVE  EInv'
<1>1. ASSUME NEW k \in Key, Step(p, k) PROVE EInv'
  BY <1>1, BeginEffects DEF Step
<1>2. ASSUME NEW k \in OperatorKey, Stop(p, k) PROVE EInv'
  BY <1>2, BeginEffects DEF Stop
<1>3. ASSUME NEW k \in OperatorKey, Reconcile(p, k) PROVE EInv'
  BY <1>3, BeginEffects DEF Reconcile
<1> QED
  BY <1>1, <1>2, <1>3

\* A call that goes on under its key, on the chain it read.
Moves(p, q) ==
  /\ q.key = proc[p].key /\ q.cur = proc[p].cur /\ Become(p, q)

\* Where a call may go on without an append, beside the two answers.
Passes(from, to) ==
  /\ to \notin {"reserve", "context", "acquire", "dispatch"}
  /\ to = "exhausted" => from \in {"reserve", "reserveDispatch"}
  /\ to = "reserveDispatch" => from = "context"
  /\ to \in Taking => from \in Taking
  /\ to \in Launching => from \in Launching
  /\ to \in {"completeAttempt", "dispatchStarted"} => from \in {"chargeDispatch", "completeAttempt"}

LEMMA PassStep ==
  ASSUME IInv, EInv, NEW p \in Proc, NEW q, Moves(p, q), Passes(proc[p].pc, q.pc),
         q.pc \in Launching => q.did = proc[p].did,
         UNCHANGED chain, Idem,
         q.pc \in {"ok", "transient"} => receipt[q.key] = q.pc,
         q.pc \notin {"chargeAcquisition", "chargeDispatch"}
  PROVE  EInv'
<1>1. proc'[p] = q /\ Tip' = Tip /\ Current' = Current /\ Launched' = Launched
  BY DEF IInv, Typed, Moves, Become, Tip, Last, Current, Launched, Idem
<1>2. Placed(p) /\ Told(p)
  BY DEF EInv
<1>3. Placed(p)'
  BY <1>1, <1>2 DEF Placed, Moves, Passes, AtHead
<1>4. Told(p)'
  BY <1>1, <1>2 DEF Told, Moves, Passes, Idem, Launching
<1> QED
  BY <1>3, <1>4, QuietStep DEF Moves

LEMMA ReserveEffects ==
  ASSUME IInv, EInv, NEW p \in Proc, NEW r, NEW to \in {"beginAcquire", "startAttempt"},
         proc[p].pc \in {"reserve", "reserveDispatch"}, Reserve(p, r, to)
  PROVE  EInv'
<1>1. PICK pc \in {"refused", "exhausted", "beginAcquire", "startAttempt"} : Goto(p, pc)
  BY DEF Reserve
<1>2. UNCHANGED chain /\ Idem
  BY DEF Reserve, effectVars, Idem
<1> DEFINE q == [proc[p] EXCEPT !.pc = pc]
<1>3. Moves(p, q) /\ q.pc = pc
  BY <1>1 DEF IInv, Typed, Call, Moves, Goto
<1> HIDE DEF q
<1> QED
  BY <1>2, <1>3, PassStep DEF Passes, Taking, Launching

LEMMA ChargeEffects ==
  ASSUME IInv, EInv, NEW p \in Proc, NEW r, NEW outcome, NEW to, Charge(p, r, outcome, to),
         Passes(proc[p].pc, to), to \in {"ok", "transient"} => receipt[proc[p].key] = to,
         to \notin {"chargeAcquisition", "chargeDispatch"}
  PROVE  EInv'
<1>1. UNCHANGED chain /\ Idem /\ (Goto(p, to) \/ Leave(p))
  BY DEF Charge, effectVars, Idem
<1>2. CASE Goto(p, to)
  <2> DEFINE q == [proc[p] EXCEPT !.pc = to]
  <2>1. Moves(p, q) /\ q.pc = to /\ q.did = proc[p].did /\ q.key = proc[p].key
    BY <1>2 DEF IInv, Typed, Call, Moves, Goto
  <2> HIDE DEF q
  <2> QED
    BY <1>1, <2>1, PassStep
<1> QED
  BY <1>1, <1>2, LeaveEffects

LEMMA ChargesEffects ==
  ASSUME IInv, EInv, NEW p \in Proc, ChargeAcquisition(p) \/ ChargeDispatch(p)
  PROVE  EInv'
<1>1. CASE ChargeAcquisition(p)
  <2>1. /\ proc[p].pc = "chargeAcquisition" /\ proc[p].res \in Answers
        /\ proc[p].res \in {"ok", "transient"} => receipt[proc[p].key] = proc[p].res
    BY <1>1 DEF ChargeAcquisition, At, IInv, EInv, Knows, Ready, Told
  <2>2. PICK outcome : Charge(p, <<proc[p].key, "acquisition">>, outcome, proc[p].res)
    BY <1>1 DEF ChargeAcquisition
  <2>3. Passes(proc[p].pc, proc[p].res)
    BY <2>1 DEF Passes, Answers, Taking, Launching
  <2> QED
    BY <2>1, <2>2, <2>3, ChargeEffects DEF Answers
<1>2. CASE ChargeDispatch(p)
  <2>1. PICK outcome : Charge(p, <<proc[p].key, "dispatch">>, outcome, "completeAttempt")
    BY <1>2 DEF ChargeDispatch
  <2>2. Passes(proc[p].pc, "completeAttempt")
    BY <1>2 DEF ChargeDispatch, At, Passes, Taking, Launching
  <2> QED
    BY <2>1, <2>2, ChargeEffects
<1> QED
  BY <1>1, <1>2

LEMMA AttemptEffects ==
  ASSUME IInv, EInv, NEW p \in Proc,
         StartAttempt(p) \/ CloseAttempt(p) \/ CompleteAttempt(p)
  PROVE  EInv'
<1>1. UNCHANGED chain /\ Idem
  BY DEF StartAttempt, CloseAttempt, CompleteAttempt, EndAttempt, Idem
<1>2. \/ Leave(p)
      \/ \E to \in {"beginDispatch", "closeAttempt", "attemptClosed", "dispatchStarted",
                    "dispatchObserved"} :
           /\ Become(p, [proc[p] EXCEPT !.pc = to])
           /\ to \in {"dispatchStarted", "dispatchObserved"} => proc[p].pc = "completeAttempt"
  BY DEF StartAttempt, CloseAttempt, CompleteAttempt, EndAttempt, At, Goto
<1>3. ASSUME NEW to \in {"beginDispatch", "closeAttempt", "attemptClosed", "dispatchStarted",
                         "dispatchObserved"},
             Become(p, [proc[p] EXCEPT !.pc = to]),
             to \in {"dispatchStarted", "dispatchObserved"} => proc[p].pc = "completeAttempt"
      PROVE  EInv'
  <2> DEFINE q == [proc[p] EXCEPT !.pc = to]
  <2>1. Moves(p, q) /\ q.pc = to /\ q.did = proc[p].did
    BY <1>3 DEF IInv, Typed, Call, Moves
  <2> HIDE DEF q
  <2>2. Passes(proc[p].pc, to)
    BY <1>3 DEF Passes, Taking, Launching
  <2> QED
    BY <1>1, <2>1, <2>2, PassStep
<1> QED
  BY <1>1, <1>2, <1>3, LeaveEffects

LEMMA AuthorityEffects ==
  ASSUME IInv, EInv, NEW p \in Proc, ReadAuthority(p)
  PROVE  EInv'
<1>1. UNCHANGED chain /\ Idem /\ proc[p].pc = "context"
  BY DEF ReadAuthority, At, effectVars, Idem
<1>2. ASSUME NEW d, Become(p, [proc[p] EXCEPT !.pc = "reserveDispatch", !.res = Tip.op, !.did = d])
      PROVE  EInv'
  <2> DEFINE q == [proc[p] EXCEPT !.pc = "reserveDispatch", !.res = Tip.op, !.did = d]
  <2>1. Moves(p, q) /\ q.pc = "reserveDispatch"
    BY <1>2 DEF IInv, Typed, Call, Moves
  <2> HIDE DEF q
  <2> QED
    BY <1>1, <2>1, PassStep DEF Passes, Taking, Launching
<1> QED
  BY <1>1, <1>2, LeaveEffects DEF ReadAuthority

-----------------------------------------------------------------------------
(* The two calls that act outside the run's store.                         *)

\* Answers are final and nothing is forgotten.
Final ==
  /\ \A k \in Key : receipt[k] # "none" => receipt'[k] = receipt[k]
  /\ Launched \subseteq Launched'

LEMMA OthersOutside ==
  ASSUME IInv, EInv, NEW p \in Proc, NEW q, Become(p, q), UNCHANGED chain, Final,
         NEW r \in Proc \ {p}
  PROVE  Placed(r)' /\ Told(r)'
<1>1. /\ proc'[r] = proc[r] /\ Placed(r) /\ Told(r)
      /\ proc[r].pc \notin Outside => proc[r].key \in Key
  BY DEF IInv, EInv, Typed, Become, Knows
<1>2. Tip' = Tip /\ Current' = Current
  BY DEF Tip, Last, Current
<1>3. Placed(r)'
  BY <1>1, <1>2 DEF Placed, AtHead
<1>4. Told(r)'
  BY <1>1, <1>2 DEF Told, Final, Outside, Announces, Dispatches, AtHead
<1> QED
  BY <1>3, <1>4

\* The task is claimed at the announcement.
LEMMA AcquireEffects ==
  ASSUME IInv, EInv, NEW p \in Proc, AcquireNext(p)
  PROVE  EInv'
<1>1. PICK k \in Key : k = proc[p].key
  BY DEF AcquireNext, At, IInv, Typed, Knows, Outside
<1>2. /\ proc[p].pc = "acquire" /\ proc[p] \in Call /\ UNCHANGED <<chain, launch>>
      /\ receipt \in [Key -> {"none", "ok", "transient", "failed"}] /\ claims \subseteq Key
      /\ Placed(p) /\ Told(p) /\ Effects
  BY DEF AcquireNext, At, IInv, EInv, Typed
<1>3. /\ \/ receipt[k] = "none" /\ \E res \in {"ok", "transient", "failed"} :
              receipt' = [receipt EXCEPT ![k] = res] /\ claims' \in {claims, claims \cup {k}}
              /\ (claims' # claims => res \in {"ok", "failed"})
         \/ UNCHANGED <<receipt, claims>>
      /\ \/ \E res : Become(p, [proc[p] EXCEPT !.pc = "chargeAcquisition", !.res = res])
                     /\ (res \in {"ok", "transient"} => receipt'[k] = res)
         \/ Goto(p, "acquireUnknown") \/ Leave(p)
  <2> DEFINE Answer(res) == Become(p, [proc[p] EXCEPT !.pc = "chargeAcquisition", !.res = res])
  <2>1. \/ /\ receipt[k] = "none"
           /\ \E res \in {"ok", "transient", "failed"} :
                /\ receipt' = [receipt EXCEPT ![k] = res]
                /\ claims' = IF res = "ok" THEN claims \cup {k} ELSE claims
                /\ Answer(res)
        \/ Answer("no_offer") /\ UNCHANGED <<receipt, claims>>
        \/ /\ receipt[k] = "none" /\ receipt' = [receipt EXCEPT ![k] = "failed"]
           /\ claims' \in {claims, claims \cup {k}}
           /\ Goto(p, "acquireUnknown") \/ Leave(p)
        \/ Answer(receipt[k]) /\ UNCHANGED <<receipt, claims>>
    BY <1>1 DEF AcquireNext
  <2> HIDE DEF Answer
  <2>2. \A res : receipt' = [receipt EXCEPT ![k] = res] => receipt'[k] = res
    BY <1>2
  <2>3. ASSUME NEW res \in {"ok", "transient", "failed"}, receipt[k] = "none",
               receipt' = [receipt EXCEPT ![k] = res],
               claims' = IF res = "ok" THEN claims \cup {k} ELSE claims, Answer(res)
        PROVE  /\ claims' \in {claims, claims \cup {k}} /\ (claims' # claims => res \in {"ok", "failed"})
               /\ (res \in {"ok", "transient"} => receipt'[k] = res)
    BY <2>2, <2>3
  <2>4. \A res : Answer(res) = Become(p, [proc[p] EXCEPT !.pc = "chargeAcquisition", !.res = res])
    BY DEF Answer
  <2>5. CASE \E res \in {"ok", "transient", "failed"} :
               /\ receipt[k] = "none" /\ receipt' = [receipt EXCEPT ![k] = res]
               /\ claims' = IF res = "ok" THEN claims \cup {k} ELSE claims
               /\ Answer(res)
    BY <2>3, <2>4, <2>5
  <2>6. CASE Answer("no_offer") /\ UNCHANGED <<receipt, claims>>
    <3>1. "no_offer" \notin {"ok", "transient"}
      OBVIOUS
    <3>2. /\ Become(p, [proc[p] EXCEPT !.pc = "chargeAcquisition", !.res = "no_offer"])
          /\ "no_offer" \in {"ok", "transient"} => receipt'[k] = "no_offer"
      BY <2>4, <2>6, <3>1
    <3> QED
      BY <2>6, <3>2
  <2>7. CASE /\ receipt[k] = "none" /\ receipt' = [receipt EXCEPT ![k] = "failed"]
             /\ claims' \in {claims, claims \cup {k}}
             /\ Goto(p, "acquireUnknown") \/ Leave(p)
    BY <2>7
  <2>8. CASE Answer(receipt[k]) /\ UNCHANGED <<receipt, claims>>
    BY <2>4, <2>8
  <2> QED
    BY <2>1, <2>5, <2>6, <2>7, <2>8
<1>4. /\ Final /\ Launched' = Launched /\ Tip' = Tip /\ Current' = Current
      /\ receipt[k] = "none" => Announces(k)
  BY <1>1, <1>2, <1>3 DEF Final, Launched, Tip, Last, Current, Told
<1>5. /\ \A l : /\ Closed(l)' = Closed(l) /\ Acknowledged(l)' = Acknowledged(l)
                /\ Announces(l)' = Announces(l) /\ Occupies(l)' = Occupies(l)
                /\ Started(l)' = Started(l) /\ Dispatches(l)' = Dispatches(l)
      /\ StopIsFinal'
  BY <1>2, <1>4 DEF Closed, Acknowledged, Announces, Occupies, Started, Dispatches, AtHead, Events,
                    StopIsFinal, Effects
<1>6. k \in claims' \ claims => Announces(k) /\ Occupies(k) /\ receipt'[k] \in {"ok", "failed"}
  <2> SUFFICES ASSUME k \in claims' \ claims
               PROVE  Announces(k) /\ Occupies(k) /\ receipt'[k] \in {"ok", "failed"}
    OBVIOUS
  <2>1. Announces(k) /\ receipt'[k] \in {"ok", "failed"}
    BY <1>2, <1>3, <1>4
  <2>2. chain \in Seq(Evt)
    BY DEF IInv, History, Folded
  <2> QED
    BY <2>1, <2>2, AnnouncesAt, AnnouncesOne DEF Occupies
<1>7. Claimed'
  <2> SUFFICES ASSUME NEW l \in claims'
               PROVE  receipt'[l] \in {"ok", "failed"} /\ (Acknowledged(l) \/ Announces(l)) /\ Occupies(l)
    BY <1>5 DEF Claimed
  <2>1. CASE l \in claims
    BY <1>2, <1>4, <2>1 DEF Effects, Claimed, Final
  <2>2. CASE l = k /\ l \notin claims
    BY <1>6, <2>2
  <2> QED
    BY <1>3, <2>1, <2>2
<1>8. OneOpen'
  <2>1. \A l \in claims : l = k \/ Closed(l) \/ k \notin claims' \ claims
    BY <1>1, <1>2, <1>6 DEF Effects, Claimed, Occupies
  <2>2. \A l \in claims' : l \in claims \/ l = k
    BY <1>3
  <2> QED
    BY <1>2, <1>5, <2>1, <2>2 DEF Effects, OneOpen
<1>9. Ran'
  BY <1>2, <1>4, <1>5 DEF Effects, Ran
<1>10. Placed(p)' /\ Told(p)'
  <2>1. CASE Leave(p)
    BY <2>1, LeaveKnows DEF IInv, Typed
  <2>2. ASSUME NEW pc \in {"chargeAcquisition", "acquireUnknown"}, NEW q, Become(p, q),
               q.pc = pc, q.cur = proc[p].cur, q.key = k,
               q.pc = "chargeAcquisition" /\ q.res \in {"ok", "transient"} => receipt'[k] = q.res
        PROVE  Placed(p)' /\ Told(p)'
    <3>1. proc'[p] = q
      BY <2>2 DEF IInv, Typed, Become
    <3> QED
      BY <1>1, <1>2, <1>4, <2>2, <3>1 DEF Placed, Told, Taking, Launching, AtHead
  <2>3. ASSUME NEW res, res \in {"ok", "transient"} => receipt'[k] = res,
               Become(p, [proc[p] EXCEPT !.pc = "chargeAcquisition", !.res = res])
        PROVE  Placed(p)' /\ Told(p)'
    <3> DEFINE q == [proc[p] EXCEPT !.pc = "chargeAcquisition", !.res = res]
    <3>1. Become(p, q) /\ q.pc = "chargeAcquisition" /\ q.cur = proc[p].cur /\ q.key = k /\ q.res = res
      BY <1>1, <1>2, <2>3 DEF Call
    <3> HIDE DEF q
    <3> QED
      BY <2>2, <2>3, <3>1
  <2>4. CASE Goto(p, "acquireUnknown")
    <3> DEFINE q == [proc[p] EXCEPT !.pc = "acquireUnknown"]
    <3>1. Become(p, q) /\ q.pc = "acquireUnknown" /\ q.cur = proc[p].cur /\ q.key = k
      BY <1>1, <1>2, <2>4 DEF Call, Goto
    <3> HIDE DEF q
    <3> QED
      BY <2>2, <3>1
  <2> QED
    BY <1>3, <2>1, <2>3, <2>4
<1>11. \A r \in Proc \ {p} : Placed(r)' /\ Told(r)'
  BY <1>2, <1>3, <1>4, OthersOutside DEF Goto, Leave
<1> QED
  BY <1>5, <1>7, <1>8, <1>9, <1>10, <1>11 DEF EInv, Effects

\* The run is launched at the event of its dispatch.
LEMMA LaunchEffects ==
  ASSUME IInv, EInv, NEW p \in Proc, Launch(p)
  PROVE  EInv'
<1>1. PICK d \in Dispatch : d = proc[p].did
  BY DEF Launch, At, IInv, Knows, Ready
<1>2. /\ proc[p].pc = "dispatch" /\ proc[p] \in Call /\ UNCHANGED <<chain, receipt, claims>>
      /\ launch \in [Dispatch -> {"intent"} \cup Ends]
      /\ Placed(p) /\ Told(p) /\ Effects
  BY DEF Launch, At, IInv, EInv, Typed
<1>3. /\ \/ launch[d] = "intent" /\ \E end \in Ends : launch' = [launch EXCEPT ![d] = end]
         \/ launch' = launch
      /\ \/ \E res : Become(p, [proc[p] EXCEPT !.pc = "chargeDispatch", !.res = res])
                     /\ launch'[d] # "intent"
         \/ Goto(p, "dispatchUnknown") \/ Leave(p)
  BY <1>1, <1>2 DEF Launch, Ends
<1>4. /\ Final /\ Launched' \subseteq Launched \cup {d} /\ Tip' = Tip /\ Current' = Current
      /\ launch'[d] # "intent" => d \in Launched'
      /\ d \notin Launched => Dispatches(d)
  BY <1>1, <1>2, <1>3 DEF Final, Launched, Tip, Last, Current, Told, Ends
<1>5. /\ \A l : /\ Closed(l)' = Closed(l) /\ Acknowledged(l)' = Acknowledged(l)
                /\ Announces(l)' = Announces(l) /\ Occupies(l)' = Occupies(l)
                /\ Started(l)' = Started(l) /\ Dispatches(l)' = Dispatches(l)
      /\ StopIsFinal'
  BY <1>2, <1>4 DEF Closed, Acknowledged, Announces, Occupies, Started, Dispatches, AtHead, Events,
                    StopIsFinal, Effects
<1>6. Claimed' /\ OneOpen'
  BY <1>2, <1>5 DEF Effects, Claimed, OneOpen
<1>7. Ran'
  BY <1>2, <1>4, <1>5 DEF Effects, Ran
<1>8. Placed(p)' /\ Told(p)'
  <2>1. CASE Leave(p)
    BY <2>1, LeaveKnows DEF IInv, Typed
  <2>2. ASSUME NEW pc \in {"chargeDispatch", "dispatchUnknown"}, NEW q, Become(p, q),
               q.pc = pc, q.cur = proc[p].cur, q.did = d,
               q.pc = "chargeDispatch" => launch'[d] # "intent"
        PROVE  Placed(p)' /\ Told(p)'
    <3>1. proc'[p] = q
      BY <2>2 DEF IInv, Typed, Become
    <3> QED
      BY <1>1, <1>2, <1>4, <2>2, <3>1 DEF Placed, Told, Taking, Launching, AtHead
  <2>3. ASSUME NEW res, launch'[d] # "intent",
               Become(p, [proc[p] EXCEPT !.pc = "chargeDispatch", !.res = res])
        PROVE  Placed(p)' /\ Told(p)'
    <3> DEFINE q == [proc[p] EXCEPT !.pc = "chargeDispatch", !.res = res]
    <3>1. Become(p, q) /\ q.pc = "chargeDispatch" /\ q.cur = proc[p].cur /\ q.did = d
      BY <1>1, <1>2, <2>3 DEF Call
    <3> HIDE DEF q
    <3> QED
      BY <2>2, <2>3, <3>1
  <2>4. CASE Goto(p, "dispatchUnknown")
    <3> DEFINE q == [proc[p] EXCEPT !.pc = "dispatchUnknown"]
    <3>1. Become(p, q) /\ q.pc = "dispatchUnknown" /\ q.cur = proc[p].cur /\ q.did = d
      BY <1>1, <1>2, <2>4 DEF Call, Goto
    <3> HIDE DEF q
    <3> QED
      BY <2>2, <3>1
  <2> QED
    BY <1>3, <2>1, <2>3, <2>4
<1>9. \A r \in Proc \ {p} : Placed(r)' /\ Told(r)'
  BY <1>2, <1>3, <1>4, OthersOutside DEF Goto, Leave
<1> QED
  BY <1>5, <1>6, <1>7, <1>8, <1>9 DEF EInv, Effects

-----------------------------------------------------------------------------
(* The theorems.                                                           *)

LEMMA NextEffects ==
  ASSUME IInv, EInv, [Next]_vars PROVE EInv'
<1>1. ASSUME NEW p \in Proc, Continue(p) PROVE EInv'
  <2>1. CASE ReserveAcquisition(p) \/ ReserveDispatch(p)
    BY <2>1, ReserveEffects DEF ReserveAcquisition, ReserveDispatch, At
  <2> QED
    BY <1>1, <2>1, RecordsEffects, AcquiredEffects, TransientEffects, AcquireEffects,
       ChargesEffects, AttemptEffects, AuthorityEffects, LaunchEffects DEF Continue
<1>2. ASSUME NEW p \in Proc, Die(p) PROVE EInv'
  BY <1>2, LeaveEffects DEF Die, effectVars, Idem
<1>3. CASE UNCHANGED vars
  <2>1. UNCHANGED <<chain, proc>> /\ Idem /\ Tip' = Tip /\ Current' = Current /\ Launched' = Launched
    BY <1>3 DEF vars, effectVars, Idem, Tip, Last, Current, Launched
  <2>2. Effects'
    BY <2>1, Unmoved DEF EInv
  <2>3. \A p \in Proc : Placed(p)' /\ Told(p)'
    BY <2>1 DEF EInv, Placed, Told, AtHead, Announces, Dispatches, Idem
  <2> QED
    BY <2>2, <2>3 DEF EInv
<1> QED
  BY <1>1, <1>2, <1>3, CallEffects DEF Next

LEMMA EffectsInvariance == Spec => [](IInv /\ EInv)
<1>1. Init => EInv
  <2> SUFFICES ASSUME Init PROVE EInv
    OBVIOUS
  <2>1. \A p \in Proc : Placed(p) /\ Told(p)
    BY DEF Init, Idle, Placed, Told, Taking, Launching
  <2>2. Effects
    BY DEF Init, Effects, Claimed, OneOpen, Ran, Launched, StopIsFinal, Events
  <2> QED
    BY <2>1, <2>2 DEF EInv
<1>2. IInv /\ EInv /\ [Next]_vars => EInv'
  BY NextEffects
<1> QED
  BY <1>1, <1>2, Invariance, PTL DEF Spec

\* A task that acquire-next took and a run that was launched are in the history,
\* or the run goes no further (stepAutomationController, recoverOrObserve).
THEOREM EffectsRecorded == Spec => []EffectsAreRecorded
<1>1. IInv /\ EInv => EffectsAreRecorded
  <2> SUFFICES ASSUME IInv, EInv PROVE EffectsAreRecorded
    OBVIOUS
  <2>0. chain \in Seq(Evt)
    BY DEF IInv, History, Folded
  <2>1. ASSUME NEW k \in claims
        PROVE  \/ \E i \in Events("acquired") : chain[i].key = k
               \/ Current \in {"acquiring", "reconciliation_required"}
    BY <2>0, AnnouncesAt DEF EInv, Effects, Claimed, Acknowledged
  <2>2. ASSUME NEW d \in Launched
        PROVE  \/ \E i \in Events("dispatch_started") : chain[i].did = d
               \/ Current \in {"executing", "budget_exhausted", "stopping", "stopped",
                               "reconciliation_required"}
    <3>1. AtHead("begin_dispatch") => Current = "executing"
      BY <2>0, HeadIs DEF StateAfter
    <3> QED
      BY <3>1 DEF EInv, Effects, Ran, Started, Dispatches, Over
  <2> QED
    BY <2>1, <2>2 DEF EffectsAreRecorded
<1> QED
  BY <1>1, EffectsInvariance, PTL

\* Of two tasks that were claimed, one has an outcome in the history: the loop
\* acquires only when the work on the task before is over.
THEOREM ClaimsAreSerial == Spec => []OneClaimAtATime
<1>1. EInv => OneClaimAtATime
  <2> SUFFICES ASSUME EInv, NEW k \in claims, NEW l \in claims, k # l
               PROVE  \E i \in Events("outcome_observed") :
                        \E j \in Events("acquired") : j < i /\ chain[j].key \in {k, l}
    BY DEF OneClaimAtATime
  <2> QED
    BY DEF EInv, Effects, OneOpen, Closed
<1> QED
  BY <1>1, EffectsInvariance, PTL

\* A task is claimed only at its announcement and never behind a stop request.
THEOREM AcquiresAnnounced == Spec => AcquiresWhenAnnounced
<1>1. ASSUME IInv, EInv, [Next]_vars, claims' # claims
      PROVE  /\ Current \in {"acquiring", "reconciliation_required"}
             /\ Events("begin_acquire") # {}
             /\ Events("request_stop") = {}
  <2>1. PICK p \in Proc : AcquireNext(p)
    <3>1. ~(UNCHANGED vars)
      BY <1>1 DEF vars, effectVars
    <3>0. Next
      BY <1>1, <3>1
    <3>2. PICK p \in Proc :
            \/ \E k \in Key : Step(p, k)
            \/ \E k \in OperatorKey : Stop(p, k) \/ Reconcile(p, k)
            \/ Continue(p)
            \/ Die(p)
      BY <3>0 DEF Next
    <3>3. /\ \A e, to : ~Publish(p, e, to)
          /\ \A k, to : ~Begin(p, k, to)
          /\ \A r, to : ~Reserve(p, r, to)
          /\ \A r, outcome, to : ~Charge(p, r, outcome, to)
          /\ \A outcome, q : ~EndAttempt(p, outcome, q)
          /\ ~StartAttempt(p) /\ ~ReadAuthority(p) /\ ~Launch(p) /\ ~Die(p)
      BY <1>1 DEF Publish, Begin, Reserve, Charge, EndAttempt, StartAttempt, ReadAuthority,
                  Launch, Die, effectVars
    <3>4. /\ \A from, slot, op, to : ~Record(p, from, slot, op, to)
          /\ ~RequestStop(p) /\ ~StopRun(p) /\ ~Transient(p)
      BY <3>3 DEF Record, RequestStop, StopRun, Transient
    <3>5. ~Acquired(p)
      BY <1>1, <3>4 DEF Acquired, effectVars
    <3>6. Continue(p)
      BY <3>2, <3>3 DEF Step, Stop, Reconcile
    <3> QED
      BY <3>3, <3>4, <3>5, <3>6 DEF Continue, RequireOperator, Observe, Uncertain, Refused,
           Exhausted, ReserveAcquisition, BeginAcquire, AcquireUnknown, ChargeAcquisition,
           NoOffer, AcquireFailed, ReserveDispatch, CloseAttempt, AttemptReconciliation,
           BeginDispatch, DispatchUnknown, ChargeDispatch, CompleteAttempt, DispatchStarted,
           OutcomeObserved, DispatchObserved
  <2>2. receipt[proc[p].key] = "none" /\ proc[p].pc = "acquire"
    BY <1>1, <2>1 DEF AcquireNext, At
  <2>3. Announces(proc[p].key)
    BY <1>1, <2>2 DEF EInv, Told
  <2>4. chain \in Seq(Evt) /\ Len(chain) \in Nat /\ DOMAIN chain = 1..Len(chain)
    BY <1>1 DEF IInv, History, Folded
  <2>5. PICK m \in DOMAIN chain :
          /\ chain[m].op = "begin_acquire"
          /\ m = Len(chain) \/ (m = Len(chain) - 1 /\ chain[Len(chain)].op = "require_reconciliation")
    BY <2>3, <2>4, TipIs DEF Announces, AtHead
  <2>6. Events("request_stop") = {}
    <3> SUFFICES ASSUME NEW i \in Events("request_stop") PROVE FALSE
      OBVIOUS
    <3>1. i \in 1..Len(chain) /\ chain[i].op = "request_stop"
      BY <2>4 DEF Events
    <3>2. ~(i < m)
      BY <1>1, <2>5 DEF EInv, Effects, StopIsFinal
    <3> QED
      BY <2>4, <2>5, <3>1, <3>2
  <2> QED
    BY <2>3, <2>4, <2>5, <2>6, AnnouncesAt DEF Events
<1> QED
  BY <1>1, EffectsInvariance, PTL DEF Spec, AcquiresWhenAnnounced
=============================================================================
