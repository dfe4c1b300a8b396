-------------------------- MODULE ControllerProofs --------------------------
(***************************************************************************)
(* What Controller guarantees for any number of processes, keys and        *)
(* delegated runs, and every death of a process.                           *)
(*                                                                         *)
(* The argument.  The lock makes an append a compare and swap on the chain *)
(* and an event that was never folded blocks every other (History).  What  *)
(* a call read without the lock need not hold any more when it appends;    *)
(* but then the chain has grown and the append fails.  So a call need only *)
(* know what follows as long as the chain is as long as the one it read    *)
(* (Knows): a dispatch is begun directly behind the acquisition of its     *)
(* claim, each claim is acquired by one event, and a claim is therefore    *)
(* dispatched under one id.                                                *)
(***************************************************************************)
EXTENDS Controller, FiniteSetTheorems, TLAPS

Caller == Key \cup OperatorKey
Slots == {"observe", "uncertain", "budget-refusal", "begin-acquire", "acquire-unknown",
          "acquired", "no-offer", "acquire-failed", "retry", "retry-exhausted",
          "attempt-reconciliation", "begin-dispatch", "dispatch-unknown",
          "dispatch-started", "outcome", "dispatch-observed", "request", "stopped",
          "reconcile"}
Ops == {"observe", "outcome_observed", "retry_wait", "begin_acquire", "acquired",
        "begin_dispatch", "dispatch_started", "no_offer", "complete", "block",
        "exhaust_budget", "request_stop", "stop", "require_reconciliation"}
Evt == [rev : Nat, key : Caller, slot : Slots, n : Nat, op : Ops,
        did : Dispatch \cup {Nothing}]
Answers == {"ok", "transient", "failed", "no_offer"}
Ends == {"completed", "failed", "unknown"}
Charges == {"none", "progress", "no_progress", "provider_failure"}

\* Calls of a step work under a key of its callers.
Outside == {"idle", "requestStop", "stop", "reconcile"}

Call == [pc : PC, key : Caller \cup {Nothing}, did : Dispatch \cup {Nothing},
         cur : Nat, res : Answers \cup Ends \cup {"acquired", "begin_dispatch", Nothing}]

Typed ==
  /\ proc \in [Proc -> Call]
  /\ budget \in {"active", "stopped"}
  /\ held \in Reservation \cup {Nothing}
  /\ usage \in [Reservation -> Charges]
  /\ receipt \in [Key -> {"none", "ok", "transient", "failed"}]
  /\ claims \subseteq Key
  /\ launch \in [Dispatch -> {"intent"} \cup Ends]

\* A dispatch under this key was reserved, and is charged or still open.
Covered(k) == held = <<k, "dispatch">> \/ usage[<<k, "dispatch">>] # "none"

\* What every event is, wherever it is stored.
Sound(e) ==
  /\ e.op = "acquired" => e.slot = "acquired" /\ e.n = 0 /\ e.key \in Key
  /\ e.op = "begin_dispatch" => e.key \in Key /\ Covered(e.key)

\* An event f directly after an event t.
Behind(t, f) ==
  f.op = "begin_dispatch" => t.op = "acquired" /\ t.key = f.did[1]

SameName(e, f) == e.slot = f.slot /\ e.key = f.key /\ e.n = f.n

Before(i) == IF i = 1 THEN "created" ELSE StateAfter[chain[i - 1].op]

Fits(e) ==
  /\ e.rev = Len(chain) + 1
  /\ Admits(Current, e.op)
  /\ Sound(e)
  /\ e.op = "begin_dispatch" => chain # <<>> /\ Behind(Tip, e)

Folded ==
  /\ chain \in Seq(Evt)
  /\ \A i \in DOMAIN chain :
       /\ chain[i].rev = i
       /\ Admits(Before(i), chain[i].op)
       /\ Sound(chain[i])
       /\ chain[i].op = "begin_dispatch" => i > 1 /\ Behind(chain[i - 1], chain[i])
  /\ \A i, j \in DOMAIN chain :
       chain[i].op = "acquired" /\ chain[j].op = "acquired" /\ chain[i].key = chain[j].key
         => i = j

Unfolded ==
  /\ ahead \subseteq [event : Evt, named : BOOLEAN]
  /\ \A a \in ahead : Fits(a.event) /\ \A i \in DOMAIN chain : ~SameName(chain[i], a.event)
  /\ \A a, b \in ahead : a = b

History == Folded /\ Unfolded

\* What a call c knows of the chain, where it acts on it later.
Ready(c) ==
  /\ c.pc = "chargeAcquisition" => c.res \in Answers
  /\ c.pc \in {"chargeDispatch", "completeAttempt"} => c.res \in Ends
  /\ c.pc \in {"reserveDispatch", "startAttempt", "beginDispatch", "dispatch"} => c.did \in Dispatch
  /\ /\ c.pc \in {"reserveDispatch", "startAttempt", "beginDispatch"}
     /\ c.res = "acquired" /\ c.cur = Len(chain)
     => chain # <<>> /\ Tip.op = "acquired" /\ Tip.key = c.did[1]
  /\ c.pc = "beginDispatch" => c.res = "acquired"
  /\ c.pc = "dispatch" => \E i \in Events("begin_dispatch") : chain[i].did = c.did

Knows(p) ==
  LET c == proc[p] IN
  /\ c.cur <= Len(chain)
  /\ c.pc # "idle" => c.key \in Caller
  /\ c.pc \notin Outside => c.key \in Key
  /\ Ready(c)
  /\ c.pc \in {"startAttempt", "beginDispatch"} => Covered(c.key)

Begun == \A d \in Launched : \E i \in Events("begin_dispatch") : chain[i].did = d

IInv ==
  /\ Typed
  /\ History
  /\ \A p \in Proc : Knows(p)
  /\ Begun

-----------------------------------------------------------------------------
(* The chain.                                                              *)

LEMMA FailuresType ==
  ASSUME NEW n \in Nat PROVE Failures(n) \in Nat
<1>1. IsFiniteSet(1..n)
  BY FS_Interval
<1> QED
  BY <1>1, FS_Subset, FS_CardinalityType DEF Failures

LEMMA TipIs ==
  ASSUME chain \in Seq(Evt), chain # <<>>
  PROVE  /\ Tip = chain[Len(chain)] /\ Len(chain) \in DOMAIN chain /\ Len(chain) >= 1
         /\ Tip \in Evt /\ Current = StateAfter[Tip.op]
  BY DEF Tip, Last, Current

\* The claim of the head, where a dispatch may be begun.
LEMMA ContextIs ==
  ASSUME Folded, chain # <<>>, Tip.op \in {"acquired", "begin_dispatch"}
  PROVE  Context \in Key /\ (Tip.op = "acquired" => Context = Tip.key)
<1> DEFINE taken == {i \in DOMAIN chain : chain[i].op = "acquired"}
<1>0. chain \in Seq(Evt) /\ DOMAIN chain = 1..Len(chain) /\ Len(chain) \in Nat
  BY DEF Folded
<1>1. PICK m \in taken : /\ \A j \in taken : j <= m
                         /\ Tip.op = "acquired" => m = Len(chain)
  <2>1. CASE Tip.op = "acquired"
    <3>1. Len(chain) \in taken /\ \A j \in taken : j <= Len(chain)
      BY <1>0, <2>1, TipIs
    <3> QED
      BY <3>1
  <2>2. CASE Tip.op = "begin_dispatch"
    <3>1. Len(chain) > 1 /\ chain[Len(chain) - 1].op = "acquired"
      BY <1>0, <2>2, TipIs DEF Folded, Behind
    <3>2. Len(chain) - 1 \in taken /\ Len(chain) \notin taken
      BY <1>0, <2>2, <3>1, TipIs
    <3>3. \A j \in taken : j <= Len(chain) - 1
      BY <1>0, <3>2
    <3> QED
      BY <2>2, <3>2, <3>3
  <2> QED
    BY <2>1, <2>2
<1>2. (CHOOSE i \in taken : \A j \in taken : j <= i) = m
  <2> DEFINE c == CHOOSE i \in taken : \A j \in taken : j <= i
  <2>1. c \in taken /\ \A j \in taken : j <= c
    BY <1>1
  <2>2. c <= m /\ m <= c /\ c \in Nat /\ m \in Nat
    BY <1>0, <1>1, <2>1
  <2> QED
    BY <2>2
<1>3. Context = chain[m].key
  BY <1>1, <1>2 DEF Context
<1> QED
  BY <1>0, <1>1, <1>3, TipIs DEF Folded, Sound

\* Folding an event that fits keeps the history.
LEMMA Appended ==
  ASSUME Folded, NEW f \in Evt, Fits(f), chain' = Append(chain, f),
         UNCHANGED <<held, usage>>,
         \A i \in DOMAIN chain : ~SameName(chain[i], f)
  PROVE  /\ Folded'
         /\ Len(chain') = Len(chain) + 1
         /\ \A i \in DOMAIN chain : i \in DOMAIN chain' /\ chain'[i] = chain[i]
         /\ Len(chain') \in DOMAIN chain' /\ chain'[Len(chain')] = f
<1>0. /\ chain \in Seq(Evt) /\ DOMAIN chain = 1..Len(chain) /\ Len(chain) \in Nat
  BY DEF Folded
<1>1. /\ chain' \in Seq(Evt) /\ Len(chain') = Len(chain) + 1 /\ DOMAIN chain' = 1..Len(chain')
      /\ \A i \in DOMAIN chain : i \in DOMAIN chain' /\ chain'[i] = chain[i]
      /\ chain'[Len(chain) + 1] = f
  BY <1>0
<1>2. \A i \in DOMAIN chain' :
       /\ chain'[i].rev = i
       /\ Admits(Before(i), chain[i].op)'
       /\ Sound(chain[i])'
       /\ chain'[i].op = "begin_dispatch" => i > 1 /\ Behind(chain'[i - 1], chain'[i])
  <2> SUFFICES ASSUME NEW i \in DOMAIN chain'
               PROVE  /\ chain'[i].rev = i
                      /\ Admits(Before(i), chain[i].op)'
                      /\ Sound(chain[i])'
                      /\ chain'[i].op = "begin_dispatch" => i > 1 /\ Behind(chain'[i - 1], chain'[i])
    OBVIOUS
  <2>1. CASE i \in DOMAIN chain
    <3>1. chain'[i] = chain[i] /\ (i > 1 => chain'[i - 1] = chain[i - 1])
      BY <1>0, <1>1, <2>1
    <3>2. Before(i)' = Before(i)
      BY <1>0, <2>1, <3>1 DEF Before
    <3>3. Admits(Before(i), chain[i].op)'
      BY <2>1, <3>1, <3>2 DEF Folded, Admits, Allowed
    <3>4. Sound(chain[i])'
      BY <2>1, <3>1 DEF Folded, Sound, Covered
    <3> QED
      BY <2>1, <3>1, <3>3, <3>4 DEF Folded
  <2>2. CASE i = Len(chain) + 1
    <3>1. chain'[i] = f
      BY <1>1, <2>2
    <3>2. Before(i)' = Current
      <4>1. CASE chain = <<>>
        BY <1>0, <2>2, <4>1 DEF Before, Current
      <4>2. CASE chain # <<>>
        BY <1>0, <1>1, <2>2, <4>2, TipIs DEF Before
      <4> QED
        BY <4>1, <4>2
    <3>3. Admits(Before(i), chain[i].op)'
      BY <3>1, <3>2 DEF Fits, Admits, Allowed
    <3>4. Sound(chain[i])'
      BY <3>1 DEF Fits, Sound, Covered
    <3>5. f.op = "begin_dispatch" => i > 1 /\ Behind(chain'[i - 1], f)
      <4> SUFFICES ASSUME f.op = "begin_dispatch" PROVE i > 1 /\ Behind(chain'[i - 1], f)
        OBVIOUS
      <4>1. chain # <<>> /\ Behind(Tip, f)
        BY DEF Fits
      <4>2. i > 1 /\ chain'[i - 1] = Tip
        BY <1>0, <1>1, <2>2, <4>1, TipIs
      <4> QED
        BY <4>1, <4>2
    <3> QED
      BY <2>2, <3>1, <3>3, <3>4, <3>5 DEF Fits
  <2> QED
    BY <1>0, <1>1, <2>1, <2>2
<1>3. \A i, j \in DOMAIN chain' :
       chain'[i].op = "acquired" /\ chain'[j].op = "acquired" /\ chain'[i].key = chain'[j].key
         => i = j
  <2>1. \A i \in DOMAIN chain : ~(chain[i].op = "acquired" /\ f.op = "acquired" /\ chain[i].key = f.key)
    BY DEF Fits, Folded, Sound, SameName
  <2> QED
    BY <1>0, <1>1, <2>1 DEF Folded
<1> QED
  BY <1>1, <1>2, <1>3 DEF Folded

\* An event a call makes.
Made(p, e) ==
  /\ e \in Evt /\ e.rev = Len(chain) + 1 /\ e.key = proc[p].key
  /\ Sound(e)
  /\ e.op = "begin_dispatch" /\ proc[p].cur = Len(chain) => chain # <<>> /\ Behind(Tip, e)

\* The chain after an append, and what the call that made it goes on with.
Grown == chain' = chain \/ \E f \in Evt : chain' = Append(chain, f)
GoesOn(p, e, to) ==
  \/ Leave(p)
  \/ /\ Onward(p, to)
     /\ \E i \in DOMAIN chain' : chain'[i].op = e.op /\ chain'[i].did = e.did

LEMMA RepeatStep ==
  ASSUME History, NEW p \in Proc, NEW e, Made(p, e), NEW f \in Named(e), NEW to,
         Repeat(p, e, f, to), UNCHANGED <<held, usage>>
  PROVE  History' /\ Grown /\ GoesOn(p, e, to)
<1>0. chain \in Seq(Evt) /\ DOMAIN chain = 1..Len(chain) /\ Len(chain) \in Nat
  BY DEF History, Folded
<1>1. CASE Throw(p)
  <2>1. chain' = chain /\ ahead' = ahead /\ Leave(p)
    BY <1>1 DEF Throw
  <2> QED
    BY <2>1 DEF History, Folded, Unfolded, Fits, Sound, Covered, Before, Admits, Allowed,
                Current, Tip, Last, Grown, GoesOn
<1>2. CASE Rebuilds(e, f) /\ chain # <<>> /\ f = Tip /\ UNCHANGED <<chain, ahead>> /\ Onward(p, to)
  <2>1. History'
    BY <1>2 DEF History, Folded, Unfolded, Fits, Sound, Covered, Before, Admits, Allowed,
                Current, Tip, Last
  <2>2. f.op = e.op /\ f.did = e.did
    BY <1>2 DEF Rebuilds, Made, Evt
  <2> QED
    BY <1>2, <2>1, <2>2, <1>0, TipIs DEF Grown, GoesOn
<1>3. CASE /\ Rebuilds(e, f) /\ proc[p].cur = Len(chain) /\ f.rev = Len(chain) + 1
           /\ chain' = Append(chain, f)
           /\ ahead' = {a \in ahead : a.event # f}
           /\ Onward(p, to)
  <2>1. PICK a \in ahead : a.event = f
    <3>1. f \notin ToSet(chain)
      BY <1>0, <1>3 DEF ToSet, History, Folded
    <3> QED
      BY <3>1 DEF Named
  <2>2. f \in Evt /\ Fits(f) /\ \A i \in DOMAIN chain : ~SameName(chain[i], f)
    BY <2>1 DEF History, Unfolded
  <2>3. ahead' = {}
    BY <1>3, <2>1 DEF History, Unfolded
  <2>4. f.op = e.op /\ f.did = e.did
    BY <1>3, <2>2 DEF Rebuilds, Made, Evt
  <2>5. Folded' /\ Len(chain') \in DOMAIN chain' /\ chain'[Len(chain')] = f
    BY <1>3, <2>2, Appended DEF History
  <2> QED
    BY <1>3, <2>2, <2>3, <2>4, <2>5 DEF History, Unfolded, Grown, GoesOn
<1> QED
  BY <1>1, <1>2, <1>3 DEF Repeat

LEMMA ExtendStep ==
  ASSUME History, NEW p \in Proc, NEW e, Made(p, e), NEW to, Named(e) = {},
         Extends(e, proc[p].cur), Extend(p, e, to), UNCHANGED <<held, usage>>
  PROVE  History' /\ Grown /\ GoesOn(p, e, to)
<1>0. chain \in Seq(Evt) /\ DOMAIN chain = 1..Len(chain) /\ Len(chain) \in Nat
  BY DEF History, Folded
<1>1. ahead = {}
  BY DEF Extends, NothingUnfolded, History, Unfolded, Fits
<1>2. Fits(e) /\ e \in Evt
  BY DEF Extends, Made, Fits
<1>3. \A i \in DOMAIN chain : ~SameName(chain[i], e)
  BY <1>0 DEF Named, ToSet, SameName
<1>4. CASE chain' = Append(chain, e) /\ UNCHANGED ahead /\ Onward(p, to)
  <2>1. Folded' /\ Len(chain') \in DOMAIN chain' /\ chain'[Len(chain')] = e
    BY <1>2, <1>3, <1>4, Appended DEF History
  <2> QED
    BY <1>1, <1>2, <1>4, <2>1 DEF History, Unfolded, Grown, GoesOn
<1>5. ASSUME NEW named \in BOOLEAN,
             ahead' = ahead \cup {[event |-> e, named |-> named]},
             UNCHANGED chain, Leave(p)
      PROVE  History' /\ Grown /\ GoesOn(p, e, to)
  <2>1. Folded'
    BY <1>5 DEF History, Folded, Sound, Covered, Before, Admits, Allowed
  <2>2. Fits(e)'
    BY <1>2, <1>5 DEF Fits, Sound, Covered, Admits, Allowed, Current, Tip, Last
  <2>3. Unfolded'
    BY <1>1, <1>2, <1>3, <1>5, <2>2 DEF Unfolded, Fits
  <2> QED
    BY <1>5, <2>1, <2>3 DEF History, Grown, GoesOn
<1> QED
  BY <1>4, <1>5 DEF Extend

LEMMA PublishStep ==
  ASSUME History, NEW p \in Proc, NEW e, Made(p, e), NEW to, Publish(p, e, to)
  PROVE  History' /\ Grown /\ GoesOn(p, e, to)
<1>0. UNCHANGED <<held, usage>>
  BY DEF Publish, budgetVars
<1>1. ASSUME NEW f \in Named(e), Repeat(p, e, f, to)
      PROVE  History' /\ Grown /\ GoesOn(p, e, to)
  BY <1>0, <1>1, RepeatStep
<1>2. CASE Throw(p)
  <2>1. chain' = chain /\ ahead' = ahead /\ Leave(p)
    BY <1>2 DEF Throw
  <2> QED
    BY <1>0, <2>1 DEF History, Folded, Unfolded, Fits, Sound, Covered, Before, Admits,
                      Allowed, Current, Tip, Last, Grown, GoesOn
<1>3. CASE Named(e) = {} /\ Extends(e, proc[p].cur) /\ Extend(p, e, to)
  BY <1>0, <1>3, ExtendStep
<1> QED
  BY <1>1, <1>2, <1>3 DEF Publish

-----------------------------------------------------------------------------
(* Steps.                                                                  *)

\* No reservation loses its cover.
Covering == \A k \in Key : Covered(k) => Covered(k)'

LEMMA Others ==
  ASSUME IInv, NEW p \in Proc, NEW q, Become(p, q), Grown, Covering
  PROVE  \A r \in Proc \ {p} : Knows(r)'
<1> SUFFICES ASSUME NEW r \in Proc \ {p} PROVE Knows(r)'
  OBVIOUS
<1>0. chain \in Seq(Evt) /\ DOMAIN chain = 1..Len(chain) /\ Len(chain) \in Nat
  BY DEF IInv, History, Folded
<1>1. proc'[r] = proc[r] /\ proc[r] \in Call /\ Knows(r)
  BY DEF IInv, Typed, Become
<1>2. CASE chain' = chain
  <2>1. Tip' = Tip
    BY <1>2 DEF Tip, Last
  <2>2. Events("begin_dispatch")' = Events("begin_dispatch")
    BY <1>2 DEF Events
  <2> QED
    BY <1>1, <1>2, <2>1, <2>2 DEF Knows, Ready, Covering, Call, Outside
<1>3. ASSUME NEW f \in Evt, chain' = Append(chain, f)
      PROVE  Knows(r)'
  <2>1. Len(chain') = Len(chain) + 1 /\ proc[r].cur \in Nat
    BY <1>0, <1>1, <1>3 DEF Call
  <2>2. proc[r].cur < Len(chain')
    BY <1>0, <1>1, <2>1 DEF Knows, Ready
  <2>3. \A i \in Events("begin_dispatch") :
          i \in Events("begin_dispatch")' /\ chain'[i] = chain[i]
    BY <1>0, <1>3 DEF Events
  <2> QED
    BY <1>1, <2>1, <2>2, <2>3 DEF Knows, Ready, Covering, Call, Outside
<1> QED
  BY <1>2, <1>3 DEF Grown

LEMMA KeepsHistory ==
  ASSUME History, UNCHANGED <<chain, ahead>>, Covering
  PROVE  History'
  BY DEF History, Folded, Unfolded, Fits, Sound, Covering, Before, Admits, Allowed,
         Current, Tip, Last

\* A step beside the chain.
LEMMA LocalStep ==
  ASSUME IInv, NEW p \in Proc, NEW q \in Call, Become(p, q), UNCHANGED <<chain, ahead>>,
         Covering, Typed', Knows(p)',
         \A d \in Launched' \ Launched : \E i \in Events("begin_dispatch") : chain[i].did = d
  PROVE  IInv'
<1>1. History'
  BY KeepsHistory DEF IInv
<1>2. \A r \in Proc : Knows(r)'
  BY Others DEF Grown
<1>3. Begun'
  <2>1. Events("begin_dispatch")' = Events("begin_dispatch")
    BY DEF Events
  <2> QED
    BY <2>1 DEF IInv, Begun
<1> QED
  BY <1>1, <1>2, <1>3 DEF IInv

\* Where an append may go on.
Targets == {"idle", "observe", "reserve", "acquire", "context", "dispatch", "outcome", "stop"}

LEMMA AppendStep ==
  ASSUME IInv, NEW p \in Proc, NEW e, Made(p, e), NEW to \in Targets, Publish(p, e, to),
         proc[p].pc # "idle", proc[p].pc \in Outside => to \in {"idle", "stop"},
         to = "dispatch" => e.op = "begin_dispatch" /\ e.did \in Dispatch /\ e.did = proc[p].did
  PROVE  IInv'
<1>0. UNCHANGED <<held, usage, budget, receipt, claims, launch>> /\ Covering
  BY DEF Publish, budgetVars, effectVars, Covering, Covered
<1>1. History' /\ Grown /\ GoesOn(p, e, to)
  BY PublishStep DEF IInv
<1>2. Len(chain') \in Nat
  BY <1>1 DEF History, Folded
<1>3. PICK q \in Call : /\ Become(p, q)
                        /\ \/ q = Idle
                           \/ /\ q = [proc[p] EXCEPT !.pc = to, !.cur = Len(chain'), !.res = Nothing]
                              /\ \E i \in DOMAIN chain' : chain'[i].op = e.op /\ chain'[i].did = e.did
  <2>1. Idle \in Call
    BY DEF Idle, Call, PC
  <2>2. [proc[p] EXCEPT !.pc = to, !.cur = Len(chain'), !.res = Nothing] \in Call
    <3>1. proc[p] \in Call
      BY DEF IInv, Typed
    <3> QED
      BY <1>2, <3>1 DEF Call, PC, Slots, Ops, Targets
  <2> QED
    BY <1>1, <2>1, <2>2 DEF GoesOn, Leave, Onward
<1>4. Typed'
  BY <1>0, <1>3 DEF IInv, Typed, Become
<1>5. proc'[p] = q
  BY <1>3 DEF IInv, Typed, Become
<1>6. Knows(p)'
  <2>1. CASE q = Idle
    BY <1>2, <1>5, <2>1 DEF Knows, Ready, Idle, Outside
  <2>2. CASE /\ q = [proc[p] EXCEPT !.pc = to, !.cur = Len(chain'), !.res = Nothing]
             /\ \E i \in DOMAIN chain' : chain'[i].op = e.op /\ chain'[i].did = e.did
    <3>1. /\ q.pc = to /\ q.cur = Len(chain') /\ q.key = proc[p].key /\ q.did = proc[p].did
      BY <2>2 DEF IInv, Typed, Call
    <3>2. q.key \in Caller /\ (to \notin Outside => q.key \in Key)
      BY <3>1 DEF IInv, Knows, Ready, Outside
    <3>3. to = "dispatch" => \E i \in Events("begin_dispatch")' : chain'[i].did = q.did
      BY <2>2, <3>1 DEF Events
    <3> QED
      BY <1>2, <1>5, <3>1, <3>2, <3>3 DEF Knows, Ready, Targets, Outside
  <2> QED
    BY <1>3, <2>1, <2>2
<1>7. \A r \in Proc : Knows(r)'
  BY <1>0, <1>1, <1>3, <1>6, Others
<1>8. Begun'
  <2>1. \A i \in Events("begin_dispatch") :
          i \in Events("begin_dispatch")' /\ chain'[i] = chain[i]
    BY <1>1 DEF Events, Grown, IInv, History, Folded
  <2> QED
    BY <1>0, <2>1 DEF IInv, Begun, Launched
<1> QED
  BY <1>1, <1>4, <1>7, <1>8 DEF IInv

\* An event of another kind than the two that later steps rely on.
LEMMA MadePlain ==
  ASSUME IInv, NEW p \in Proc, NEW slot \in Slots, NEW n \in Nat, NEW op \in Ops,
         op \notin {"acquired", "begin_dispatch"}, proc[p].pc # "idle"
  PROVE  Made(p, Event(p, slot, n, op)) /\ Event(p, slot, n, op).op = op
<1>1. proc[p] \in Call /\ proc[p].key \in Caller /\ Len(chain) \in Nat
  BY DEF IInv, Typed, Knows, Ready, History, Folded
<1> QED
  BY <1>1 DEF Made, Event, Evt, Sound, Call

\* The appends of events of that kind.
Plain(from, slot, op, to) ==
  /\ from \in PC /\ from # "idle" /\ slot \in Slots /\ op \in Ops
  /\ to \in Targets /\ to # "dispatch"
  /\ from \in Outside => to \in {"idle", "stop"}
  /\ op \notin {"acquired", "begin_dispatch"}

LEMMA RecordStep ==
  ASSUME IInv, NEW p \in Proc, NEW from, NEW slot, NEW op, NEW to,
         Plain(from, slot, op, to), Record(p, from, slot, op, to)
  PROVE  IInv'
<1>1. proc[p].pc = from
  BY DEF Record, At
<1>2. Made(p, Event(p, slot, 0, op)) /\ Event(p, slot, 0, op).op = op
  BY <1>1, MadePlain DEF Plain
<1>3. Publish(p, Event(p, slot, 0, op), to)
  BY DEF Record
<1> QED
  BY <1>1, <1>2, <1>3, AppendStep DEF Plain

LEMMA PlainOnes ==
  /\ Plain("requestStop", "request", "request_stop", "stop")
  /\ Plain("stop", "stopped", "stop", "idle")
  /\ Plain("reconcile", "reconcile", "require_reconciliation", "idle")
  /\ Plain("observe", "observe", "observe", "reserve")
  /\ Plain("observe", "observe", "observe", "idle")
  /\ Plain("uncertain", "uncertain", "require_reconciliation", "idle")
  /\ Plain("refused", "budget-refusal", "require_reconciliation", "idle")
  /\ Plain("exhausted", "budget-refusal", "exhaust_budget", "idle")
  /\ Plain("beginAcquire", "begin-acquire", "begin_acquire", "acquire")
  /\ Plain("acquireUnknown", "acquire-unknown", "require_reconciliation", "idle")
  /\ Plain("no_offer", "no-offer", "no_offer", "idle")
  /\ Plain("failed", "acquire-failed", "require_reconciliation", "idle")
  /\ Plain("attemptClosed", "attempt-reconciliation", "require_reconciliation", "idle")
  /\ Plain("dispatchUnknown", "dispatch-unknown", "require_reconciliation", "idle")
  /\ Plain("dispatchStarted", "dispatch-started", "dispatch_started", "outcome")
  /\ Plain("dispatchStarted", "dispatch-started", "dispatch_started", "idle")
  /\ Plain("outcome", "outcome", "outcome_observed", "idle")
  /\ Plain("dispatchObserved", "dispatch-observed", "require_reconciliation", "idle")
  BY DEF Plain, PC, Slots, Ops, Targets, Outside

LEMMA PlainSteps ==
  ASSUME IInv, NEW p \in Proc,
         \/ RequestStop(p) \/ StopRun(p) \/ RequireOperator(p)
         \/ Observe(p) \/ Uncertain(p) \/ Refused(p) \/ Exhausted(p) \/ BeginAcquire(p)
         \/ AcquireUnknown(p) \/ NoOffer(p) \/ AcquireFailed(p) \/ AttemptReconciliation(p)
         \/ DispatchUnknown(p) \/ DispatchStarted(p) \/ OutcomeObserved(p)
         \/ DispatchObserved(p)
  PROVE  IInv'
<1>1. CASE RequestStop(p)
  BY <1>1, PlainOnes, RecordStep DEF RequestStop, Record
<1>2. CASE StopRun(p)
  BY <1>2, PlainOnes, RecordStep DEF StopRun, Record
<1>3. CASE RequireOperator(p)
  BY <1>3, PlainOnes, RecordStep DEF RequireOperator
<1>4. CASE Observe(p)
  BY <1>4, PlainOnes, RecordStep DEF Observe
<1>5. CASE Uncertain(p)
  BY <1>5, PlainOnes, RecordStep DEF Uncertain
<1>6. CASE Refused(p)
  BY <1>6, PlainOnes, RecordStep DEF Refused
<1>7. CASE Exhausted(p)
  BY <1>7, PlainOnes, RecordStep DEF Exhausted
<1>8. CASE BeginAcquire(p)
  BY <1>8, PlainOnes, RecordStep DEF BeginAcquire
<1>9. CASE AcquireUnknown(p)
  BY <1>9, PlainOnes, RecordStep DEF AcquireUnknown
<1>10. CASE NoOffer(p)
  BY <1>10, PlainOnes, RecordStep DEF NoOffer
<1>11. CASE AcquireFailed(p)
  BY <1>11, PlainOnes, RecordStep DEF AcquireFailed
<1>12. CASE AttemptReconciliation(p)
  BY <1>12, PlainOnes, RecordStep DEF AttemptReconciliation
<1>13. CASE DispatchUnknown(p)
  BY <1>13, PlainOnes, RecordStep DEF DispatchUnknown
<1>14. CASE DispatchStarted(p)
  BY <1>14, PlainOnes, RecordStep DEF DispatchStarted
<1>15. CASE OutcomeObserved(p)
  BY <1>15, PlainOnes, RecordStep DEF OutcomeObserved
<1>16. CASE DispatchObserved(p)
  BY <1>16, PlainOnes, RecordStep DEF DispatchObserved
<1> QED
  BY <1>1, <1>2, <1>3, <1>4, <1>5, <1>6, <1>7, <1>8, <1>9, <1>10, <1>11, <1>12, <1>13, <1>14, <1>15, <1>16

\* Giving up, or dying.
LEMMA LeaveStep ==
  ASSUME IInv, NEW p \in Proc, Leave(p), UNCHANGED <<chain, ahead, budgetVars, receipt, claims, launch>>
  PROVE  IInv'
<1>1. Idle \in Call /\ Covering
  BY DEF Idle, Call, PC, Covering, Covered, budgetVars
<1>2. Typed'
  BY <1>1 DEF IInv, Typed, Leave, Become, budgetVars
<1>3. proc'[p] = Idle
  BY DEF IInv, Typed, Leave, Become
<1>4. Knows(p)'
  BY <1>3 DEF Knows, Ready, Idle, Outside, IInv, History, Folded
<1>5. Launched' = Launched
  BY DEF Launched
<1> QED
  BY <1>1, <1>2, <1>4, <1>5, LocalStep DEF Leave

LEMMA AcquiredStep ==
  ASSUME IInv, NEW p \in Proc, Acquired(p)
  PROVE  IInv'
<1>1. ASSUME NEW to \in {"context", "idle"}, Record(p, "ok", "acquired", "acquired", to)
      PROVE  IInv'
  <2>1. proc[p].pc = "ok" /\ Publish(p, Event(p, "acquired", 0, "acquired"), to)
    BY <1>1 DEF Record, At
  <2>2. proc[p] \in Call /\ proc[p].key \in Key /\ Len(chain) \in Nat
    BY <2>1 DEF IInv, Typed, Knows, Ready, Outside, History, Folded
  <2>3. Made(p, Event(p, "acquired", 0, "acquired"))
    BY <2>2 DEF Made, Event, Evt, Slots, Ops, Sound, Call, Caller
  <2> QED
    BY <2>1, <2>3, AppendStep DEF Targets, Outside
<1>2. CASE At(p, "ok") /\ Leave(p) /\ UNCHANGED <<chain, ahead, budgetVars, effectVars>>
  BY <1>2, LeaveStep DEF effectVars
<1> QED
  BY <1>1, <1>2 DEF Acquired

LEMMA TransientStep ==
  ASSUME IInv, NEW p \in Proc, Transient(p)
  PROVE  IInv'
<1> DEFINE n == Failures(proc[p].cur) + 1
<1>1. proc[p].pc = "transient" /\ proc[p] \in Call
  BY DEF Transient, At, IInv, Typed
<1>2. n \in Nat
  BY <1>1, FailuresType DEF Call
<1>3. CASE n > MaxRetry
  <2>1. Publish(p, Event(p, "retry-exhausted", 0, "block"), "idle")
    BY <1>3 DEF Transient
  <2>2. Made(p, Event(p, "retry-exhausted", 0, "block"))
    BY <1>1, MadePlain DEF Slots, Ops
  <2> QED
    BY <1>1, <2>1, <2>2, AppendStep DEF Targets, Outside
<1>4. CASE ~(n > MaxRetry)
  <2>1. Publish(p, Event(p, "retry", n, "retry_wait"), "idle")
    BY <1>4 DEF Transient
  <2>2. Made(p, Event(p, "retry", n, "retry_wait"))
    BY <1>1, <1>2, MadePlain DEF Slots, Ops
  <2> QED
    BY <1>1, <2>1, <2>2, AppendStep DEF Targets, Outside
<1> QED
  BY <1>3, <1>4

\* The dispatch is begun behind the acquisition of its claim, unless the chain
\* has grown since the call read it.
LEMMA BeginDispatchStep ==
  ASSUME IInv, NEW p \in Proc, BeginDispatch(p)
  PROVE  IInv'
<1> DEFINE e == Event(p, "begin-dispatch", 0, "begin_dispatch")
<1>1. proc[p].pc = "beginDispatch" /\ Publish(p, e, "dispatch")
  BY DEF BeginDispatch, Record, At
<1>2. /\ proc[p] \in Call /\ proc[p].key \in Key /\ proc[p].did \in Dispatch
      /\ Covered(proc[p].key) /\ Len(chain) \in Nat
      /\ proc[p].cur = Len(chain) =>
           chain # <<>> /\ Tip.op = "acquired" /\ Tip.key = proc[p].did[1]
  BY <1>1 DEF IInv, Typed, Knows, Ready, Outside, History, Folded
<1>3. e.op = "begin_dispatch" /\ e.did = proc[p].did /\ e.key = proc[p].key
  BY DEF Event
<1>4. Made(p, e)
  BY <1>2 DEF Made, Event, Evt, Slots, Ops, Sound, Call, Caller, Behind
<1> QED
  BY <1>1, <1>2, <1>3, <1>4, AppendStep DEF Targets, Outside

-----------------------------------------------------------------------------
(* Steps beside the chain.                                                 *)

LEMMA BeginStep ==
  ASSUME IInv, NEW p \in Proc, NEW k \in Caller,
         NEW to \in {"observe", "reserve", "uncertain", "context", "requestStop", "stop", "reconcile"},
         to \notin Outside => k \in Key, Begin(p, k, to)
  PROVE  IInv'
<1> DEFINE q == [Idle EXCEPT !.pc = to, !.key = k, !.cur = Len(chain)]
<1>1. Len(chain) \in Nat
  BY DEF IInv, History, Folded
<1>2. q \in Call /\ q.pc = to /\ q.key = k /\ q.cur = Len(chain)
  BY <1>1 DEF Idle, Call, PC
<1>3. /\ Become(p, q) /\ Covering /\ Launched' = Launched
      /\ UNCHANGED <<chain, ahead, budget, held, usage, receipt, claims, launch>>
  BY DEF Begin, budgetVars, effectVars, Covering, Covered, Launched
<1>4. Typed' /\ proc'[p] = q
  BY <1>2, <1>3 DEF IInv, Typed, Become
<1>5. Knows(p)'
  BY <1>1, <1>2, <1>3, <1>4 DEF Knows, Ready, Outside
<1> QED
  BY <1>2, <1>3, <1>4, <1>5, LocalStep

LEMMA CallSteps ==
  ASSUME IInv, NEW p \in Proc,
         \/ \E k \in Key : Step(p, k)
         \/ \E k \in OperatorKey : Stop(p, k) \/ Reconcile(p, k)
  PROVE  IInv'
<1>1. ASSUME NEW k \in Key, Step(p, k) PROVE IInv'
  <2>1. k \in Caller
    BY DEF Caller
  <2>2. \E to \in {"observe", "reserve", "uncertain", "context"} : Begin(p, k, to)
    BY <1>1 DEF Step
  <2> QED
    BY <2>1, <2>2, BeginStep
<1>2. ASSUME NEW k \in OperatorKey, Stop(p, k) PROVE IInv'
  <2>1. k \in Caller
    BY DEF Caller
  <2>2. \E to \in {"stop", "requestStop"} : Begin(p, k, to)
    BY <1>2 DEF Stop
  <2> QED
    BY <2>1, <2>2, BeginStep DEF Outside
<1>3. ASSUME NEW k \in OperatorKey, Reconcile(p, k) PROVE IInv'
  <2>1. k \in Caller
    BY DEF Caller
  <2> QED
    BY <1>3, <2>1, BeginStep DEF Reconcile, Outside
<1> QED
  BY <1>1, <1>2, <1>3

\* What a reservation changes: the call goes on covered, or is refused.
LEMMA ReserveIs ==
  ASSUME IInv, NEW p \in Proc, NEW k \in Key, NEW kind \in {"acquisition", "dispatch"},
         NEW to \in PC, Reserve(p, <<k, kind>>, to)
  PROVE  /\ Covering
         /\ budget' \in {"active", "stopped"} /\ held' \in Reservation \cup {Nothing}
         /\ \/ Goto(p, "refused") \/ Goto(p, "exhausted")
            \/ Goto(p, to) /\ (held' = <<k, kind>> \/ usage'[<<k, kind>>] # "none")
<1> DEFINE r == <<k, kind>>
<1>1. r \in Reservation /\ Nothing \notin Reservation
  BY ControllerAssumption DEF Reservation
<1>2. UNCHANGED usage /\ held' \in {held, r} /\ budget' \in {budget, "stopped"}
  BY DEF Reserve
<1>3. held # Nothing => held' = held
  BY DEF Reserve
<1>4. Covering
  <2> SUFFICES ASSUME NEW l \in Key, Covered(l) PROVE Covered(l)'
    BY DEF Covering
  <2>1. <<l, "dispatch">> \in Reservation
    BY DEF Reservation
  <2> QED
    BY <1>1, <1>2, <1>3, <2>1 DEF Covered
<1>5. \/ Goto(p, "refused") \/ Goto(p, "exhausted")
      \/ Goto(p, to) /\ (held' = r \/ usage'[r] # "none")
  BY DEF Reserve
<1> QED
  BY <1>1, <1>2, <1>4, <1>5 DEF IInv, Typed

\* A call that goes on under its key, on the chain it read.
Keeps(p, q) ==
  /\ q \in Call /\ q.key = proc[p].key /\ q.cur = proc[p].cur
  /\ q.pc \notin Outside /\ Become(p, q)

LEMMA OnwardStep ==
  ASSUME IInv, NEW p \in Proc, proc[p].pc \notin Outside, NEW q, Keeps(p, q), Ready(q),
         q.pc \in {"startAttempt", "beginDispatch"} => Covered(q.key)',
         UNCHANGED <<chain, ahead>>, Covering,
         budget' \in {"active", "stopped"}, held' \in Reservation \cup {Nothing},
         usage' \in [Reservation -> Charges],
         receipt' \in [Key -> {"none", "ok", "transient", "failed"}], claims' \subseteq Key,
         launch' \in [Dispatch -> {"intent"} \cup Ends],
         \A d \in Launched' \ Launched : \E i \in Events("begin_dispatch") : chain[i].did = d
  PROVE  IInv'
<1>1. Typed' /\ proc'[p] = q
  BY DEF IInv, Typed, Keeps, Become
<1>2. q.cur <= Len(chain) /\ q.key \in Key
  BY DEF IInv, Knows, Keeps
<1>3. Ready(q)'
  BY DEF Ready, Tip, Last, Events
<1>4. Knows(p)'
  BY <1>1, <1>2, <1>3 DEF Knows, Caller
<1> QED
  BY <1>1, <1>4, LocalStep DEF Keeps

LEMMA ReserveAcquisitionStep ==
  ASSUME IInv, NEW p \in Proc, ReserveAcquisition(p)
  PROVE  IInv'
<1>1. /\ proc[p].pc = "reserve" /\ proc[p] \in Call /\ proc[p].key \in Key
      /\ Reserve(p, <<proc[p].key, "acquisition">>, "beginAcquire")
      /\ UNCHANGED <<chain, ahead, usage, receipt, claims, launch>>
  BY DEF ReserveAcquisition, At, IInv, Typed, Knows, Outside, Reserve, effectVars
<1>2. /\ Covering
      /\ budget' \in {"active", "stopped"} /\ held' \in Reservation \cup {Nothing}
      /\ Goto(p, "refused") \/ Goto(p, "exhausted") \/ Goto(p, "beginAcquire")
  BY <1>1, ReserveIs DEF PC
<1>3. PICK to \in {"refused", "exhausted", "beginAcquire"} : Goto(p, to)
  BY <1>2
<1> DEFINE q == [proc[p] EXCEPT !.pc = to]
<1>4. Keeps(p, q) /\ q.pc = to
  BY <1>1, <1>3 DEF Keeps, Goto, Call, PC, Outside
<1>5. Ready(q)
  BY <1>4 DEF Ready
<1>6. Launched' = Launched
  BY <1>1 DEF Launched
<1> QED
  BY <1>1, <1>2, <1>4, <1>5, <1>6, OnwardStep DEF IInv, Typed, Outside

LEMMA ReserveDispatchStep ==
  ASSUME IInv, NEW p \in Proc, ReserveDispatch(p)
  PROVE  IInv'
<1>1. PICK k \in Key : k = proc[p].key
  BY DEF ReserveDispatch, At, IInv, Typed, Knows, Outside
<1>2. /\ proc[p].pc = "reserveDispatch" /\ proc[p] \in Call /\ Ready(proc[p])
      /\ Reserve(p, <<k, "dispatch">>, "startAttempt")
      /\ UNCHANGED <<chain, ahead, usage, receipt, claims, launch>>
  BY <1>1 DEF ReserveDispatch, At, IInv, Typed, Knows, Reserve, effectVars
<1>3. /\ Covering
      /\ budget' \in {"active", "stopped"} /\ held' \in Reservation \cup {Nothing}
      /\ \/ Goto(p, "refused") \/ Goto(p, "exhausted")
         \/ Goto(p, "startAttempt") /\ Covered(k)'
  BY <1>2, ReserveIs DEF PC, Covered
<1>4. PICK to \in {"refused", "exhausted", "startAttempt"} :
        Goto(p, to) /\ (to = "startAttempt" => Covered(k)')
  BY <1>3
<1> DEFINE q == [proc[p] EXCEPT !.pc = to]
<1>5. Keeps(p, q) /\ q.pc = to /\ q.key = k /\ q.did = proc[p].did /\ q.res = proc[p].res
  BY <1>1, <1>2, <1>4 DEF Keeps, Goto, Call, PC, Outside
<1>6. Ready(q)
  BY <1>2, <1>5 DEF Ready, Keeps
<1>7. Launched' = Launched
  BY <1>2 DEF Launched
<1> QED
  BY <1>2, <1>3, <1>4, <1>5, <1>6, <1>7, OnwardStep DEF IInv, Typed, Outside

\* What a settlement changes.
LEMMA ChargeIs ==
  ASSUME IInv, NEW p \in Proc, NEW k \in Key, NEW kind \in {"acquisition", "dispatch"},
         NEW outcome \in Charges \ {"none"}, NEW to, Charge(p, <<k, kind>>, outcome, to)
  PROVE  /\ Covering
         /\ held' \in Reservation \cup {Nothing} /\ usage' \in [Reservation -> Charges]
         /\ Goto(p, to) \/ (Leave(p) /\ UNCHANGED <<held, usage>>)
         /\ UNCHANGED <<chain, ahead, budget, receipt, claims, attempt, launch>>
<1> DEFINE r == <<k, kind>>
<1>1. r \in Reservation
  BY DEF Reservation
<1>2. CASE usage[r] = "none" \/ Consumed(r, usage[r]) = Consumed(r, outcome)
  <2>1. /\ usage' = IF usage[r] = "none" THEN [usage EXCEPT ![r] = outcome] ELSE usage
        /\ held' = IF held = r THEN Nothing ELSE held
        /\ Goto(p, to)
    BY <1>2 DEF Charge
  <2>2. usage' \in [Reservation -> Charges] /\ usage'[r] # "none"
    BY <1>1, <2>1 DEF IInv, Typed
  <2>3. Covering
    <3> SUFFICES ASSUME NEW l \in Key, Covered(l) PROVE Covered(l)'
      BY DEF Covering
    <3>1. <<l, "dispatch">> \in Reservation
      BY DEF Reservation
    <3>2. CASE <<l, "dispatch">> = r
      BY <2>2, <3>2 DEF Covered
    <3>3. CASE <<l, "dispatch">> # r
      BY <1>1, <2>1, <3>1, <3>3 DEF Covered, IInv, Typed
    <3> QED
      BY <3>2, <3>3
  <2> QED
    BY <2>1, <2>2, <2>3 DEF Charge, effectVars, IInv, Typed
<1>3. CASE ~(usage[r] = "none" \/ Consumed(r, usage[r]) = Consumed(r, outcome))
  BY <1>3 DEF Charge, effectVars, IInv, Typed, Covering, Covered
<1> QED
  BY <1>2, <1>3

LEMMA AcquireNextStep ==
  ASSUME IInv, NEW p \in Proc, AcquireNext(p)
  PROVE  IInv'
<1>1. PICK k \in Key : k = proc[p].key
  BY DEF AcquireNext, At, IInv, Typed, Knows, Outside
<1>2. /\ proc[p].pc = "acquire" /\ proc[p] \in Call
      /\ UNCHANGED <<chain, ahead, budget, held, usage, launch>>
      /\ receipt[k] \in {"none", "ok", "transient", "failed"}
  BY <1>1 DEF AcquireNext, At, IInv, Typed, budgetVars
<1>3. /\ receipt' \in [Key -> {"none", "ok", "transient", "failed"}] /\ claims' \subseteq Key
      /\ \/ \E res \in Answers : Become(p, [proc[p] EXCEPT !.pc = "chargeAcquisition", !.res = res])
         \/ Goto(p, "acquireUnknown") \/ Leave(p)
  BY <1>1, <1>2 DEF AcquireNext, Answers, IInv, Typed
<1>4. Covering /\ Launched' = Launched
  BY <1>2 DEF Covering, Covered, Launched
<1>5. ASSUME NEW res \in Answers,
             Become(p, [proc[p] EXCEPT !.pc = "chargeAcquisition", !.res = res])
      PROVE  IInv'
  <2> DEFINE q == [proc[p] EXCEPT !.pc = "chargeAcquisition", !.res = res]
  <2>1. Keeps(p, q) /\ q.pc = "chargeAcquisition" /\ q.res = res
    BY <1>2, <1>5 DEF Keeps, Call, PC, Outside
  <2>2. Ready(q)
    BY <2>1 DEF Ready
  <2> QED
    BY <1>2, <1>3, <1>4, <2>1, <2>2, OnwardStep DEF IInv, Typed, Outside
<1>6. CASE Goto(p, "acquireUnknown")
  <2> DEFINE q == [proc[p] EXCEPT !.pc = "acquireUnknown"]
  <2>1. Keeps(p, q) /\ q.pc = "acquireUnknown"
    BY <1>2, <1>6 DEF Keeps, Goto, Call, PC, Outside
  <2>2. Ready(q)
    BY <2>1 DEF Ready
  <2> QED
    BY <1>2, <1>3, <1>4, <2>1, <2>2, OnwardStep DEF IInv, Typed, Outside
<1>7. CASE Leave(p)
  <2>1. Idle \in Call /\ Become(p, Idle)
    BY <1>7 DEF Idle, Call, PC, Leave
  <2>2. Typed' /\ proc'[p] = Idle
    BY <1>2, <1>3, <2>1 DEF IInv, Typed, Become
  <2>3. Knows(p)'
    BY <1>2, <2>2 DEF Knows, Ready, Idle, Outside, IInv, History, Folded
  <2> QED
    BY <1>2, <1>4, <2>1, <2>2, <2>3, LocalStep
<1> QED
  BY <1>3, <1>5, <1>6, <1>7

LEMMA ChargeAcquisitionStep ==
  ASSUME IInv, NEW p \in Proc, ChargeAcquisition(p)
  PROVE  IInv'
<1>1. PICK k \in Key : k = proc[p].key
  BY DEF ChargeAcquisition, At, IInv, Typed, Knows, Outside
<1>2. /\ proc[p].pc = "chargeAcquisition" /\ proc[p] \in Call /\ proc[p].res \in Answers
  BY DEF ChargeAcquisition, At, IInv, Typed, Knows, Ready
<1>3. PICK outcome \in {"progress", "no_progress"} :
        Charge(p, <<k, "acquisition">>, outcome, proc[p].res)
  BY <1>1 DEF ChargeAcquisition
<1>4. /\ Covering
      /\ held' \in Reservation \cup {Nothing} /\ usage' \in [Reservation -> Charges]
      /\ Goto(p, proc[p].res) \/ (Leave(p) /\ UNCHANGED <<held, usage>>)
      /\ UNCHANGED <<chain, ahead, budget, receipt, claims, attempt, launch>>
  BY <1>3, ChargeIs DEF Charges
<1>5. CASE Goto(p, proc[p].res)
  <2> DEFINE q == [proc[p] EXCEPT !.pc = proc[p].res]
  <2>1. Keeps(p, q) /\ q.pc \in Answers
    BY <1>2, <1>5 DEF Keeps, Goto, Call, PC, Outside, Answers
  <2>2. Ready(q) /\ q.pc \notin {"startAttempt", "beginDispatch"} /\ Launched' = Launched
    BY <1>4, <2>1 DEF Ready, Answers, Launched
  <2> QED
    BY <1>2, <1>4, <2>1, <2>2, OnwardStep DEF IInv, Typed, Outside
<1>6. CASE Leave(p) /\ UNCHANGED <<held, usage>>
  BY <1>4, <1>6, LeaveStep DEF budgetVars
<1> QED
  BY <1>4, <1>5, <1>6

\* The head that is read is the one whose claim the attempt context names.
LEMMA ReadAuthorityStep ==
  ASSUME IInv, NEW p \in Proc, ReadAuthority(p)
  PROVE  IInv'
<1>1. /\ proc[p].pc = "context" /\ proc[p] \in Call
      /\ UNCHANGED <<chain, ahead, budget, held, usage, receipt, claims, launch>>
      /\ Covering /\ Launched' = Launched
  BY DEF ReadAuthority, At, IInv, Typed, budgetVars, effectVars, Covering, Covered, Launched
<1>2. ASSUME chain # <<>>, Tip.op \in {"acquired", "begin_dispatch"}, NEW d \in {Context} \X Run,
             Become(p, [proc[p] EXCEPT !.pc = "reserveDispatch", !.res = Tip.op, !.did = d])
      PROVE  IInv'
  <2> DEFINE q == [proc[p] EXCEPT !.pc = "reserveDispatch", !.res = Tip.op, !.did = d]
  <2>1. Context \in Key /\ (Tip.op = "acquired" => Context = Tip.key)
    BY <1>2, ContextIs DEF IInv, History
  <2>2. d \in Dispatch /\ d[1] = Context
    BY <2>1 DEF Dispatch
  <2>3. /\ Keeps(p, q) /\ q.pc = "reserveDispatch" /\ q.did = d /\ q.res = Tip.op
    BY <1>1, <1>2, <2>2 DEF Keeps, Call, PC, Outside
  <2>4. Ready(q)
    BY <1>2, <2>1, <2>2, <2>3 DEF Ready
  <2> QED
    BY <1>1, <2>3, <2>4, OnwardStep DEF IInv, Typed, Outside
<1>3. CASE Leave(p)
  BY <1>1, <1>3, LeaveStep DEF budgetVars
<1> QED
  BY <1>2, <1>3 DEF ReadAuthority

LEMMA StartAttemptStep ==
  ASSUME IInv, NEW p \in Proc, StartAttempt(p)
  PROVE  IInv'
<1>1. PICK k \in Key : k = proc[p].key
  BY DEF StartAttempt, At, IInv, Typed, Knows, Outside
<1>2. /\ proc[p].pc = "startAttempt" /\ proc[p] \in Call /\ Ready(proc[p])
      /\ Covered(k) /\ Covered(k)'
      /\ UNCHANGED <<chain, ahead, budget, held, usage, receipt, claims, launch>>
      /\ Covering /\ Launched' = Launched
  BY <1>1 DEF StartAttempt, At, IInv, Typed, Knows, budgetVars, Covering, Covered, Launched
<1>3. PICK to \in {"beginDispatch", "closeAttempt"} :
        /\ to = "beginDispatch" => proc[p].res = "acquired"
        /\ Goto(p, to) \/ Leave(p)
  BY DEF StartAttempt
<1>4. CASE Goto(p, to)
  <2> DEFINE q == [proc[p] EXCEPT !.pc = to]
  <2>1. /\ Keeps(p, q) /\ q.pc = to /\ q.key = k
        /\ q.did = proc[p].did /\ q.res = proc[p].res
    BY <1>1, <1>2, <1>4 DEF Keeps, Goto, Call, PC, Outside
  <2>2. Ready(q)
    BY <1>2, <1>3, <2>1 DEF Ready, Keeps
  <2> QED
    BY <1>2, <2>1, <2>2, OnwardStep DEF IInv, Typed, Outside
<1>5. CASE Leave(p)
  BY <1>2, <1>5, LeaveStep DEF budgetVars
<1> QED
  BY <1>3, <1>4, <1>5

LEMMA EndAttemptStep ==
  ASSUME IInv, NEW p \in Proc, NEW outcome,
         NEW to \in {"attemptClosed", "dispatchStarted", "dispatchObserved"},
         proc[p].pc \notin Outside, EndAttempt(p, outcome, [proc[p] EXCEPT !.pc = to])
  PROVE  IInv'
<1>1. /\ proc[p] \in Call
      /\ UNCHANGED <<chain, ahead, budget, held, usage, receipt, claims, launch>>
      /\ Covering /\ Launched' = Launched
  BY DEF EndAttempt, IInv, Typed, budgetVars, Covering, Covered, Launched
<1>2. CASE Become(p, [proc[p] EXCEPT !.pc = to])
  <2> DEFINE q == [proc[p] EXCEPT !.pc = to]
  <2>1. Keeps(p, q) /\ q.pc = to
    BY <1>1, <1>2 DEF Keeps, Call, PC, Outside
  <2>2. Ready(q)
    BY <2>1 DEF Ready
  <2> QED
    BY <1>1, <2>1, <2>2, OnwardStep DEF IInv, Typed
<1>3. CASE Leave(p)
  BY <1>1, <1>3, LeaveStep DEF budgetVars
<1> QED
  BY <1>2, <1>3 DEF EndAttempt

\* The launch has its event in the chain.
LEMMA LaunchStep ==
  ASSUME IInv, NEW p \in Proc, Launch(p)
  PROVE  IInv'
<1>1. PICK d \in Dispatch : d = proc[p].did
  BY DEF Launch, At, IInv, Knows, Ready
<1>2. /\ proc[p].pc = "dispatch" /\ proc[p] \in Call
      /\ UNCHANGED <<chain, ahead, budget, held, usage, receipt, claims>> /\ Covering
      /\ \E i \in Events("begin_dispatch") : chain[i].did = d
      /\ launch[d] \in {"intent"} \cup Ends
  BY <1>1 DEF Launch, At, IInv, Typed, Knows, Ready, budgetVars, Covering, Covered
<1>3. /\ \/ \E end \in Ends : Become(p, [proc[p] EXCEPT !.pc = "chargeDispatch", !.res = end])
         \/ Goto(p, "dispatchUnknown") \/ Leave(p)
      /\ \E end \in {"intent"} \cup Ends : launch' \in {launch, [launch EXCEPT ![d] = end]}
  BY <1>1, <1>2 DEF Launch, Ends
<1>4. /\ launch' \in [Dispatch -> {"intent"} \cup Ends]
      /\ \A e \in Launched' \ Launched : e = d
  BY <1>3 DEF IInv, Typed, Launched
<1>5. ASSUME NEW q, Keeps(p, q), q.pc \in {"chargeDispatch", "dispatchUnknown"}, Ready(q)
      PROVE  IInv'
  BY <1>2, <1>4, <1>5, OnwardStep DEF IInv, Typed, Outside
<1>6. ASSUME NEW end \in Ends, Become(p, [proc[p] EXCEPT !.pc = "chargeDispatch", !.res = end])
      PROVE  IInv'
  <2> DEFINE q == [proc[p] EXCEPT !.pc = "chargeDispatch", !.res = end]
  <2>1. Keeps(p, q) /\ q.pc = "chargeDispatch" /\ q.res = end
    BY <1>2, <1>6 DEF Keeps, Call, PC, Outside
  <2>2. Ready(q)
    BY <2>1 DEF Ready
  <2> QED
    BY <1>5, <2>1, <2>2
<1>7. CASE Goto(p, "dispatchUnknown")
  <2> DEFINE q == [proc[p] EXCEPT !.pc = "dispatchUnknown"]
  <2>1. Keeps(p, q) /\ q.pc = "dispatchUnknown"
    BY <1>2, <1>7 DEF Keeps, Goto, Call, PC, Outside
  <2>2. Ready(q)
    BY <2>1 DEF Ready
  <2> QED
    BY <1>5, <2>1, <2>2
<1>8. CASE Leave(p)
  <2>1. Idle \in Call /\ Become(p, Idle)
    BY <1>8 DEF Idle, Call, PC, Leave
  <2>2. Typed' /\ proc'[p] = Idle
    BY <1>2, <1>4, <2>1 DEF IInv, Typed, Become
  <2>3. Knows(p)'
    BY <1>2, <2>2 DEF Knows, Ready, Idle, Outside, IInv, History, Folded
  <2> QED
    BY <1>2, <1>4, <2>1, <2>2, <2>3, LocalStep
<1> QED
  BY <1>3, <1>6, <1>7, <1>8

LEMMA ChargeDispatchStep ==
  ASSUME IInv, NEW p \in Proc, ChargeDispatch(p)
  PROVE  IInv'
<1>1. PICK k \in Key : k = proc[p].key
  BY DEF ChargeDispatch, At, IInv, Typed, Knows, Outside
<1>2. /\ proc[p].pc = "chargeDispatch" /\ proc[p] \in Call /\ proc[p].res \in Ends
  BY DEF ChargeDispatch, At, IInv, Typed, Knows, Ready
<1>3. PICK outcome \in {"progress", "provider_failure", "no_progress"} :
        Charge(p, <<k, "dispatch">>, outcome, "completeAttempt")
  BY <1>1, <1>2 DEF ChargeDispatch, Ends
<1>4. /\ Covering
      /\ held' \in Reservation \cup {Nothing} /\ usage' \in [Reservation -> Charges]
      /\ Goto(p, "completeAttempt") \/ (Leave(p) /\ UNCHANGED <<held, usage>>)
      /\ UNCHANGED <<chain, ahead, budget, receipt, claims, attempt, launch>>
  BY <1>3, ChargeIs DEF Charges
<1>5. CASE Goto(p, "completeAttempt")
  <2> DEFINE q == [proc[p] EXCEPT !.pc = "completeAttempt"]
  <2>1. Keeps(p, q) /\ q.pc = "completeAttempt" /\ q.res = proc[p].res
    BY <1>2, <1>5 DEF Keeps, Goto, Call, PC, Outside
  <2>2. Ready(q) /\ Launched' = Launched
    BY <1>2, <1>4, <2>1 DEF Ready, Launched
  <2> QED
    BY <1>2, <1>4, <2>1, <2>2, OnwardStep DEF IInv, Typed, Outside
<1>6. CASE Leave(p) /\ UNCHANGED <<held, usage>>
  BY <1>4, <1>6, LeaveStep DEF budgetVars
<1> QED
  BY <1>4, <1>5, <1>6

LEMMA NextStep ==
  ASSUME IInv, [Next]_vars PROVE IInv'
<1>1. ASSUME NEW p \in Proc, Continue(p) PROVE IInv'
  <2>1. CASE CloseAttempt(p)
    BY <2>1, EndAttemptStep DEF CloseAttempt, At, Outside
  <2>2. CASE CompleteAttempt(p)
    <3>1. proc[p].pc = "completeAttempt"
      BY <2>2 DEF CompleteAttempt, At
    <3> DEFINE outcome == IF proc[p].res = "unknown" THEN "reconciliation_required"
                          ELSE proc[p].res
               to == IF proc[p].res = "completed" THEN "dispatchStarted" ELSE "dispatchObserved"
    <3>2. EndAttempt(p, outcome, [proc[p] EXCEPT !.pc = to])
      BY <2>2 DEF CompleteAttempt
    <3>3. to \in {"attemptClosed", "dispatchStarted", "dispatchObserved"}
      OBVIOUS
    <3> HIDE DEF outcome, to
    <3> QED
      BY <3>1, <3>2, <3>3, EndAttemptStep DEF Outside
  <2> QED
    BY <1>1, <2>1, <2>2, PlainSteps, AcquiredStep, TransientStep, BeginDispatchStep,
       ReserveAcquisitionStep, ReserveDispatchStep, AcquireNextStep, ChargeAcquisitionStep,
       ReadAuthorityStep, StartAttemptStep, LaunchStep, ChargeDispatchStep DEF Continue
<1>2. ASSUME NEW p \in Proc, Die(p) PROVE IInv'
  BY <1>2, LeaveStep DEF Die, effectVars
<1>3. CASE UNCHANGED vars
  <2>1. /\ UNCHANGED <<chain, ahead, proc, budget, held, usage, receipt, claims, launch>>
        /\ Covering /\ Launched' = Launched
    BY <1>3 DEF vars, budgetVars, effectVars, Covering, Covered, Launched
  <2>2. History'
    BY <2>1, KeepsHistory DEF IInv
  <2>3. \A p \in Proc : Knows(p)'
    BY <2>1 DEF IInv, Knows, Ready, Covered, Tip, Last, Events
  <2> QED
    BY <2>1, <2>2, <2>3 DEF IInv, Typed, Begun, Events
<1> QED
  BY <1>1, <1>2, <1>3, CallSteps DEF Next

LEMMA InitIInv == Init => IInv
<1> SUFFICES ASSUME Init PROVE IInv
  OBVIOUS
<1>1. Idle \in Call
  BY DEF Idle, Call, PC
<1>2. Typed
  BY <1>1 DEF Init, Typed, Charges
<1>3. History
  BY DEF Init, History, Folded, Unfolded
<1>4. \A p \in Proc : Knows(p)
  BY DEF Init, Knows, Ready, Idle, Outside
<1>5. Begun
  BY DEF Init, Begun, Launched
<1> QED
  BY <1>2, <1>3, <1>4, <1>5 DEF IInv

LEMMA Invariance == Spec => []IInv
  BY InitIInv, NextStep, PTL DEF Spec

-----------------------------------------------------------------------------
(* The theorems.                                                           *)

\* Every variable keeps to its type.
THEOREM TypeCorrect == Spec => []TypeOK
<1>1. IInv => TypeOK
  BY DEF IInv, Typed, History, Folded, Unfolded, TypeOK, Call
<1> QED
  BY <1>1, Invariance, PTL

\* The durable events are one history, whoever appends and wherever it dies
\* (appendLocked, assertNoUnfoldedEvent).
THEOREM HistoryIsOne == Spec => []OneHistory
<1>1. IInv => OneHistory
  BY DEF IInv, History, Folded, Unfolded, Fits, Before, OneHistory
<1> QED
  BY <1>1, Invariance, PTL

\* One claim is dispatched once, under whatever keys and dispatch ids the
\* callers of stepAutomationController come back.
THEOREM ClaimDispatchedOnce == Spec => []DispatchOnce
<1>1. IInv => DispatchOnce
  <2> SUFFICES ASSUME IInv, NEW d \in Launched, NEW e \in Launched, d[1] = e[1]
               PROVE  d = e
    BY DEF DispatchOnce
  <2>1. PICK i \in Events("begin_dispatch"), j \in Events("begin_dispatch") :
          chain[i].did = d /\ chain[j].did = e
    BY DEF IInv, Begun
  <2>2. /\ i \in DOMAIN chain /\ j \in DOMAIN chain
        /\ i > 1 /\ chain[i - 1].op = "acquired" /\ chain[i - 1].key = d[1]
        /\ j > 1 /\ chain[j - 1].op = "acquired" /\ chain[j - 1].key = e[1]
    BY <2>1 DEF Events, IInv, History, Folded, Behind
  <2>3. DOMAIN chain = 1..Len(chain) /\ Len(chain) \in Nat
    BY DEF IInv, History, Folded
  <2>4. i - 1 \in DOMAIN chain /\ j - 1 \in DOMAIN chain
    BY <2>2, <2>3
  <2>5. i - 1 = j - 1
    BY <2>2, <2>4 DEF IInv, History, Folded
  <2> QED
    BY <2>1, <2>2, <2>3, <2>5
<1> QED
  BY <1>1, Invariance, PTL

\* A launched run has its durable event, behind the acquisition of its claim
\* and under a reservation that is charged or still open.
THEOREM CoveredLaunch == Spec => []LaunchIsCovered
<1>1. IInv => LaunchIsCovered
  <2> SUFFICES ASSUME IInv, NEW d \in Launched
               PROVE  \E i \in Events("begin_dispatch"), j \in Events("acquired") :
                        /\ j < i /\ chain[i].did = d /\ chain[j].key = d[1]
                        /\ held = <<chain[i].key, "dispatch">>
                           \/ usage[<<chain[i].key, "dispatch">>] # "none"
    BY DEF LaunchIsCovered
  <2>1. PICK i \in Events("begin_dispatch") : chain[i].did = d
    BY DEF IInv, Begun
  <2>2. /\ i \in DOMAIN chain /\ Covered(chain[i].key)
        /\ i > 1 /\ chain[i - 1].op = "acquired" /\ chain[i - 1].key = d[1]
    BY <2>1 DEF Events, IInv, History, Folded, Behind, Sound
  <2>3. i - 1 \in Events("acquired") /\ i - 1 < i
    BY <2>2 DEF Events, IInv, History, Folded
  <2> QED
    BY <2>1, <2>2, <2>3 DEF Covered
<1> QED
  BY <1>1, Invariance, PTL
=============================================================================
