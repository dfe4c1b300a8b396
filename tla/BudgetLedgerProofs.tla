------------------------- MODULE BudgetLedgerProofs -------------------------
(***************************************************************************)
(* What BudgetLedger guarantees for any number of processes, keys and      *)
(* revisions, any limits, and every death of a process.                    *)
(*                                                                         *)
(* The argument.  Whatever a dead process leaves, the records determine a  *)
(* projection (FilesAgree, LedgerAgrees) and the one on disk is behind     *)
(* them (Behind).  So a verb that has passed its first steps works on a    *)
(* projection equal to the records (InStep), and what it decides there     *)
(* still holds when it writes, because it holds the lock (InHand).         *)
(***************************************************************************)
EXTENDS BudgetLedger, FiniteSetTheorems, TLAPS

Settled == {k \in Key : evt[k] # NoRecord}

\* Nothing is charged or decided that was not reserved, the index resolves
\* every reservation, and a decision binds its charge.
FilesAgree ==
  \A k \in Key :
    /\ res[k] # NoRecord => index[k] = res[k]
    /\ evt[k] # NoRecord \/ decided[k] # NoRecord => res[k] # NoRecord
    /\ decided[k] # NoRecord /\ evt[k] # NoRecord =>
         evt[k].resolution = decided[k]

\* At most one reservation is open; it fits, and it takes the next step.
LedgerAgrees ==
  /\ ledger.count = Cardinality(Settled)
  /\ Derivable
  /\ \A k \in Open : AtMost(Plus(ledger.consumed, Reserved(res[k].op)), Limit[cur.rev])

Equals(c) ==
  /\ c.count = ledger.count /\ c.consumed = ledger.consumed
  /\ c.streak = ledger.streak

\* The projection is behind the records, never ahead of them.
Behind ==
  /\ cur.rev \in budgets
  /\ cur.receipt => receipt
  /\ cur.state = "budget_exhausted" <=> cur.receipt
  /\ cur.count <= ledger.count
  /\ cur.open # NoKey => res[cur.open] # NoRecord
  /\ cur.count = ledger.count =>
       Equals(cur) /\ (cur.open # NoKey => evt[cur.open] = NoRecord)

Listed == Open = (IF cur.open = NoKey THEN {} ELSE {cur.open})

\* Where the projection equals the records.
InStep ==
  /\ phase \in {"act", "count", "charge", "revise", "sealFirst", "adoptFirst"} =>
       Equals(cur) /\ Listed
  /\ phase \in {"act", "count", "charge", "revise", "list", "fold"} =>
       cur.receipt = receipt
  /\ phase \in {"act", "count", "charge", "revise"} =>
       receipt \/ ~Exhausted(cur, Now)
  /\ phase \in {"adoptFirst", "adopt"} => receipt

\* What the verb in progress has decided.
InHand ==
  /\ phase = "count" =>
       /\ job.key \in Key
       /\ res[job.key] = NoRecord
       /\ index[job.key] # NoRecord
       /\ index[job.key].step = cur.count + 1
       /\ Fits(index[job.key].op)
       /\ ~receipt /\ cur.open = NoKey
  /\ phase = "list" =>
       /\ job.key \in Open /\ ~receipt /\ Equals(cur)
  /\ phase = "charge" =>
       /\ job.key \in Open /\ cur.open = job.key
       /\ decided[job.key] # NoRecord /\ job.outcome \in Outcomes
  /\ phase = "fold" =>
       /\ job.key \in Settled /\ Open = {}
       /\ ledger.count = cur.count + 1
       /\ LET e == evt[job.key] IN
            /\ ledger.consumed =
                 Plus(cur.consumed, Charge(res[job.key].op, e.outcome, e.resolution))
            /\ ledger.streak = Streak(cur.streak, e.outcome)
  /\ phase = "revise" => Expected + 1 \in budgets

\* The lock has a holder while a verb is in progress, and nobody asks for a
\* revision beyond the last.
CallsAgree ==
  /\ lock = Nobody <=> phase = "free"
  /\ lock # Nobody => want[lock] # Idle
  /\ \A p \in Proc : /\ want[p].verb = "publish" => want[p].rev < MaxRev
                     /\ want[p].verb = "none" => want[p] = Idle
  /\ phase = "revise" => want[lock].verb = "publish"

IInv ==
  /\ TypeOK
  /\ FilesAgree
  /\ LedgerAgrees
  /\ Behind
  /\ InStep
  /\ InHand
  /\ CallsAgree

-----------------------------------------------------------------------------
(* Arithmetic.                                                              *)

LEMMA VectorType ==
  /\ Zero \in Vector
  /\ \A v, w \in Vector : Plus(v, w) \in Vector
  /\ \A op \in Operation : Reserved(op) \in Vector
  BY DEF Zero, Vector, Plus, Reserved, Metric

LEMMA ChargeType ==
  ASSUME NEW op \in Operation, NEW o, NEW r
  PROVE  Charge(op, o, r) \in Vector
<1>1. Derived(op, o) \in Vector
  <2>1. \A m \in Metric : Reserved(op)[m] \in Nat
    BY VectorType DEF Vector
  <2> QED
    BY <2>1, VectorType DEF Derived, Vector, Metric
<1> QED
  BY <1>1, VectorType DEF Charge

-----------------------------------------------------------------------------
(* Types.                                                                   *)

LEMMA InitType == Init => TypeOK
<1> SUFFICES ASSUME Init PROVE TypeOK
  OBVIOUS
<1>1. 0 \in Time /\ 1 \in Rev
  BY LedgerAssumption DEF Time, Rev
<1>2. Idle \in [verb : Verbs, at : Time, rev : Rev]
  BY <1>1 DEF Idle, Verbs
<1>3. cur \in [rev : Rev, state : States, count : Nat, consumed : Vector,
               streak : Nat, open : Key \cup {NoKey}, receipt : BOOLEAN, at : Time]
  BY <1>1, VectorType DEF Init, States
<1>4. ledger \in [count : Nat, consumed : Vector, streak : Nat]
  BY VectorType DEF Init
<1>5. job \in [key : Key \cup {NoKey}, outcome : Outcomes \cup {"none"}]
  BY DEF Init, NoJob
<1>6. budgets \subseteq Rev /\ phase \in Phases
  BY <1>1 DEF Init, Phases
<1> QED
  BY <1>1, <1>2, <1>3, <1>4, <1>5, <1>6 DEF Init, TypeOK

LEMMA CurType ==
  ASSUME TypeOK
  PROVE  /\ cur = [rev |-> cur.rev, state |-> cur.state, count |-> cur.count,
                   consumed |-> cur.consumed, streak |-> cur.streak,
                   open |-> cur.open, receipt |-> cur.receipt, at |-> cur.at]
         /\ cur.rev \in Rev /\ cur.state \in States /\ cur.count \in Nat
         /\ cur.consumed \in Vector /\ cur.streak \in Nat
         /\ cur.open \in Key \cup {NoKey} /\ cur.receipt \in BOOLEAN
         /\ cur.at \in Time
  BY DEF TypeOK

LEMMA TypeStep ==
  ASSUME TypeOK, FilesAgree, InHand, CallsAgree, [Next]_vars
  PROVE  TypeOK'
<1> USE DEF TypeOK, records, Goes
<1>0. CASE UNCHANGED vars
  BY <1>0 DEF vars
<1>ph. Phases = {"free", "status", "sealFirst", "adoptFirst", "act", "count",
                 "list", "charge", "fold", "seal", "adopt", "revise"}
  BY DEF Phases
<1>id. Idle \in [verb : Verbs, at : Time, rev : Rev] /\ NoJob \in
         [key : Key \cup {NoKey}, outcome : Outcomes \cup {"none"}]
  BY LedgerAssumption DEF Idle, NoJob, Verbs, Time, Rev
<1>done. ASSUME Done
         PROVE  /\ lock' \in Proc \cup {Nobody} /\ phase' \in Phases
                /\ job' \in [key : Key \cup {NoKey}, outcome : Outcomes \cup {"none"}]
                /\ want' \in [Proc -> [verb : Verbs, at : Time, rev : Rev]]
  BY <1>done, <1>ph, <1>id DEF Done
<1>1. CASE Tick
  BY <1>1, LedgerAssumption DEF Tick, Time
<1>2. ASSUME NEW p \in Proc, Take(p) PROVE TypeOK'
  BY <1>2, <1>ph DEF Take
<1>3. ASSUME NEW p \in Proc, Die(p) PROVE TypeOK'
  BY <1>3, <1>ph, <1>id DEF Die
<1>4. ASSUME NEW p \in Proc, NEW verb \in Verbs, Request(p, verb) PROVE TypeOK'
  <2>1. 0 \in Time /\ 1 \in Rev
    BY LedgerAssumption DEF Time, Rev
  <2>2. [verb |-> verb, at |-> IF verb \in SamplesEarly THEN clock ELSE 0,
         rev |-> IF verb \in {"reserve", "publish"} THEN cur.rev ELSE 1]
          \in [verb : Verbs, at : Time, rev : Rev]
    BY <2>1
  <2> QED
    BY <1>4, <2>2 DEF Request
<1> SUFFICES ASSUME Step PROVE TypeOK'
  BY <1>0, <1>1, <1>2, <1>3, <1>4 DEF Next
<1>lock. lock \in Proc /\ Now \in Time /\ Expected \in Rev
  BY DEF Step, Refuse, Agree, Repair, Seal, Adopt, Index, Count, List, Exceed,
         ReserveReturns, Observe, Decide, ChargeDecided, Fold, SettleReturns,
         Mint, Revise, ReviseReturns, RepairReturns, CallsAgree, Acting, Now, Expected
<1>st. States = {"active", "reconciliation_required", "budget_exhausted"}
  BY DEF States
<1>charge. \A o, r : \A op \in Op : Charge(op, o, r) \in Vector
  BY ChargeType, LedgerAssumption
<1>event. ASSUME NEW k \in Key, res[k] # NoRecord, NEW o \in Outcomes,
                 NEW r \in Resolution, WriteEvent(k, o, r)
          PROVE  /\ evt' \in [Key -> Event \cup {NoRecord}]
                 /\ ledger' \in [count : Nat, consumed : Vector, streak : Nat]
                 /\ stamp' \in Time /\ phase' \in Phases
  <2>1. res[k].op \in Op
    BY <1>event DEF Reservation
  <2>2. Plus(ledger.consumed, Charge(res[k].op, o, r)) \in Vector
    BY <2>1, <1>charge, VectorType
  <2>3. Streak(ledger.streak, o) \in Nat
    BY DEF Streak
  <2> QED
    BY <1>event, <2>2, <2>3, <1>lock, <1>ph DEF WriteEvent, Event
<1>5. CASE Refuse
  BY <1>5, <1>done DEF Refuse
<1>6. CASE Agree
  BY <1>6, <1>ph DEF Agree
<1>7. CASE Repair
  <2>1. cur' \in [rev : Rev, state : States, count : Nat, consumed : Vector,
                  streak : Nat, open : Key \cup {NoKey}, receipt : BOOLEAN, at : Time]
    BY <1>7, <1>lock, <1>st DEF Repair, Derive, Open, Stored
  <2> QED
    BY <1>7, <2>1, <1>ph DEF Repair
<1>8. CASE Seal
  BY <1>8, <1>ph DEF Seal
<1>9. CASE Adopt
  <2>1. phase' \in Phases /\ lock' \in Proc \cup {Nobody}
        /\ job' \in [key : Key \cup {NoKey}, outcome : Outcomes \cup {"none"}]
        /\ want' \in [Proc -> [verb : Verbs, at : Time, rev : Rev]]
    BY <1>9, <1>done, <1>ph DEF Adopt
  <2> QED
    BY <1>9, <2>1, <1>lock, <1>st DEF Adopt
<1>10. ASSUME NEW k \in Key, NEW op \in Op, Index(k, op) PROVE TypeOK'
  <2>1. [op |-> op, rev |-> cur.rev, step |-> cur.count + 1, at |-> Now] \in Reservation
    BY <1>lock DEF Reservation
  <2> QED
    BY <1>10, <2>1, <1>ph DEF Index
<1>11. CASE Count
  BY <1>11, <1>lock, <1>ph DEF Count
<1>12. CASE List
  BY <1>12, <1>done, <1>lock, <1>st DEF List
<1>13. CASE Exceed
  BY <1>13, <1>ph DEF Exceed
<1>14. CASE ReserveReturns
  BY <1>14, <1>done DEF ReserveReturns
<1>15. ASSUME NEW k \in Key, NEW o \in Outcomes, Observe(k, o) PROVE TypeOK'
  <2>1. "observed" \in Resolution /\ res[k] # NoRecord /\ WriteEvent(k, o, "observed")
    BY <1>15 DEF Observe, Chargeable, Resolves, Resolution
  <2> QED
    BY <1>15, <2>1, <1>event DEF Observe, WriteEvent
<1>16. ASSUME NEW k \in Key, NEW o \in Outcomes, NEW r \in Decision, Decide(k, o, r)
       PROVE  TypeOK'
  BY <1>16, <1>ph DEF Decide
<1>17. CASE ChargeDecided
  <2>1. /\ job.key \in Key /\ res[job.key] # NoRecord /\ job.outcome \in Outcomes
        /\ decided[job.key] \in Resolution
    BY <1>17 DEF ChargeDecided, InHand, Open, Stored, Decision
  <2> QED
    BY <1>17, <2>1, <1>event DEF ChargeDecided, WriteEvent
<1>18. CASE Fold
  <2>1. /\ evt[job.key] \in Event /\ res[job.key] # NoRecord /\ job.key \in Key
    BY <1>18 DEF Fold, InHand, Settled, FilesAgree
  <2> DEFINE e == evt[job.key]
  <2>2. res[job.key].op \in Op
    BY <2>1 DEF Reservation
  <2>3. Plus(cur.consumed, Charge(res[job.key].op, e.outcome, e.resolution)) \in Vector
    BY <2>2, <1>charge, VectorType
  <2>4. Streak(cur.streak, e.outcome) \in Nat
    BY DEF Streak
  <2>5. cur' \in [rev : Rev, state : States, count : Nat, consumed : Vector,
                  streak : Nat, open : Key \cup {NoKey}, receipt : BOOLEAN, at : Time]
    <3> DEFINE c == Plus(cur.consumed, Charge(res[job.key].op, e.outcome, e.resolution))
               n == Streak(cur.streak, e.outcome)
    <3>1. cur' = [cur EXCEPT
            !.state = IF receipt THEN "budget_exhausted" ELSE "active",
            !.consumed = c, !.streak = n, !.open = NoKey, !.count = cur.count + 1,
            !.at = Now]
      BY <1>18 DEF Fold
    <3>2. c \in Vector /\ n \in Nat /\ cur.count + 1 \in Nat
      BY <2>3, <2>4
    <3> HIDE DEF c, n, e
    <3> QED
      BY <3>1, <3>2, <1>lock, <1>st
  <2>6. /\ phase' \in Phases /\ lock' \in Proc \cup {Nobody}
        /\ job' \in [key : Key \cup {NoKey}, outcome : Outcomes \cup {"none"}]
        /\ want' \in [Proc -> [verb : Verbs, at : Time, rev : Rev]]
    BY <1>18, <1>done, <1>ph DEF Fold
  <2> QED
    BY <1>18, <2>5, <2>6 DEF Fold
<1>19. CASE SettleReturns
  BY <1>19, <1>done DEF SettleReturns
<1>20. CASE Mint
  <2>1. Expected + 1 \in Rev
    BY <1>20, <1>lock, LedgerAssumption DEF Mint, Acting, CallsAgree, Expected, Rev
  <2> QED
    BY <1>20, <2>1, <1>ph DEF Mint
<1>21. CASE Revise
  <2>1. Expected + 1 \in Rev
    BY <1>21 DEF Revise, InHand
  <2> QED
    BY <1>21, <2>1, <1>done, <1>lock, <1>st DEF Revise
<1>22. CASE ReviseReturns
  BY <1>22, <1>done DEF ReviseReturns
<1>23. CASE RepairReturns
  BY <1>23, <1>done DEF RepairReturns
<1> QED
  BY <1>5, <1>6, <1>7, <1>8, <1>9, <1>10, <1>11, <1>12, <1>13, <1>14, <1>15,
     <1>16, <1>17, <1>18, <1>19, <1>20, <1>21, <1>22, <1>23 DEF Step

-----------------------------------------------------------------------------
(* The records.                                                             *)

(* The steps that write a reservation, its index, an event or a decision.   *)
LEMMA Writers ==
  ASSUME [Next]_vars
  PROVE  \/ UNCHANGED <<res, index, evt, ledger, decided>>
         \/ \E k \in Key, op \in Op : Index(k, op)
         \/ Count
         \/ \E k \in Key, o \in Outcomes : Observe(k, o)
         \/ \E k \in Key, o \in Outcomes, r \in Decision : Decide(k, o, r)
         \/ ChargeDecided
  BY DEF Next, Step, vars, records, Tick, Take, Die, Request, Refuse, Agree, Repair,
         Seal, Adopt, List, Exceed, ReserveReturns, Fold, SettleReturns, Mint,
         Revise, ReviseReturns, RepairReturns

(* The steps that replace the projection.                                   *)
LEMMA Projections ==
  ASSUME [Next]_vars
  PROVE  UNCHANGED cur \/ Repair \/ Adopt \/ List \/ Fold \/ Revise
  BY DEF Next, Step, vars, records, Tick, Take, Die, Request, Refuse, Agree, Seal,
         Index, Count, Exceed, ReserveReturns, Observe, Decide, ChargeDecided,
         WriteEvent, SettleReturns, Mint, ReviseReturns, RepairReturns

LEMMA RevStep ==
  ASSUME TypeOK, [Next]_vars
  PROVE  cur'.rev = cur.rev \/ Revise
<1>1. cur'.rev = cur.rev \/ Adopt \/ List \/ Fold \/ Revise
  BY Projections DEF Repair, Derive
<1>2. Adopt \/ List => cur'.rev = cur.rev
  BY CurType DEF Adopt, List
<1>3. Fold => cur'.rev = cur.rev
  BY CurType, SMTT(30) DEF Fold
<1> QED
  BY <1>1, <1>2, <1>3

(* Every event is written for the one open reservation, under the decision  *)
(* that binds it.                                                           *)
LEMMA EventStep ==
  ASSUME IInv,
         (\E k \in Key, o \in Outcomes : Observe(k, o)) \/ ChargeDecided
  PROVE  \E k \in Key, o \in Outcomes, r \in Resolution :
           /\ WriteEvent(k, o, r)
           /\ job' = [job EXCEPT !.key = k]
           /\ res[k] # NoRecord /\ evt[k] = NoRecord
           /\ decided[k] # NoRecord => decided[k] = r
           /\ cur.open = k
           /\ Equals(cur) /\ Listed /\ cur.receipt = receipt
<1>1. ASSUME NEW k \in Key, NEW o \in Outcomes, Observe(k, o)
      PROVE  /\ "observed" \in Resolution
             /\ WriteEvent(k, o, "observed")
             /\ job' = [job EXCEPT !.key = k]
             /\ res[k] # NoRecord /\ evt[k] = NoRecord
             /\ decided[k] # NoRecord => decided[k] = "observed"
             /\ cur.open = k
             /\ Equals(cur) /\ Listed /\ cur.receipt = receipt
  BY <1>1 DEF Observe, Chargeable, Resolves, Resolution, IInv, InStep, Acting
<1>2. CASE ChargeDecided
  <2>1. /\ job.key \in Key /\ job.outcome \in Outcomes
        /\ decided[job.key] \in Resolution
        /\ WriteEvent(job.key, job.outcome, decided[job.key])
        /\ job' = [job EXCEPT !.key = job.key]
        /\ res[job.key] # NoRecord /\ evt[job.key] = NoRecord
        /\ cur.open = job.key
        /\ Equals(cur) /\ Listed /\ cur.receipt = receipt
    BY <1>2 DEF ChargeDecided, IInv, InHand, InStep, Open, Stored, TypeOK, Decision
  <2> QED
    BY <2>1
<1> QED
  BY <1>1, <1>2

LEMMA FilesStep ==
  ASSUME IInv, [Next]_vars
  PROVE  FilesAgree'
<1> USE DEF IInv, FilesAgree
<1>1. CASE UNCHANGED <<res, index, evt, ledger, decided>>
  BY <1>1
<1>2. ASSUME NEW k \in Key, NEW op \in Op, Index(k, op) PROVE FilesAgree'
  BY <1>2 DEF Index, TypeOK
<1>3. CASE Count
  BY <1>3 DEF Count, InHand, TypeOK
<1>4. CASE (\E k \in Key, o \in Outcomes : Observe(k, o)) \/ ChargeDecided
  <2> PICK k \in Key, o \in Outcomes, r \in Resolution :
        /\ WriteEvent(k, o, r) /\ res[k] # NoRecord
        /\ decided[k] # NoRecord => decided[k] = r
    BY <1>4, EventStep
  <2> QED
    BY DEF WriteEvent, TypeOK
<1>5. ASSUME NEW k \in Key, NEW o \in Outcomes, NEW r \in Decision, Decide(k, o, r)
      PROVE  FilesAgree'
  BY <1>5 DEF Decide, Chargeable, Resolves, TypeOK
<1> QED
  BY <1>1, <1>2, <1>3, <1>4, <1>5, Writers

LEMMA SettledFinite ==
  /\ IsFiniteSet(Settled) /\ Cardinality(Settled) \in Nat
  /\ IsFiniteSet(Stored) /\ Cardinality(Stored) \in Nat
<1>1. Settled \subseteq Key /\ Stored \subseteq Key
  BY DEF Settled, Stored
<1> QED
  BY <1>1, FS_Subset, FS_CardinalityType, LedgerAssumption

LEMMA LedgerStep ==
  ASSUME IInv, [Next]_vars
  PROVE  LedgerAgrees'
<1> USE DEF IInv, LedgerAgrees
<1>rev. cur'.rev = cur.rev \/ Revise
  BY RevStep
<1>1. CASE UNCHANGED <<res, index, evt, ledger, decided>> /\ cur'.rev = cur.rev
  BY <1>1 DEF Settled, Derivable, Open, Stored
<1>2. CASE UNCHANGED <<res, index, evt, ledger, decided>> /\ Revise
  <2>1. Open = {}
    BY <1>2 DEF Revise, InStep, Listed, Superseding
  <2>2. Open' = {}
    BY <2>1, <1>2 DEF Open, Stored
  <2> QED
    BY <1>2, <2>2 DEF Settled, Derivable
<1>3. ASSUME NEW k \in Key, NEW op \in Op, Index(k, op) PROVE LedgerAgrees'
  BY <1>3 DEF Index, Settled, Derivable, Open, Stored
<1>4. CASE Count
  <2>1. Open = {} /\ evt[job.key] = NoRecord /\ Equals(cur)
    BY <1>4 DEF Count, InHand, InStep, Listed, FilesAgree, Open, Stored
  <2>2. \A k \in Open' : k = job.key /\ res'[k] = index[job.key]
    BY <1>4, <2>1 DEF Count, InHand, Open, Stored, TypeOK
  <2>3. AtMost(Plus(ledger.consumed, Reserved(index[job.key].op)), Limit[cur.rev])
    BY <1>4, <2>1 DEF Count, InHand, Fits, Equals
  <2>4. index[job.key].step = ledger.count + 1
    BY <1>4, <2>1 DEF Count, InHand, Equals
  <2> QED
    BY <1>4, <2>2, <2>3, <2>4 DEF Count, Derivable, Settled
<1>5. CASE (\E k \in Key, o \in Outcomes : Observe(k, o)) \/ ChargeDecided
  <2> PICK k \in Key, o \in Outcomes, r \in Resolution :
        /\ WriteEvent(k, o, r) /\ res[k] # NoRecord /\ evt[k] = NoRecord
    BY <1>5, EventStep
  <2>1. [outcome |-> o, resolution |-> r] # NoRecord
    BY LedgerAssumption DEF Event
  <2>2. Settled' = Settled \cup {k}
    BY <2>1 DEF WriteEvent, Settled, TypeOK
  <2>3. Open' = {}
    BY <2>1 DEF WriteEvent, Derivable, Open, Stored, TypeOK
  <2>4. Cardinality(Settled') = Cardinality(Settled) + 1
    BY <2>2, SettledFinite, FS_AddElement DEF Settled
  <2> QED
    BY <2>3, <2>4 DEF WriteEvent, Derivable
<1>6. ASSUME NEW k \in Key, NEW o \in Outcomes, NEW r \in Decision, Decide(k, o, r)
      PROVE  LedgerAgrees'
  BY <1>6 DEF Decide, Settled, Derivable, Open, Stored
<1> QED
  BY <1>1, <1>2, <1>3, <1>4, <1>5, <1>6, <1>rev, Writers

-----------------------------------------------------------------------------
(* The projection, and the verb in progress.                                *)

(* Whoever does not hold the lock changes nothing the holder relies on.      *)
LEMMA Elsewhere ==
  ASSUME IInv,
         \/ UNCHANGED vars \/ Tick
         \/ \E p \in Proc : Take(p) \/ Die(p)
         \/ \E p \in Proc, verb \in Verbs : Request(p, verb)
  PROVE  /\ UNCHANGED <<records, cur>>
         /\ \/ phase' \in {"free", "status"}
            \/ UNCHANGED <<lock, phase, job>> /\ want'[lock] = want[lock]
<1> USE DEF IInv, TypeOK, CallsAgree, records
<1>1. CASE UNCHANGED vars \/ Tick
  BY <1>1 DEF vars, Tick
<1>2. ASSUME NEW p \in Proc, Take(p)
      PROVE  UNCHANGED <<records, cur>> /\ phase' = "status"
  BY <1>2 DEF Take
<1>3. ASSUME NEW p \in Proc, Die(p)
      PROVE  /\ UNCHANGED <<records, cur>>
             /\ \/ phase' = "free"
                \/ UNCHANGED <<lock, phase, job>> /\ want'[lock] = want[lock]
  BY <1>3 DEF Die
<1>4. ASSUME NEW p \in Proc, NEW verb \in Verbs, Request(p, verb)
      PROVE  /\ UNCHANGED <<records, cur>>
             /\ \/ phase' = "free"
                \/ UNCHANGED <<lock, phase, job>> /\ want'[lock] = want[lock]
  BY <1>4 DEF Request
<1> QED
  BY <1>1, <1>2, <1>3, <1>4

(* Records are never taken back.                                            *)
LEMMA Grows ==
  ASSUME [Next]_vars
  PROVE  budgets \subseteq budgets' /\ (receipt => receipt')
  BY DEF Next, Step, vars, records, Tick, Take, Die, Request, Refuse, Agree, Repair,
         Seal, Adopt, Index, Count, List, Exceed, ReserveReturns, Observe, Decide,
         ChargeDecided, WriteEvent, Fold, SettleReturns, Mint, Revise, ReviseReturns,
         RepairReturns

LEMMA BehindStep ==
  ASSUME IInv, [Next]_vars
  PROVE  Behind'
<1> USE DEF IInv, Behind, Equals
<1>0. CASE UNCHANGED cur
  <2>1. CASE UNCHANGED <<res, index, evt, ledger, decided>>
    BY <1>0, <2>1, Grows
  <2>2. ASSUME NEW k \in Key, NEW op \in Op, Index(k, op) PROVE Behind'
    BY <1>0, <2>2, Grows DEF Index
  <2>3. CASE Count
    BY <1>0, <2>3, Grows DEF Count, InHand, TypeOK
  <2>4. CASE (\E k \in Key, o \in Outcomes : Observe(k, o)) \/ ChargeDecided
    <3> PICK k \in Key, o \in Outcomes, r \in Resolution : WriteEvent(k, o, r)
      BY <2>4, EventStep
    <3>1. ledger'.count = ledger.count + 1 /\ ledger.count \in Nat /\ cur.count \in Nat
      BY DEF WriteEvent, TypeOK
    <3>2. UNCHANGED res
      BY DEF WriteEvent
    <3> QED
      BY <1>0, <3>1, <3>2, Grows
  <2>5. ASSUME NEW k \in Key, NEW o \in Outcomes, NEW r \in Decision, Decide(k, o, r)
        PROVE  Behind'
    BY <1>0, <2>5, Grows DEF Decide
  <2> QED
    BY <2>1, <2>2, <2>3, <2>4, <2>5, Writers
<1>1. CASE Repair
  <2>1. cur' = Derive(cur, Now) /\ UNCHANGED records
    BY <1>1 DEF Repair
  <2>2. Open # {} => (CHOOSE k \in Open : TRUE) \in Open
    OBVIOUS
  <2>3. cur'.open # NoKey => cur'.open \in Open
    BY <2>1, <2>2 DEF Derive
  <2>4. ledger.count \in Nat
    BY DEF TypeOK
  <2> QED
    BY <2>1, <2>3, <2>4 DEF Derive, records, Open, Stored
<1>2. CASE Adopt
  BY <1>2, CurType DEF Adopt, InStep, records
<1>3. CASE List
  BY <1>3, CurType DEF List, InHand, Open, Stored, records
<1>4. CASE Fold
  <2> DEFINE e == evt[job.key]
             v == Plus(cur.consumed, Charge(res[job.key].op, e.outcome, e.resolution))
             n == Streak(cur.streak, e.outcome)
  <2>1. UNCHANGED records
    BY <1>4 DEF Fold
  <2>2. cur' = [cur EXCEPT
          !.state = IF receipt THEN "budget_exhausted" ELSE "active",
          !.consumed = v, !.streak = n, !.open = NoKey, !.count = cur.count + 1, !.at = Now]
    BY <1>4 DEF Fold
  <2>3. ledger.count = cur.count + 1 /\ ledger.consumed = v /\ ledger.streak = n
    BY <1>4 DEF Fold, InHand
  <2>4. cur.receipt = receipt
    BY <1>4 DEF Fold, InStep
  <2>5. ledger.count \in Nat
    BY DEF TypeOK
  <2> HIDE DEF v, n
  <2> QED
    BY <2>1, <2>2, <2>3, <2>4, <2>5, CurType DEF records
<1>5. CASE Revise
  BY <1>5, CurType DEF Revise, InHand, records, Superseding
<1> QED
  BY <1>0, <1>1, <1>2, <1>3, <1>4, <1>5, Projections

(* A projection that has all events counts every reservation but the open one. *)
LEMMA AgreeLists ==
  ASSUME IInv, ~Drifted(cur, Now)
  PROVE  Equals(cur) /\ Listed /\ cur.receipt = receipt
<1> USE DEF IInv
<1>1. cur.count = ledger.count /\ cur.receipt = receipt
  BY DEF Drifted, Behind, TypeOK
<1>2. Equals(cur)
  BY <1>1 DEF Behind
<1>3. CASE cur.open = NoKey
  <2>1. Cardinality(Stored) <= Cardinality(Settled)
    BY <1>3, SettledFinite DEF Drifted, LedgerAgrees
  <2>2. Settled \subseteq Stored
    BY DEF FilesAgree, Settled, Stored
  <2>3. Settled = Stored
    BY <2>1, <2>2, SettledFinite, FS_Subset
  <2>4. Open = {}
    BY <2>3 DEF Open, Settled, Stored
  <2> QED
    BY <1>1, <1>2, <1>3, <2>4 DEF Listed
<1>4. CASE cur.open # NoKey
  <2>1. cur.open \in Open
    BY <1>1, <1>4 DEF Behind, Open, Stored, TypeOK
  <2>2. Open = {cur.open}
    BY <2>1 DEF LedgerAgrees, Derivable
  <2> QED
    BY <1>1, <1>2, <1>4, <2>2 DEF Listed
<1> QED
  BY <1>3, <1>4

LEMMA InStepStep ==
  ASSUME IInv, [Next]_vars
  PROVE  InStep'
<1> USE DEF IInv, InStep, Equals, Goes, Now
<1>same. ASSUME UNCHANGED <<cur, res, evt, ledger>>
         PROVE  Equals(cur)' = Equals(cur) /\ Listed' = Listed
  BY <1>same DEF Listed, Open, Stored
<1>0. CASE \/ UNCHANGED vars \/ Tick
           \/ \E p \in Proc : Take(p) \/ Die(p)
           \/ \E p \in Proc, verb \in Verbs : Request(p, verb)
  BY <1>0, Elsewhere, <1>same DEF records, Exhausted
<1>1. CASE Done
  BY <1>1 DEF Done
<1>2. CASE Agree
  BY <1>2, <1>same, AgreeLists DEF Agree, records, Exhausted, Drifted
<1>3. CASE Repair
  <2>1. cur' = Derive(cur, Now) /\ UNCHANGED <<records, want, lock>>
        /\ phase' = (IF ~receipt /\ Exhausted(cur', Now) THEN "sealFirst" ELSE "act")
    BY <1>3 DEF Repair
  <2>2. Open' = Open /\ receipt' = receipt
    BY <2>1 DEF records, Open, Stored
  <2>3. Open # {} => Open = {CHOOSE k \in Open : TRUE}
    BY DEF LedgerAgrees, Derivable
  <2>4. (CHOOSE k \in Open : TRUE) # NoKey \/ Open = {}
    BY LedgerAssumption DEF Open, Stored
  <2>5. Listed'
    BY <2>1, <2>2, <2>3, <2>4 DEF Derive, Listed
  <2>6. Equals(cur)' /\ cur'.receipt = receipt'
    BY <2>1, <2>2 DEF Derive, records
  <2>7. Exhausted(cur, Now)' = Exhausted(cur', Now)
    BY <2>1 DEF Exhausted
  <2> QED
    BY <2>1, <2>2, <2>5, <2>6, <2>7
<1>4. CASE Seal
  BY <1>4, <1>same DEF Seal
<1>5. CASE Adopt /\ phase = "adoptFirst"
  <2>1. /\ cur'.count = cur.count /\ cur'.consumed = cur.consumed
        /\ cur'.streak = cur.streak /\ cur'.open = cur.open /\ cur'.receipt = TRUE
    BY <1>5, CurType DEF Adopt
  <2>2. UNCHANGED records /\ phase' = "act"
    BY <1>5 DEF Adopt
  <2>3. Equals(cur)' /\ Listed' /\ receipt'
    BY <1>5, <2>1, <2>2 DEF records, Listed, Open, Stored
  <2> QED
    BY <2>1, <2>2, <2>3
<1>6. ASSUME NEW k \in Key, NEW op \in Op, Index(k, op) PROVE InStep'
  BY <1>6, <1>same DEF Index, Acting, Exhausted
<1>7. CASE Count
  BY <1>7 DEF Count
<1>8. CASE Exceed
  BY <1>8 DEF Exceed
<1>9. CASE (\E k \in Key, o \in Outcomes : Observe(k, o)) \/ ChargeDecided
  <2> PICK k \in Key, o \in Outcomes, r \in Resolution :
        WriteEvent(k, o, r) /\ cur.receipt = receipt
    BY <1>9, EventStep
  <2> QED
    BY DEF WriteEvent
<1>10. ASSUME NEW k \in Key, NEW o \in Outcomes, NEW r \in Decision, Decide(k, o, r)
       PROVE  InStep'
  BY <1>10, <1>same DEF Decide, Acting, Exhausted
<1>11. CASE Fold /\ ~Done
  BY <1>11 DEF Fold
<1>12. CASE Mint
  BY <1>12, <1>same DEF Mint, Acting, Exhausted
<1> QED
  BY <1>0, <1>1, <1>2, <1>3, <1>4, <1>5, <1>6, <1>7, <1>8, <1>9, <1>10, <1>11, <1>12
  DEF Next, Step, Refuse, Adopt, List, ReserveReturns, SettleReturns, Revise,
      ReviseReturns, RepairReturns

LEMMA InHandStep ==
  ASSUME IInv, [Next]_vars
  PROVE  InHand'
<1> USE DEF IInv, InHand, Goes
<1>0. CASE \/ UNCHANGED vars \/ Tick
           \/ \E p \in Proc : Take(p) \/ Die(p)
           \/ \E p \in Proc, verb \in Verbs : Request(p, verb)
  <2>1. CASE phase' \in {"free", "status"}
    BY <2>1
  <2>2. CASE UNCHANGED <<records, cur, lock, phase, job>> /\ want'[lock] = want[lock]
    BY <2>2 DEF records, Open, Stored, Settled, Equals, Fits, Expected
  <2> QED
    BY <1>0, <2>1, <2>2, Elsewhere
<1>1. CASE phase' \in {"free", "act", "sealFirst", "adoptFirst", "seal", "adopt"}
  BY <1>1
<1>2. ASSUME NEW k \in Key, NEW op \in Op, Index(k, op) PROVE InHand'
  <2>1. /\ phase' = "count" /\ job'.key = k /\ UNCHANGED <<res, cur, receipt>>
        /\ res[k] = NoRecord /\ Fits(op) /\ cur.open = NoKey
    BY <1>2 DEF Index, Admissible, TypeOK
  <2>2. index'[k] = [op |-> op, rev |-> cur.rev, step |-> cur.count + 1, at |-> Now]
        /\ index'[k] \in Reservation
    <3>1. [op |-> op, rev |-> cur.rev, step |-> cur.count + 1, at |-> Now] \in Reservation
      BY <1>2 DEF Index, Acting, Now, CallsAgree, TypeOK, Reservation
    <3> QED
      BY <1>2, <3>1 DEF Index, TypeOK
  <2>3. ~receipt
    BY <1>2 DEF Index, Acting, Admissible, InStep, Behind
  <2>4. index'[k] # NoRecord
    BY <2>2, LedgerAssumption
  <2> QED
    BY <2>1, <2>2, <2>3, <2>4 DEF Fits
<1>3. CASE Count
  <2>1. evt[job.key] = NoRecord
    BY <1>3 DEF Count, FilesAgree
  <2>2. job.key \in Open'
    BY <1>3, <2>1 DEF Count, Open, Stored, TypeOK
  <2>3. Equals(cur)
    BY <1>3 DEF Count, InStep
  <2> QED
    BY <1>3, <2>2, <2>3 DEF Count, Equals
<1>4. CASE (\E k \in Key, o \in Outcomes : Observe(k, o)) \/ ChargeDecided
  <2> PICK k \in Key, o \in Outcomes, r \in Resolution :
        /\ WriteEvent(k, o, r) /\ job' = [job EXCEPT !.key = k]
        /\ res[k] # NoRecord /\ cur.open = k /\ Equals(cur) /\ Listed
    BY <1>4, EventStep
  <2>1. [outcome |-> o, resolution |-> r] # NoRecord
    BY LedgerAssumption DEF Event
  <2>2. /\ job'.key = k /\ evt'[k] = [outcome |-> o, resolution |-> r]
        /\ UNCHANGED <<res, cur>> /\ phase' = "fold"
    BY DEF WriteEvent, TypeOK
  <2>3. k \in Settled'
    BY <2>1, <2>2 DEF Settled
  <2>4. Open' = {}
    BY <2>1 DEF WriteEvent, Listed, Open, Stored, TypeOK
  <2>5. /\ ledger'.count = cur.count + 1
        /\ ledger'.consumed = Plus(cur.consumed, Charge(res[k].op, o, r))
        /\ ledger'.streak = Streak(cur.streak, o)
    BY DEF WriteEvent, Equals
  <2> QED
    BY <2>2, <2>3, <2>4, <2>5
<1>5. ASSUME NEW k \in Key, NEW o \in Outcomes, NEW r \in Decision, Decide(k, o, r)
      PROVE  InHand'
  BY <1>5, LedgerAssumption DEF Decide, Chargeable, Resolves, Open, Stored, TypeOK
<1>6. CASE Mint
  BY <1>6 DEF Mint, Expected
<1> QED
  BY <1>0, <1>1, <1>2, <1>3, <1>4, <1>5, <1>6
  DEF Next, Step, Refuse, Agree, Repair, Seal, Adopt, List, Exceed, ReserveReturns,
      Fold, SettleReturns, Revise, ReviseReturns, RepairReturns, Done

LEMMA CallsStep ==
  ASSUME IInv, [Next]_vars
  PROVE  CallsAgree'
<1> USE DEF IInv, CallsAgree, TypeOK, Goes
<1>id. Idle.verb # "publish"
  BY DEF Idle
<1>0. CASE UNCHANGED vars \/ Tick
  BY <1>0 DEF vars, Tick
<1>1. ASSUME NEW p \in Proc, Take(p) PROVE CallsAgree'
  BY <1>1, LedgerAssumption DEF Take, Idle
<1>2. ASSUME NEW p \in Proc, Die(p) PROVE CallsAgree'
  BY <1>2, <1>id DEF Die
<1>3. ASSUME NEW p \in Proc, NEW verb \in Verbs \ {"none"}, Request(p, verb)
      PROVE  CallsAgree'
  BY <1>3 DEF Request
<1>4. CASE Done
  BY <1>4, <1>id DEF Done
<1>5. CASE UNCHANGED <<lock, want>> /\ phase' \notin {"free", "revise"} /\ phase # "free"
  BY <1>5
<1>6. CASE Mint
  BY <1>6 DEF Mint, Acting
<1> QED
  BY <1>0, <1>1, <1>2, <1>3, <1>4, <1>5, <1>6
  DEF Next, Step, Refuse, Agree, Repair, Seal, Adopt, Index, Count, List, Exceed,
      ReserveReturns, Observe, Decide, ChargeDecided, WriteEvent, Fold,
      SettleReturns, Revise, ReviseReturns, RepairReturns, Acting

-----------------------------------------------------------------------------
(* The invariant and what follows from it.                                  *)

LEMMA InitIInv == Init => IInv
<1> SUFFICES ASSUME Init PROVE IInv
  OBVIOUS
<1>1. /\ \A k \in Key : res[k] = NoRecord /\ evt[k] = NoRecord /\ decided[k] = NoRecord
      /\ Settled = {} /\ Open = {}
  BY DEF Init, Settled, Open, Stored
<1>2. FilesAgree
  BY <1>1 DEF FilesAgree
<1>3. LedgerAgrees
  BY <1>1, FS_EmptySet DEF Init, LedgerAgrees, Derivable
<1>4. Behind
  BY LedgerAssumption DEF Init, Behind, Equals
<1>5. InStep /\ InHand
  BY DEF Init, InStep, InHand
<1>6. CallsAgree
  BY LedgerAssumption DEF Init, CallsAgree, Idle
<1> QED
  BY <1>2, <1>3, <1>4, <1>5, <1>6, InitType DEF IInv

LEMMA Invariance == Spec => []IInv
<1>1. IInv /\ [Next]_vars => IInv'
  BY TypeStep, FilesStep, LedgerStep, BehindStep, InStepStep, InHandStep, CallsStep DEF IInv
<1> QED
  BY <1>1, InitIInv, PTL DEF Spec

(* The variables keep their types: no verb writes a record or a projection  *)
(* that another could not read.                                             *)
THEOREM TypeCorrect == Spec => []TypeOK
<1>1. IInv => TypeOK
  BY DEF IInv
<1> QED
  BY <1>1, Invariance, PTL

(* Whenever a process dies, the projection it leaves is supported by the     *)
(* records and the records determine the projection that replaces it.        *)
THEOREM RecordsSuffice == Spec => []NeverCorrupt
<1>1. IInv => NeverCorrupt
  <2> SUFFICES ASSUME IInv PROVE ~Corrupt(cur)
    BY DEF NeverCorrupt, IInv, LedgerAgrees
  <2>1. cur.rev \in budgets /\ (cur.receipt => receipt) /\ ~(ledger.count < cur.count)
    BY DEF IInv, Behind, TypeOK
  <2>2. ~(Cardinality(Stored) < ledger.count)
    <3>1. Settled \subseteq Stored
      BY DEF IInv, FilesAgree, Settled, Stored
    <3> QED
      BY <3>1, SettledFinite, FS_Subset DEF IInv, LedgerAgrees
  <2>3. \A k \in Key : evt[k] # NoRecord \/ decided[k] # NoRecord \/ k = cur.open => Resolves(k)
    BY LedgerAssumption DEF IInv, FilesAgree, Behind, Resolves
  <2> QED
    BY <2>1, <2>2, <2>3 DEF Corrupt
<1> QED
  BY <1>1, Invariance, PTL

(* A verb that has passed its first steps decides on a projection equal to   *)
(* the records.                                                              *)
THEOREM TruthBeforeDecision == Spec => []DecidesOnTruth
<1>1. IInv => DecidesOnTruth
  BY DEF IInv, InStep, Equals, Listed, Behind, DecidesOnTruth
<1> QED
  BY <1>1, Invariance, PTL

(* The charge of a reconciled reservation is the one that was decided.       *)
THEOREM DecisionIsKept == Spec => []DecisionBinds
<1>1. IInv => DecisionBinds
  BY DEF IInv, FilesAgree, DecisionBinds
<1> QED
  BY <1>1, Invariance, PTL

-----------------------------------------------------------------------------
(* The abstract budget.                                                     *)

Hold == IF Open = {} THEN NoRecord ELSE res[CHOOSE k \in Open : TRUE].op

(* The abstract budget counts as the ledger does.                           *)
LEMMA SameFits ==
  \A op : Service!Fits(op) = AtMost(Plus(ledger.consumed, Reserved(op)), Limit[cur.rev])
  BY DEF Service!Fits, Service!AtMost, AtMost, Service!Plus, Plus, Service!Metric, Metric,
         Service!Reserved, Reserved, Service!Attempts, Attempts, Service!Retries, Retries

LEMMA SameCharge ==
  \A op, o, r : Plus(ledger.consumed, Charge(op, o, r)) =
                Service!Plus(ledger.consumed, Service!Charge(op, o, r))
  BY DEF Service!Plus, Plus, Service!Metric, Metric, Service!Reserved, Reserved,
         Service!Attempts, Attempts, Service!Retries, Retries, Service!Charge, Charge,
         Service!Derived, Derived, Service!Zero, Zero, Service!Progressed, Progressed,
         Service!Failed, Failed

(* All an admitted operation might still cost fits the budget in force.      *)
THEOREM LimitsHold == Spec => []WithinLimits
<1>1. IInv => WithinLimits
  <2> SUFFICES ASSUME IInv PROVE WithinLimits
    OBVIOUS
  <2>1. Open # {} => (CHOOSE k \in Open : TRUE) \in Open
    OBVIOUS
  <2>2. Open # {} => AtMost(Plus(ledger.consumed, Reserved(Hold)), Limit[cur.rev])
    BY <2>1 DEF IInv, LedgerAgrees, Hold
  <2> QED
    BY <2>2, SameFits DEF WithinLimits, Service!WithinLimits, Hold
<1> QED
  BY <1>1, Invariance, PTL

(* Every step of every verb is a step of the abstract budget or none: what   *)
(* is on disk decides, whoever dies where.                                   *)
THEOREM LedgerImplementsBudget == Spec => ImplementsBudget
<1>0. Init => Service!Init
  <2>1. Service!Zero = Zero
    BY DEF Service!Zero, Zero, Service!Metric, Metric
  <2>2. Init => Open = {}
    BY DEF Init, Open, Stored
  <2> QED
    BY <2>1, <2>2 DEF Init, Service!Init
<1>1. IInv /\ [Next]_vars => [Service!Next]_Service!vars
  <2> SUFFICES ASSUME IInv, [Next]_vars
               PROVE  Service!Next \/ UNCHANGED <<cur.rev, ledger.consumed, Hold, receipt>>
    BY DEF Service!vars, Hold
  <2>hold. ASSUME NEW k \in Open PROVE Open = {k} /\ Hold = res[k].op /\ res[k].op # NoRecord
    BY LedgerAssumption DEF IInv, LedgerAgrees, Derivable, Open, Stored, Hold, TypeOK, Reservation
  <2>rev. cur'.rev = cur.rev \/ Revise
    BY RevStep DEF IInv
  <2>1. CASE Count
    <3> DEFINE op == index[job.key].op
    <3>1. Open = {} /\ ~receipt /\ Fits(op) /\ Equals(cur) /\ op \in Op
      BY <2>1 DEF Count, IInv, InHand, InStep, Listed, TypeOK, Reservation
    <3>2. Open' = {job.key} /\ res'[job.key].op = op
      BY <2>1, <3>1 DEF Count, IInv, InHand, Open, Stored, FilesAgree, TypeOK
    <3>3. Hold = NoRecord /\ Hold' = op
      BY <3>1, <3>2 DEF Hold
    <3>4. Service!Fits(op)
      BY <3>1, SameFits DEF Fits, Equals
    <3>5. UNCHANGED <<cur.rev, ledger.consumed, receipt>>
      BY <2>1 DEF Count
    <3> HIDE DEF op
    <3>6. Service!Admit(op)
      BY <3>1, <3>3, <3>4, <3>5 DEF Service!Admit, Hold
    <3> QED
      BY <3>1, <3>6 DEF Service!Next
  <2>2. CASE (\E k \in Key, o \in Outcomes : Observe(k, o)) \/ ChargeDecided
    <3> PICK k \in Key, o \in Outcomes, r \in Resolution :
          WriteEvent(k, o, r) /\ res[k] # NoRecord /\ evt[k] = NoRecord
      BY <2>2, EventStep
    <3>1. k \in Open
      BY DEF Open, Stored
    <3>2. Hold = res[k].op /\ Hold # NoRecord
      BY <3>1, <2>hold
    <3>3. Open' = {}
      <4>1. [outcome |-> o, resolution |-> r] # NoRecord
        BY LedgerAssumption DEF Event
      <4> QED
        BY <4>1, <3>1, <2>hold DEF WriteEvent, Open, Stored, IInv, TypeOK
    <3>4. /\ UNCHANGED <<cur, receipt>>
          /\ ledger'.consumed = Plus(ledger.consumed, Charge(Hold, o, r))
      BY <3>2 DEF WriteEvent
    <3>5. o \in Service!Outcome /\ r \in Service!Resolution
      BY LedgerAssumption DEF Service!Outcome, Outcome, Service!Resolution, Resolution
    <3>6. Service!Settle
      BY <3>2, <3>3, <3>4, <3>5, SameCharge DEF Service!Settle, Hold
    <3> QED
      BY <3>6 DEF Service!Next
  <2>3. CASE Seal
    <3>1. UNCHANGED <<cur, ledger, Hold>> /\ receipt'
      BY <2>3 DEF Seal, Hold, Open, Stored
    <3>2. Service!Stop \/ UNCHANGED receipt
      BY <3>1, <2>3 DEF Service!Stop, Hold, Seal, IInv, TypeOK
    <3> QED
      BY <3>1, <3>2 DEF Service!Next
  <2>4. CASE Revise
    <3>1. Open = {} /\ ~receipt
      BY <2>4 DEF Revise, Superseding, IInv, InStep, Listed
    <3>2. UNCHANGED <<ledger, receipt, Hold>>
      BY <2>4 DEF Revise, records, Hold, Open, Stored
    <3>3. cur'.rev = cur.rev + 1 /\ cur.rev + 1 \in Rev
      BY <2>4, CurType DEF Revise, Superseding, IInv, InHand, TypeOK
    <3>4. Service!Revise
      BY <3>1, <3>2, <3>3 DEF Service!Revise, Hold
    <3> QED
      BY <3>4 DEF Service!Next
  <2>5. CASE UNCHANGED <<res, index, evt, ledger, decided>> /\ cur'.rev = cur.rev /\ ~Seal
    <3>1. UNCHANGED Hold
      BY <2>5 DEF Hold, Open, Stored
    <3>2. UNCHANGED receipt
      BY <2>5 DEF Next, Step, vars, records, Tick, Take, Die, Request, Refuse, Agree,
         Repair, Adopt, Index, Count, List, Exceed, ReserveReturns, Observe, Decide,
         ChargeDecided, WriteEvent, Fold, SettleReturns, Mint, Revise, ReviseReturns,
         RepairReturns
    <3> QED
      BY <2>5, <3>1, <3>2
  <2>6. ASSUME NEW k \in Key, NEW op \in Op, Index(k, op)
        PROVE  UNCHANGED <<cur.rev, ledger.consumed, Hold, receipt>>
    BY <2>6 DEF Index, Hold, Open, Stored
  <2>7. ASSUME NEW k \in Key, NEW o \in Outcomes, NEW r \in Decision, Decide(k, o, r)
        PROVE  UNCHANGED <<cur.rev, ledger.consumed, Hold, receipt>>
    BY <2>7 DEF Decide, Hold, Open, Stored
  <2> QED
    BY <2>1, <2>2, <2>3, <2>4, <2>5, <2>6, <2>7, <2>rev, Writers
<1> QED
  BY <1>0, <1>1, Invariance, PTL DEF Spec, ImplementsBudget, Service!Spec
=============================================================================
