--------------------------- MODULE DirLockProofs ---------------------------
(***************************************************************************)
(* What DirLock guarantees for any number of processes, tokens and         *)
(* directory identities, in both reclamation modes, with every crash, I/O  *)
(* failure and process id reuse.                                           *)
(*                                                                         *)
(* The argument.  A published token stays in the directory until its own   *)
(* process unlinks it (TokPinned): a contender unlinks only the token it   *)
(* judged dead, which no live process can have published since             *)
(* (NoLiveReap).  So a process that finds its token alone in the directory *)
(* is alone in the critical section.  What is on disk when everybody is     *)
(* quiet needs more: who keeps the path at each moment (Kempt, below).      *)
(***************************************************************************)
EXTENDS DirLock, TLAPS

(* Every value a variable takes is one TypeOK names.                       *)
THEOREM TypeCorrect == Spec => []TypeOK
<1>1. Init => TypeOK
  BY ConstAssumption DEF Init, TypeOK, PC, Result
<1>2. TypeOK /\ [Next]_vars => TypeOK'
  <2> SUFFICES ASSUME TypeOK, [Next]_vars PROVE TypeOK'
    OBVIOUS
  <2> USE DEF TypeOK, disk, own, seen, Goto, ForgetSeen
  <2>0. CASE UNCHANGED vars
    BY <2>0 DEF vars
  <2> SUFFICES ASSUME NEW p \in Proc,
                      Begin(p) \/ Step(p) \/ Expire(p) \/ Crash(p) \/ Revive(p)
               PROVE  TypeOK'
    BY <2>0 DEF Next
  <2>pc. PC = {"write", "check", "held", "run", "unlink", "mkdir", "lstat",
               "readdir", "judge", "reap", "recheckEmpty", "rmReclaimed", "wait",
               "identify", "open", "idle", "rmCheck", "rmOwn", "dead"}
    BY DEF PC, Publishing, Acquiring
  <2>re. Result = {"none", "release", "lost", "error"}
    BY DEF Result
  <2>fin. ASSUME Finish(p)
          PROVE  /\ pc' \in [Proc -> PC]
                 /\ tok' \in [Proc -> Token \cup {NoToken}]
                 /\ ident' \in [Proc -> Inode \cup {NoDir}]
                 /\ expired' \in [Proc -> BOOLEAN]
                 /\ result' \in [Proc -> Result]
    BY <2>fin, <2>pc, <2>re DEF Finish
  <2>1. CASE Begin(p)
    BY <2>1, <2>pc, <2>re DEF Begin
  <2>2. CASE Mkdir(p)
    BY <2>2, <2>pc DEF Mkdir
  <2>3. CASE Lstat(p)
    BY <2>3, <2>pc DEF Lstat
  <2>4. CASE Readdir(p)
    BY <2>4, <2>pc DEF Readdir
  <2>5. CASE Judge(p)
    BY <2>5, <2>pc DEF Judge
  <2>6. CASE Reap(p)
    BY <2>6, <2>pc DEF Reap
  <2>7. CASE RecheckEmpty(p)
    BY <2>7, <2>pc DEF RecheckEmpty
  <2>8. CASE RmdirReclaimed(p)
    BY <2>8, <2>pc DEF RmdirReclaimed
  <2>9. CASE Wait(p)
    BY <2>9, <2>pc DEF Wait
  <2>10. CASE Identify(p)
    BY <2>10, <2>pc, <2>re DEF Identify
  <2>11. CASE Open(p)
    BY <2>11, <2>pc, <2>re DEF Open
  <2>12. CASE Write(p)
    BY <2>12, <2>pc, <2>re DEF Write
  <2>13. CASE Check(p)
    BY <2>13, <2>pc, <2>re DEF Check
  <2>14. CASE AssertOwned(p)
    BY <2>14, <2>pc, <2>re DEF AssertOwned
  <2>15. CASE Release(p)
    BY <2>15, <2>pc, <2>re DEF Release
  <2>16. CASE UnlinkOwn(p)
    BY <2>16, <2>fin, <2>pc DEF UnlinkOwn
  <2>17. CASE RmCheck(p)
    BY <2>17, <2>fin, <2>pc DEF RmCheck
  <2>18. CASE RmOwn(p)
    BY <2>18, <2>fin DEF RmOwn
  <2>19. CASE Expire(p)
    BY <2>19 DEF Expire
  <2>20. CASE Crash(p)
    BY <2>20, <2>pc, <2>re DEF Crash
  <2>21. CASE Revive(p)
    BY <2>21, <2>pc DEF Revive
  <2> QED
    BY <2>1, <2>2, <2>3, <2>4, <2>5, <2>6, <2>7, <2>8, <2>9, <2>10, <2>11, <2>12,
       <2>13, <2>14, <2>15, <2>16, <2>17, <2>18, <2>19, <2>20, <2>21
       DEF Step, Contend, Create, Handle
<1> QED
  BY <1>1, <1>2, PTL DEF Spec

-----------------------------------------------------------------------------
(* Mutual exclusion.                                                       *)

\* A process that relies on a token finds it on disk, under its own name.
TokPinned ==
  \A p \in Proc : Relies(p) => tok[p] \in entries /\ OwnerPid(tok[p]) = p

\* A contender about to unlink a token has one that nobody relies on.
NoLiveReap ==
  \A r, p \in Proc : pc[r] = "reap" /\ Relies(p) => seenTok[r] # tok[p]

IInv == TypeOK /\ TokPinned /\ NoLiveReap /\ MutualExclusion

LEMMA InitIInv == Init => IInv
BY ConstAssumption
DEF Init, IInv, TypeOK, PC, Result, TokPinned, NoLiveReap, MutualExclusion,
    Relies, InSection, Publishing

\* Among the processes, whoever finds its own token alone in the directory is
\* the only one relying on a token.
LEMMA Exclusive ==
  ASSUME IInv, NEW p \in Proc, Relies(p), OwnsExclusiveToken(p),
         NEW q \in Proc, Relies(q)
  PROVE  p = q
BY DEF IInv, TokPinned, OwnsExclusiveToken

LEMMA NextIInv == IInv /\ TypeOK' /\ [Next]_vars => IInv'
<1> SUFFICES ASSUME IInv, TypeOK', [Next]_vars PROVE IInv'
  OBVIOUS
<1> USE DEF disk, own, seen, Goto
<1>0. CASE UNCHANGED vars
  BY <1>0 DEF vars, IInv, TypeOK, TokPinned, NoLiveReap, MutualExclusion, Relies,
     InSection, OwnerPid
<1> SUFFICES ASSUME NEW p \in Proc,
                    Begin(p) \/ Step(p) \/ Expire(p) \/ Crash(p) \/ Revive(p)
             PROVE  TokPinned' /\ NoLiveReap' /\ MutualExclusion'
  BY <1>0 DEF Next, IInv
<1> USE DEF Relies, InSection, Publishing
\* A step that touches neither the disk nor a token and does not enter the
\* publishing points keeps everything.
<1>keep. ASSUME entries' = entries, tok' = tok,
                \A q \in Proc : pc'[q] = "reap" =>
                   pc[q] = "reap" /\ seenTok'[q] = seenTok[q],
                \A q \in Proc : Relies(q)' => Relies(q),
                \A q \in Proc : InSection(q)' => InSection(q)
         PROVE  TokPinned' /\ NoLiveReap' /\ MutualExclusion'
  <2>1. TokPinned'
    BY <1>keep DEF IInv, TokPinned, OwnerPid
  <2>2. NoLiveReap'
    BY <1>keep DEF IInv, NoLiveReap
  <2>3. MutualExclusion'
    BY <1>keep DEF IInv, MutualExclusion
  <2> QED
    BY <2>1, <2>2, <2>3
<1>1. CASE Begin(p)
  BY <1>1, <1>keep DEF Begin, IInv, TypeOK
<1>2. CASE Mkdir(p)
  BY <1>2, <1>keep DEF Mkdir, IInv, TypeOK
<1>3. CASE Lstat(p)
  BY <1>3, <1>keep DEF Lstat, IInv, TypeOK
<1>4. CASE Readdir(p)
  BY <1>4, <1>keep DEF Readdir, IInv, TypeOK, ForgetSeen
<1>5. CASE Judge(p)
  <2>1. CASE pc'[p] = "reap"
    <3>1. /\ seenTok[p] \in entries
          /\ ~Alive(OwnerPid(seenTok[p]))
          /\ pc' = [pc EXCEPT ![p] = "reap"]
          /\ UNCHANGED <<entries, tok, seenTok>>
      BY <1>5, <2>1 DEF Judge, IInv, TypeOK
    <3>2. ASSUME NEW q \in Proc, Relies(q)
          PROVE  seenTok[p] # tok[q]
      BY <3>1, <3>2 DEF IInv, TypeOK, TokPinned, Alive
    <3>3. NoLiveReap'
      BY <3>1, <3>2 DEF IInv, TypeOK, NoLiveReap
    <3>4. TokPinned' /\ MutualExclusion'
      BY <3>1 DEF IInv, TypeOK, TokPinned, MutualExclusion, OwnerPid
    <3> QED
      BY <3>3, <3>4
  <2>2. CASE pc'[p] # "reap"
    BY <1>5, <2>2, <1>keep DEF Judge, IInv, TypeOK, ForgetSeen
  <2> QED
    BY <2>1, <2>2
<1>6. CASE Reap(p)
  <2>1. /\ tok' = tok
        /\ pc[p] = "reap"
        /\ \A q \in Proc : Relies(q)' => Relies(q)
        /\ \A q \in Proc : InSection(q)' => InSection(q)
        /\ \A q \in Proc : pc'[q] = "reap" =>
              q # p /\ pc[q] = "reap" /\ seenTok'[q] = seenTok[q]
        /\ entries \ {seenTok[p]} \subseteq entries'
    BY <1>6 DEF Reap, IInv, TypeOK, ForgetSeen
  <2>2. TokPinned'
    BY <2>1 DEF IInv, TokPinned, NoLiveReap, OwnerPid
  <2>3. NoLiveReap' /\ MutualExclusion'
    BY <2>1 DEF IInv, NoLiveReap, MutualExclusion
  <2> QED
    BY <2>2, <2>3
<1>7. CASE RecheckEmpty(p)
  BY <1>7, <1>keep DEF RecheckEmpty, IInv, TypeOK, ForgetSeen
<1>8. CASE RmdirReclaimed(p)
  BY <1>8, <1>keep DEF RmdirReclaimed, IInv, TypeOK
<1>9. CASE Wait(p)
  BY <1>9, <1>keep DEF Wait, IInv, TypeOK
<1>10. CASE Identify(p)
  BY <1>10, <1>keep DEF Identify, IInv, TypeOK
<1>11. CASE Open(p)
  <2>1. CASE pc'[p] = "write"
    <3>1. PICK t \in Token : FreshToken(p, t) /\ entries' = entries \cup {t}
                               /\ tok' = [tok EXCEPT ![p] = t]
      BY <1>11, <2>1 DEF Open, IInv, TypeOK
    <3>2. pc' = [pc EXCEPT ![p] = "write"] /\ pc[p] = "open" /\ seenTok' = seenTok
      BY <1>11, <2>1 DEF Open, IInv, TypeOK
    <3>3. TokPinned'
      BY <3>1, <3>2 DEF FreshToken, IInv, TypeOK, TokPinned, OwnerPid
    <3>4. NoLiveReap'
      <4> SUFFICES ASSUME NEW r \in Proc, NEW q \in Proc, pc'[r] = "reap", Relies(q)'
                   PROVE  seenTok'[r] # tok'[q]
        BY DEF NoLiveReap
      <4>1. pc[r] = "reap" /\ seenTok[r] # t
        BY <3>1, <3>2 DEF FreshToken, IInv, TypeOK
      <4>2. CASE q = p
        BY <3>1, <3>2, <4>1, <4>2 DEF IInv, TypeOK
      <4>3. CASE q # p
        BY <3>1, <3>2, <4>1, <4>3 DEF IInv, TypeOK, NoLiveReap
      <4> QED
        BY <4>2, <4>3
    <3>5. MutualExclusion'
      BY <3>2 DEF IInv, TypeOK, MutualExclusion
    <3> QED
      BY <3>3, <3>4, <3>5
  <2>2. CASE pc'[p] # "write"
    BY <1>11, <2>2, <1>keep DEF Open, IInv, TypeOK
  <2> QED
    BY <2>1, <2>2
<1>12. CASE Write(p)
  BY <1>12, <1>keep DEF Write, IInv, TypeOK
<1>13. CASE Check(p)
  <2>1. CASE OwnsExclusiveToken(p)
    <3>1. /\ pc[p] = "check" /\ pc' = [pc EXCEPT ![p] = "held"]
          /\ UNCHANGED <<entries, tok, seenTok>>
      BY <1>13, <2>1 DEF Check
    <3>2. \A q \in Proc : Relies(q) => q = p
      BY <2>1, <3>1, Exclusive
    <3>3. MutualExclusion'
      BY <3>1, <3>2 DEF IInv, TypeOK, MutualExclusion
    <3>4. TokPinned' /\ NoLiveReap'
      BY <3>1 DEF IInv, TypeOK, TokPinned, NoLiveReap, OwnerPid
    <3> QED
      BY <3>3, <3>4
  <2>2. CASE ~OwnsExclusiveToken(p)
    BY <1>13, <2>2, <1>keep DEF Check, IInv, TypeOK
  <2> QED
    BY <2>1, <2>2
<1>14. CASE AssertOwned(p)
  BY <1>14, <1>keep DEF AssertOwned, IInv, TypeOK
<1>15. CASE Release(p)
  BY <1>15, <1>keep DEF Release, IInv, TypeOK
\* Finish leaves p outside the publishing points.
<1>fin. ASSUME Finish(p), seenTok' = seenTok,
               \A t \in entries : t \notin entries' => t = tok[p] /\ pc[p] = "unlink"
        PROVE  TokPinned' /\ NoLiveReap' /\ MutualExclusion'
  <2>1. /\ ~Relies(p)' /\ pc'[p] # "reap"
        /\ \A q \in Proc : q # p => pc'[q] = pc[q] /\ tok'[q] = tok[q]
    BY <1>fin DEF Finish, IInv, TypeOK
  <2>2. TokPinned'
    BY <1>fin, <2>1 DEF IInv, TokPinned, OwnerPid
  <2>3. NoLiveReap' /\ MutualExclusion'
    BY <1>fin, <2>1 DEF IInv, NoLiveReap, MutualExclusion
  <2> QED
    BY <2>2, <2>3
<1>16. CASE UnlinkOwn(p)
  <2>1. CASE dir = ident[p] /\ tok[p] \in entries
    <3>1. /\ pc[p] = "unlink" /\ pc' = [pc EXCEPT ![p] = "rmCheck"]
          /\ tok' = [tok EXCEPT ![p] = NoToken] /\ seenTok' = seenTok
          /\ entries' = entries \ {tok[p]}
      BY <1>16, <2>1 DEF UnlinkOwn
    <3>2. TokPinned'
      BY <3>1 DEF IInv, TypeOK, TokPinned, OwnerPid
    <3>3. NoLiveReap' /\ MutualExclusion'
      BY <3>1 DEF IInv, TypeOK, NoLiveReap, MutualExclusion
    <3> QED
      BY <3>2, <3>3
  <2>2. CASE ~(dir = ident[p] /\ tok[p] \in entries)
    BY <1>16, <2>2, <1>fin DEF UnlinkOwn
  <2> QED
    BY <2>1, <2>2
<1>17. CASE RmCheck(p)
  <2>1. CASE dir = ident[p]
    BY <1>17, <2>1, <1>keep DEF RmCheck, IInv, TypeOK
  <2>2. CASE dir # ident[p]
    BY <1>17, <2>2, <1>fin DEF RmCheck
  <2> QED
    BY <2>1, <2>2
<1>18. CASE RmOwn(p)
  BY <1>18, <1>fin DEF RmOwn
<1>19. CASE Expire(p)
  BY <1>19, <1>keep DEF Expire, IInv, TypeOK
<1>20. CASE Crash(p)
  <2>1. /\ pc'[p] = "dead" /\ entries' = entries
        /\ \A q \in Proc : q # p =>
              pc'[q] = pc[q] /\ tok'[q] = tok[q] /\ seenTok'[q] = seenTok[q]
    BY <1>20 DEF Crash, ForgetSeen, IInv, TypeOK
  <2>2. TokPinned'
    BY <2>1 DEF IInv, TokPinned, OwnerPid
  <2>3. NoLiveReap' /\ MutualExclusion'
    BY <2>1 DEF IInv, NoLiveReap, MutualExclusion
  <2> QED
    BY <2>2, <2>3
<1>21. CASE Revive(p)
  BY <1>21, <1>keep DEF Revive, IInv, TypeOK
<1> QED
  BY <1>1, <1>2, <1>3, <1>4, <1>5, <1>6, <1>7, <1>8, <1>9, <1>10, <1>11, <1>12,
     <1>13, <1>14, <1>15, <1>16, <1>17, <1>18, <1>19, <1>20, <1>21
     DEF Step, Contend, Create, Handle

LEMMA Invariant == Spec => []IInv
<1>1. Init => IInv
  BY InitIInv
<1>2. IInv /\ TypeOK' /\ [Next]_vars => IInv'
  BY NextIInv
<1> QED
  BY <1>1, <1>2, TypeCorrect, PTL DEF Spec

(* No two processes are ever between the check that elected them and their *)
(* release, in any of the modes acquireExclusiveDirectoryLock has.         *)
THEOREM Mutex == Spec => []MutualExclusion
<1>1. IInv => MutualExclusion
  BY DEF IInv
<1> QED
  BY <1>1, Invariant, PTL

-----------------------------------------------------------------------------
(* As long as somebody relies on a token only its own process unlinks it:  *)
(* reclaimStaleLockDirectory never takes a lock away from a live owner.    *)
THEOREM OwnerUnlinks == Spec => OnlyOwnerUnlinks
<1> DEFINE Kept == \A p \in Proc :
      Relies(p) /\ tok[p] \in entries /\ tok[p] \notin entries' => pc[p] = "unlink"
<1>1. IInv /\ [Next]_vars => [Kept]_vars
  <2> SUFFICES ASSUME IInv, [Next]_vars,
                      NEW p \in Proc, Relies(p), tok[p] \in entries, tok[p] \notin entries'
               PROVE  pc[p] = "unlink"
    OBVIOUS
  <2>1. PICK q \in Proc : Reap(q) \/ UnlinkOwn(q)
    BY DEF Next, Step, Contend, Create, Handle, vars, disk, Begin, Mkdir, Lstat,
       Readdir, Judge, RecheckEmpty, RmdirReclaimed, Wait, Identify, Open, Write,
       Check, AssertOwned, Release, RmCheck, RmOwn, Expire, Crash, Revive
  <2>2. ~Reap(q)
    BY DEF Reap, IInv, NoLiveReap
  <2>3. UnlinkOwn(q) /\ tok[q] = tok[p]
    BY <2>1, <2>2 DEF UnlinkOwn
  <2>4. q = p
    BY <2>3 DEF IInv, TokPinned, UnlinkOwn, Relies, Publishing
  <2> QED
    BY <2>3, <2>4 DEF UnlinkOwn
<1>2. QED
  BY <1>1, Invariant, PTL DEF Spec, OnlyOwnerUnlinks

-----------------------------------------------------------------------------
(* The protocol implements the atomic lock that its callers assume.        *)

\* While somebody is in the section the refinement mapping names it.
LEMMA HolderIs ==
  ASSUME MutualExclusion, NEW p \in Proc, InSection(p)
  PROVE  holder = p
BY DEF MutualExclusion, holder

LEMMA HolderNobody ==
  ASSUME \A p \in Proc : ~InSection(p)
  PROVE  holder = Nobody
BY DEF holder

THEOREM Refinement == Spec => ImplementsService
<1>1. Init => Service!Init
  BY DEF Init, InSection, holder, Service!Init
<1>2. IInv /\ IInv' /\ [Next]_vars => [Service!Next]_holder
  <2> SUFFICES ASSUME IInv, IInv', [Next]_vars, holder' # holder
               PROVE  Service!Next
    OBVIOUS
  <2>0. MutualExclusion /\ MutualExclusion'
    BY DEF IInv
  <2> USE DEF InSection
  <2>1. PICK p \in Proc : \A q \in Proc : q # p => pc'[q] = pc[q]
    <3>1. CASE UNCHANGED vars
      BY <3>1 DEF vars, holder
    <3>2. CASE Next
      BY <3>2 DEF Next, Step, Contend, Create, Handle, Begin, Mkdir, Lstat,
         Readdir, Judge, Reap, RecheckEmpty, RmdirReclaimed, Wait, Identify, Open,
         Write, Check, AssertOwned, Release, UnlinkOwn, RmCheck, RmOwn, Expire,
         Crash, Revive, Goto, Finish, IInv, TypeOK
    <3> QED
      BY <3>1, <3>2
  <2>2. CASE InSection(p) /\ InSection(p)'
    <3>1. holder = p
      BY <2>0, <2>2, HolderIs
    <3>2. holder' = p
      BY <2>0, <2>2 DEF MutualExclusion, holder
    <3> QED
      BY <3>1, <3>2
  <2>3. CASE ~InSection(p) /\ InSection(p)'
    <3>1. \A q \in Proc : ~InSection(q)
      BY <2>0, <2>1, <2>3 DEF MutualExclusion
    <3>2. holder = Nobody
      BY <3>1, HolderNobody
    <3>3. holder' = p
      BY <2>0, <2>3 DEF MutualExclusion, holder
    <3> QED
      BY <3>2, <3>3 DEF Service!Next, Service!Enter
  <2>4. CASE InSection(p) /\ ~InSection(p)'
    <3>1. \A q \in Proc : ~InSection(q)'
      BY <2>0, <2>1, <2>4 DEF MutualExclusion
    <3>2. holder' = Nobody
      BY <3>1 DEF holder
    <3>3. holder = p
      BY <2>0, <2>4, HolderIs
    <3> QED
      BY <3>2, <3>3 DEF Service!Next, Service!Leave
  <2>5. CASE ~InSection(p) /\ ~InSection(p)'
    <3>1. \A q \in Proc : InSection(q) <=> InSection(q)'
      BY <2>1, <2>5
    <3> QED
      BY <2>0, <3>1 DEF holder, MutualExclusion
  <2> QED
    BY <2>2, <2>3, <2>4, <2>5
<1> QED
  BY <1>1, <1>2, Invariant, PTL DEF Spec, ImplementsService, Service!Spec
-----------------------------------------------------------------------------
(* What is left when everybody is quiet.  Without the opt-in for empty      *)
(* directories the path has one keeper at a time: from the mkdir to the     *)
(* rmdir its creator, from the unlink of a dead owner's token to the rmdir  *)
(* the contender that reaped it.  A keeper that dies where it has a token   *)
(* on disk leaves that token, and nothing else, for Reap.                   *)

Clearing == {"identify", "open", "rmCheck", "rmOwn", "rmReclaimed"}
Keeps(p) == Relies(p) \/ pc[p] \in Clearing

\* What a keeper has on disk.
Kept(p) ==
  /\ dir # NoDir
  /\ pc[p] \notin {"identify", "rmReclaimed"} => dir = ident[p]
  /\ entries = IF Relies(p) THEN {tok[p]} ELSE {}

\* What is on disk when nobody keeps it.
Nothing == dir = NoDir /\ entries = {}
Remains == dir # NoDir /\ \E t \in Token : entries = {t} /\ ~Alive(OwnerPid(t))

Kempt ==
  /\ \A p \in Proc : pc[p] # "recheckEmpty"
  /\ \A p, q \in Proc : Keeps(p) /\ Keeps(q) => p = q
  /\ \A p \in Proc : Keeps(p) => Kept(p)
  /\ (\A p \in Proc : ~Keeps(p)) => Nothing \/ Remains

\* One process moves; what the others are and have stays.
LEMMA OneMoves ==
  ASSUME TypeOK, NEW p \in Proc,
         Begin(p) \/ Step(p) \/ Expire(p) \/ Crash(p) \/ Revive(p)
  PROVE  \A q \in Proc \ {p} :
           pc'[q] = pc[q] /\ tok'[q] = tok[q] /\ ident'[q] = ident[q]
BY DEF Step, Contend, Create, Handle, Begin, Mkdir, Lstat, Readdir, Judge, Reap,
   RecheckEmpty, RmdirReclaimed, Wait, Identify, Open, Write, Check, AssertOwned,
   Release, UnlinkOwn, RmCheck, RmOwn, Expire, Crash, Revive, Goto, Finish, TypeOK,
   own

\* A step that leaves the disk alone and keeps its process a keeper, or not one.
LEMMA StaysKempt ==
  ASSUME Kempt, NEW p \in Proc, UNCHANGED <<dir, entries, tok>>,
         pc'[p] # "recheckEmpty", pc[p] # "dead", Relies(p)' <=> Relies(p),
         pc'[p] \in Clearing <=> pc[p] \in Clearing,
         pc'[p] \notin {"identify", "rmReclaimed"} /\ Keeps(p)' => dir = ident'[p],
         \A q \in Proc \ {p} : pc'[q] = pc[q] /\ ident'[q] = ident[q]
  PROVE  Kempt'
<1>1. \A q \in Proc : (Relies(q)' <=> Relies(q)) /\ (Keeps(q)' <=> Keeps(q))
  BY DEF Relies, Keeps
<1>2. ASSUME NEW q \in Proc, Keeps(q)' PROVE Kept(q)'
  BY <1>1, <1>2 DEF Kempt, Kept
<1>3. ASSUME Remains PROVE Remains'
  <2>1. dir # NoDir /\ \E t \in Token : entries = {t} /\ ~Alive(OwnerPid(t))
    BY <1>3 DEF Remains
  <2>2. PICK t \in Token : entries = {t} /\ ~Alive(OwnerPid(t))
    BY <2>1
  <2>3. OwnerPid(t) \in Proc /\ OwnerPid(t) # p
    BY <2>2 DEF Token, OwnerPid, Alive
  <2> QED
    BY <2>1, <2>2, <2>3 DEF Remains, Alive, OwnerPid
<1> QED
  BY <1>1, <1>2, <1>3 DEF Kempt, Nothing

\* A step that takes the path up, or puts it down.
LEMMA TakesUp ==
  ASSUME Kempt, NEW p \in Proc, \A q \in Proc : ~Keeps(q), Kept(p)', Keeps(p)',
         \A q \in Proc \ {p} : pc'[q] = pc[q], pc'[p] # "recheckEmpty"
  PROVE  Kempt'
<1>1. \A q \in Proc : Keeps(q)' <=> q = p
  BY DEF Keeps, Relies
<1>2. \A q \in Proc : pc'[q] # "recheckEmpty"
  BY DEF Kempt
<1> QED
  BY <1>1, <1>2 DEF Kempt

LEMMA PutsDown ==
  ASSUME Kempt, NEW p \in Proc, Keeps(p), ~Keeps(p)', Nothing' \/ Remains',
         \A q \in Proc \ {p} : pc'[q] = pc[q], pc'[p] # "recheckEmpty"
  PROVE  Kempt'
<1>1. \A q \in Proc : ~Keeps(q)'
  BY DEF Kempt, Keeps, Relies
<1>2. \A q \in Proc : pc'[q] # "recheckEmpty"
  BY DEF Kempt
<1> QED
  BY <1>1, <1>2 DEF Kempt

\* A keeper goes on under another heading.
LEMMA GoesOn ==
  ASSUME Kempt, NEW p \in Proc, Keeps(p), Keeps(p)', Kept(p)',
         \A q \in Proc \ {p} : pc'[q] = pc[q], pc'[p] # "recheckEmpty"
  PROVE  Kempt'
<1>1. \A q \in Proc : Keeps(q)' <=> q = p
  BY DEF Kempt, Keeps, Relies
<1>2. \A q \in Proc : pc'[q] # "recheckEmpty"
  BY DEF Kempt
<1> QED
  BY <1>1, <1>2 DEF Kempt

Recoverable ==
  /\ ~ReclaimEmpty
  /\ ~PidReuse
  /\ CrashPoints \cap Clearing = {}

LEMMA KemptStep ==
  ASSUME Recoverable, IInv, Kempt, [Next]_vars
  PROVE  Kempt'
<1> USE DEF disk, own, seen, Goto, Relies, Publishing, Clearing
<1>0. CASE UNCHANGED vars
  BY <1>0 DEF vars, Kempt, Keeps, Kept, Nothing, Remains, Alive, OwnerPid
<1> SUFFICES ASSUME NEW p \in Proc,
                    Begin(p) \/ Step(p) \/ Expire(p) \/ Crash(p) \/ Revive(p)
             PROVE  Kempt'
  BY <1>0 DEF Next
<1>ty. /\ pc \in [Proc -> PC] /\ tok \in [Proc -> Token \cup {NoToken}]
       /\ ident \in [Proc -> Inode \cup {NoDir}] /\ NoDir \notin Inode
       /\ pc[p] # "recheckEmpty"
  BY ConstAssumption DEF IInv, TypeOK, Kempt
<1>ot. \A q \in Proc \ {p} : pc'[q] = pc[q] /\ tok'[q] = tok[q] /\ ident'[q] = ident[q]
  BY OneMoves DEF IInv
<1>ke. Keeps(p) => Kept(p)
  BY DEF Kempt
<1>fin. ASSUME Finish(p) PROVE pc'[p] \in {"mkdir", "idle"} /\ ~Keeps(p)'
  BY <1>fin, <1>ty DEF Finish, Keeps
<1>1. CASE Begin(p)
  BY <1>1, <1>ty, <1>ot, StaysKempt DEF Begin, Keeps
<1>2. CASE Mkdir(p)
  <2>1. CASE dir = NoDir
    <3>1. pc'[p] = "identify" /\ dir' # NoDir /\ entries' = entries
      BY <1>2, <2>1, <1>ty DEF Mkdir
    <3>2. \A q \in Proc : ~Keeps(q)
      BY <2>1 DEF Kempt, Kept
    <3>3. entries = {}
      BY <3>2, <2>1 DEF Kempt, Nothing, Remains
    <3> QED
      BY <3>1, <3>2, <3>3, <1>ot, TakesUp DEF Keeps, Kept
  <2>2. CASE dir # NoDir
    BY <1>2, <2>2, <1>ty, <1>ot, StaysKempt DEF Mkdir, Keeps
  <2> QED
    BY <2>1, <2>2
<1>3. CASE Lstat(p)
  BY <1>3, <1>ty, <1>ot, StaysKempt DEF Lstat, Keeps
<1>4. CASE Readdir(p)
  BY <1>4, <1>ty, <1>ot, StaysKempt DEF Readdir, Keeps, Recoverable
<1>5. CASE Judge(p)
  BY <1>5, <1>ty, <1>ot, StaysKempt DEF Judge, Keeps
<1>6. CASE Reap(p)
  <2>1. CASE dir = seenDir[p] /\ seenTok[p] \in entries
    <3>1. pc[p] = "reap" /\ pc'[p] = "rmReclaimed" /\ dir' = dir
          /\ entries' = entries \ {seenTok[p]}
      BY <1>6, <2>1, <1>ty DEF Reap
    \* The reaped token is nobody's, so it is what a dead owner left.
    <3>2. \A q \in Proc : ~Keeps(q)
      BY <2>1, <3>1 DEF Kempt, Kept, Keeps, IInv, NoLiveReap
    <3>3. Remains
      BY <3>2, <2>1 DEF Kempt, Nothing
    <3>4. entries' = {}
      BY <3>1, <3>3, <2>1 DEF Remains
    <3>5. dir # NoDir
      BY <3>3 DEF Remains
    <3> QED
      BY <3>1, <3>2, <3>4, <3>5, <1>ot, TakesUp DEF Keeps, Kept
  <2>2. CASE ~(dir = seenDir[p] /\ seenTok[p] \in entries)
    BY <1>6, <2>2, <1>ty, <1>ot, StaysKempt DEF Reap, Keeps
  <2> QED
    BY <2>1, <2>2
<1>7. CASE RecheckEmpty(p)
  BY <1>7, <1>ty DEF RecheckEmpty
<1>8. CASE RmdirReclaimed(p)
  <2>1. pc[p] = "rmReclaimed" /\ pc'[p] = "wait" /\ entries' = {} /\ dir' = NoDir
    BY <1>8, <1>ty, <1>ke DEF RmdirReclaimed, Keeps, Kept
  <2> QED
    BY <2>1, <1>ot, PutsDown DEF Keeps, Nothing
<1>9. CASE Wait(p)
  BY <1>9, <1>ty, <1>ot, StaysKempt DEF Wait, Keeps
<1>10. CASE Identify(p)
  <2>1. pc[p] = "identify" /\ Kept(p) /\ Keeps(p)
    BY <1>10, <1>ke DEF Identify, Keeps
  <2>2. pc'[p] = "open" /\ ident'[p] = dir /\ UNCHANGED <<dir, entries>>
    BY <1>10, <2>1, <1>ty DEF Identify, Kept
  <2> QED
    BY <2>1, <2>2, <1>ot, GoesOn DEF Keeps, Kept
<1>11. CASE Open(p)
  <2>1. pc[p] = "open" /\ Kept(p) /\ Keeps(p) /\ UNCHANGED <<dir, ident>>
    BY <1>11, <1>ke DEF Open, Keeps
  <2>2. \/ pc'[p] = "rmCheck" /\ entries' = entries
        \/ pc'[p] = "write" /\ \E t \in Token : entries' = entries \cup {t} /\ tok'[p] = t
    BY <1>11, <1>ty DEF Open
  <2> QED
    BY <2>1, <2>2, <1>ot, GoesOn DEF Keeps, Kept
<1>12. CASE Write(p)
  BY <1>12, <1>ty, <1>ot, <1>ke, StaysKempt DEF Write, Keeps, Kept
<1>13. CASE Check(p)
  BY <1>13, <1>ty, <1>ot, <1>ke, StaysKempt DEF Check, Keeps, Kept
<1>14. CASE AssertOwned(p)
  BY <1>14, <1>ty, <1>ot, <1>ke, StaysKempt DEF AssertOwned, Keeps, Kept
<1>15. CASE Release(p)
  BY <1>15, <1>ty, <1>ot, <1>ke, StaysKempt DEF Release, Keeps, Kept
<1>16. CASE UnlinkOwn(p)
  <2>1. pc[p] = "unlink" /\ Kept(p) /\ Keeps(p)
    BY <1>16, <1>ke DEF UnlinkOwn, Keeps
  <2>2. pc'[p] = "rmCheck" /\ UNCHANGED <<dir, ident>> /\ entries' = {}
    BY <1>16, <2>1, <1>ty DEF UnlinkOwn, Kept
  <2> QED
    BY <2>1, <2>2, <1>ot, GoesOn DEF Keeps, Kept
<1>17. CASE RmCheck(p)
  BY <1>17, <1>ty, <1>ot, <1>ke, StaysKempt DEF RmCheck, Keeps, Kept
<1>18. CASE RmOwn(p)
  <2>1. pc[p] = "rmOwn" /\ entries' = {} /\ dir' = NoDir /\ Finish(p)
    BY <1>18, <1>ke DEF RmOwn, Keeps, Kept
  <2> QED
    BY <2>1, <1>fin, <1>ot, PutsDown DEF Keeps, Nothing
<1>19. CASE Expire(p)
  <2>1. CASE pc[p] = "dead"
    BY <1>19, <2>1 DEF Expire, Kempt, Keeps, Kept, Nothing, Remains, Alive, OwnerPid
  <2>2. CASE pc[p] # "dead"
    BY <1>19, <2>2, <1>ty, <1>ot, <1>ke, StaysKempt DEF Expire, Keeps, Kept
  <2> QED
    BY <2>1, <2>2
<1>20. CASE Crash(p)
  <2>1. /\ pc[p] \notin Clearing /\ pc[p] \in PC \ {"idle", "dead"}
        /\ pc'[p] = "dead" /\ UNCHANGED <<dir, entries>>
    BY <1>20, <1>ty, ConstAssumption DEF Crash, Recoverable
  \* The token of a process that relied on it bears its name.
  <2>2. CASE Relies(p)
    <3>1. /\ dir # NoDir /\ entries = {tok[p]}
          /\ tok[p] \in Token /\ OwnerPid(tok[p]) = p
      BY <2>2, <1>ke DEF IInv, TypeOK, TokPinned, Keeps, Kept
    <3>2. Remains'
      BY <3>1, <2>1 DEF Remains, Alive, OwnerPid
    <3> QED
      BY <2>1, <2>2, <3>2, <1>ot, PutsDown DEF Keeps
  <2>3. CASE ~Relies(p)
    <3>1. \A q \in Proc : Relies(q)' <=> Relies(q)
      BY <2>1, <2>3, <1>ot
    <3>2. \A q \in Proc : Keeps(q)' <=> Keeps(q)
      BY <2>1, <2>3, <3>1, <1>ot DEF Keeps
    <3>3. ASSUME NEW q \in Proc, Keeps(q) PROVE Kept(q)'
      BY <3>1, <3>3, <2>1, <2>3, <1>ot DEF Kempt, Kept, Keeps
    <3>4. Remains => Remains'
      BY <2>1, <1>ot DEF Remains, Alive, OwnerPid, Token
    <3> QED
      BY <2>1, <3>2, <3>3, <3>4, <1>ot DEF Kempt, Nothing
  <2> QED
    BY <2>2, <2>3
<1>21. CASE Revive(p)
  BY <1>21 DEF Revive, Recoverable
<1> QED
  BY <1>1, <1>2, <1>3, <1>4, <1>5, <1>6, <1>7, <1>8, <1>9, <1>10, <1>11, <1>12,
     <1>13, <1>14, <1>15, <1>16, <1>17, <1>18, <1>19, <1>20, <1>21
     DEF Step, Contend, Create, Handle

(* When every process is idle or dead the next one can get the lock, if     *)
(* dead owners are reclaimed and no process died holding a directory without *)
(* a token in it.                                                           *)
THEOREM Quiescent ==
  ASSUME ReclaimOwner, ~ReclaimEmpty, ~PidReuse, CrashPoints \cap Clearing = {}
  PROVE  Spec => []QuiescentIsAcquirable
<1>1. Init => Kempt
  BY DEF Init, Kempt, Keeps, Relies, Publishing, Clearing, Nothing
<1>2. IInv /\ Kempt /\ [Next]_vars => Kempt'
  BY KemptStep DEF Recoverable
<1>3. Kempt => QuiescentIsAcquirable
  <2> SUFFICES ASSUME Kempt, \A p \in Proc : pc[p] \in {"idle", "dead"}
               PROVE  Acquirable
    BY DEF QuiescentIsAcquirable
  <2>1. Nothing \/ Remains
    BY DEF Kempt, Keeps, Relies, Publishing, Clearing
  <2> QED
    BY <2>1 DEF Nothing, Remains, Acquirable
<1> QED
  BY <1>1, <1>2, <1>3, Invariant, PTL DEF Spec
=============================================================================
