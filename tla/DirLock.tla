------------------------------ MODULE DirLock ------------------------------
(***************************************************************************)
(* The house mutex, src/effects/locking/exclusive-directory-lock.ts, one   *)
(* system call at a time.  A process takes the lock by creating the lock   *)
(* directory, publishing an owner token (an O_EXCL file named              *)
(* <pid>-<time>-<uuid>.json) in it and finding its token alone there.      *)
(* Contenders may remove the token of a dead owner and, when the caller    *)
(* opts in, a directory nobody has published into.                         *)
(*                                                                         *)
(* Time is abstract: the deadline may pass whenever a process is waiting,  *)
(* and a process may be paused for longer than LOCK_STALE_MS between any   *)
(* two steps, so an age test on an empty directory or on an unreadable     *)
(* token may go either way.                                                *)
(***************************************************************************)
EXTENDS Naturals, FiniteSets

CONSTANTS
  Proc,          \* process ids
  Slot,          \* distinguishes the tokens of one process id (their uuids)
  Inode,         \* directory identities; the file system may reuse one
  NoDir,         \* the lock path does not exist
  NoToken,       \* no token observed or published
  Nobody,        \* no process is in the critical section
  ReclaimOwner,  \* options.reclaimStaleOwner # false
  ReclaimEmpty,  \* options.reclaimStaleEmptyDirectory
  IOFaults,      \* opening or writing the token may fail (ENOSPC, EMFILE)
  PidReuse,      \* the id of a dead process may be given to a new one
  CrashPoints    \* the program points at which a process may die

Token == Proc \X Slot
OwnerPid(t) == t[1]

\* The program points between publishing a token and removing it.
Publishing == {"write", "check", "held", "run", "unlink"}
Acquiring == {"mkdir", "lstat", "readdir", "judge", "reap", "recheckEmpty",
              "rmReclaimed", "wait", "identify", "open", "write", "check"}
PC == Publishing \cup Acquiring \cup {"idle", "rmCheck", "rmOwn", "dead"}

\* Why a process is removing its own lock: it released it, it lost the
\* single-token check, or the acquisition failed with an unexpected error.
Result == {"none", "release", "lost", "error"}

ASSUME ConstAssumption ==
  /\ NoDir \notin Inode
  /\ NoToken \notin Token
  /\ Nobody \notin Proc
  /\ {ReclaimOwner, ReclaimEmpty, IOFaults, PidReuse} \subseteq BOOLEAN
  /\ CrashPoints \subseteq PC \ {"idle", "dead"}

VARIABLES
  dir,       \* the lock directory's identity, or NoDir
  entries,   \* the tokens in it
  blank,     \* the tokens whose JSON is not written yet
  pc,        \* where each process is
  tok,       \* the token each process published
  ident,     \* handle.directoryIdentity: the directory a creator lstat'ed
  seenDir,   \* a contender's observedDirectoryIdentity
  seenTok,   \* a contender's observed owner token
  expired,   \* Date.now() >= deadline
  result     \* why the process removes its lock; "error" also after it threw

vars == <<dir, entries, blank, pc, tok, ident, seenDir, seenTok, expired, result>>
disk == <<dir, entries, blank>>
own  == <<tok, ident>>
seen == <<seenDir, seenTok>>

TypeOK ==
  /\ dir \in Inode \cup {NoDir}
  /\ entries \subseteq Token
  /\ blank \subseteq entries
  /\ pc \in [Proc -> PC]
  /\ tok \in [Proc -> Token \cup {NoToken}]
  /\ ident \in [Proc -> Inode \cup {NoDir}]
  /\ seenDir \in [Proc -> Inode \cup {NoDir}]
  /\ seenTok \in [Proc -> Token \cup {NoToken}]
  /\ expired \in [Proc -> BOOLEAN]
  /\ result \in [Proc -> Result]

Init ==
  /\ dir = NoDir
  /\ entries = {}
  /\ blank = {}
  /\ pc = [p \in Proc |-> "idle"]
  /\ tok = [p \in Proc |-> NoToken]
  /\ ident = [p \in Proc |-> NoDir]
  /\ seenDir = [p \in Proc |-> NoDir]
  /\ seenTok = [p \in Proc |-> NoToken]
  /\ expired = [p \in Proc |-> FALSE]
  /\ result = [p \in Proc |-> "none"]

-----------------------------------------------------------------------------
(* Helpers.                                                                *)

Goto(p, l) == pc' = [pc EXCEPT ![p] = l]

Alive(p) == pc[p] # "dead"

\* A uuid nobody has seen: not on disk and not in any process's memory.
FreshToken(p, t) ==
  /\ OwnerPid(t) = p
  /\ t \notin entries
  /\ \A q \in Proc : tok[q] # t /\ seenTok[q] # t

\* ownsExclusiveToken.  A published token pins its directory, so the lstat and
\* the readdir of the source see the same one.
OwnsExclusiveToken(p) == dir = ident[p] /\ entries = {tok[p]}

\* Forget what was observed of another owner.
ForgetSeen(p) ==
  /\ seenDir' = [seenDir EXCEPT ![p] = NoDir]
  /\ seenTok' = [seenTok EXCEPT ![p] = NoToken]

\* The end of removeOwnedLock or removeUnpublishedLock: an acquisition that
\* only lost the check retries until its deadline, all others return or throw.
Finish(p) ==
  /\ tok' = [tok EXCEPT ![p] = NoToken]
  /\ ident' = [ident EXCEPT ![p] = NoDir]
  /\ IF result[p] = "lost" /\ ~expired[p]
     THEN /\ Goto(p, "mkdir")
          /\ UNCHANGED expired
     ELSE /\ Goto(p, "idle")
          /\ expired' = [expired EXCEPT ![p] = FALSE]
  /\ result' = [result EXCEPT ![p] = IF @ = "error" THEN "error" ELSE "none"]

-----------------------------------------------------------------------------
(* acquireExclusiveDirectoryLock: the contender's half.                    *)

Begin(p) ==
  /\ pc[p] = "idle"
  /\ Goto(p, "mkdir")
  /\ result' = [result EXCEPT ![p] = "none"]
  /\ UNCHANGED <<disk, own, seen, expired>>

\* mkdirSync creates the directory or fails with EEXIST.
Mkdir(p) ==
  /\ pc[p] = "mkdir"
  /\ \/ /\ dir = NoDir
        /\ dir' \in Inode
        /\ Goto(p, "identify")
     \/ /\ dir # NoDir
        /\ Goto(p, "lstat")
        /\ UNCHANGED dir
  /\ UNCHANGED <<entries, blank, own, seen, expired, result>>

\* ENOENT starts the loop over without looking at the deadline.
Lstat(p) ==
  /\ pc[p] = "lstat"
  /\ IF dir = NoDir
     THEN /\ Goto(p, "mkdir")
          /\ UNCHANGED seenDir
     ELSE IF ReclaimOwner
     THEN /\ Goto(p, "readdir")
          /\ seenDir' = [seenDir EXCEPT ![p] = dir]
     ELSE /\ Goto(p, "wait")
          /\ UNCHANGED seenDir
  /\ UNCHANGED <<disk, own, seenTok, expired, result>>

\* reclaimStaleLockDirectory reads the entries: one token to judge, or a
\* directory it may call stale and empty, or nothing to reclaim.
Readdir(p) ==
  /\ pc[p] = "readdir"
  /\ \/ /\ \E t \in entries : entries = {t} /\ seenTok' = [seenTok EXCEPT ![p] = t]
        /\ Goto(p, "judge")
        /\ UNCHANGED seenDir
     \/ /\ ReclaimEmpty
        /\ dir # NoDir
        /\ entries = {}
        /\ Goto(p, "recheckEmpty")
        /\ UNCHANGED seen
     \/ /\ \A t \in entries : entries # {t}
        /\ Goto(p, "wait")
        /\ ForgetSeen(p)
  /\ UNCHANGED <<disk, own, expired, result>>

\* A token with its content is reclaimable when its process is dead, an
\* unreadable one when it is also old; ownerIsAlive tests the process id only.
JudgeUnreadableOnly(p) ==
  /\ pc[p] = "judge"
  /\ IF seenTok[p] \in blank /\ ~Alive(OwnerPid(seenTok[p]))
     THEN /\ Goto(p, "reap")
          /\ UNCHANGED seen
     ELSE /\ Goto(p, "wait")
          /\ ForgetSeen(p)
  /\ UNCHANGED <<disk, own, expired, result>>

JudgeByAge(p) ==
  /\ pc[p] = "judge"
  /\ IF seenTok[p] \in entries
     THEN /\ Goto(p, "reap")
          /\ UNCHANGED seen
     ELSE /\ Goto(p, "wait")
          /\ ForgetSeen(p)
  /\ UNCHANGED <<disk, own, expired, result>>

Judge(p) ==
  /\ pc[p] = "judge"
  /\ \/ /\ seenTok[p] \in entries
        /\ ~Alive(OwnerPid(seenTok[p]))
        /\ Goto(p, "reap")
        /\ UNCHANGED seen
     \/ /\ \/ seenTok[p] \notin entries
           \/ Alive(OwnerPid(seenTok[p]))
           \/ seenTok[p] \in blank
        /\ Goto(p, "wait")
        /\ ForgetSeen(p)
  /\ UNCHANGED <<disk, own, expired, result>>

\* Both identities are looked at again, then the observed token is unlinked.
Reap(p) ==
  /\ pc[p] = "reap"
  /\ IF dir = seenDir[p] /\ seenTok[p] \in entries
     THEN /\ entries' = entries \ {seenTok[p]}
          /\ blank' = blank \ {seenTok[p]}
          /\ Goto(p, "rmReclaimed")
     ELSE /\ Goto(p, "wait")
          /\ UNCHANGED <<entries, blank>>
  /\ ForgetSeen(p)
  /\ UNCHANGED <<dir, own, expired, result>>

\* The opt-in path: still the same directory and still empty.
RecheckEmpty(p) ==
  /\ pc[p] = "recheckEmpty"
  /\ IF dir = seenDir[p] /\ entries = {}
     THEN Goto(p, "rmReclaimed")
     ELSE Goto(p, "wait")
  /\ ForgetSeen(p)
  /\ UNCHANGED <<disk, own, expired, result>>

\* rmdirSync goes by path: it removes whatever empty directory is there now.
RmdirReclaimed(p) ==
  /\ pc[p] = "rmReclaimed"
  /\ dir' = IF entries = {} THEN NoDir ELSE dir
  /\ Goto(p, "wait")
  /\ UNCHANGED <<entries, blank, own, seen, expired, result>>

\* The deadline test, the 10 ms sleep and the next turn of the loop.
WaitNoDeadline(p) ==
  /\ pc[p] = "wait"
  /\ Goto(p, "mkdir")
  /\ UNCHANGED <<disk, own, seen, expired, result>>

Wait(p) ==
  /\ pc[p] = "wait"
  /\ IF expired[p]
     THEN /\ Goto(p, "idle")
          /\ expired' = [expired EXCEPT ![p] = FALSE]
     ELSE /\ Goto(p, "mkdir")
          /\ UNCHANGED expired
  /\ UNCHANGED <<disk, own, seen, result>>

-----------------------------------------------------------------------------
(* acquireExclusiveDirectoryLock: the creator's half.                      *)

\* lstatSync of the directory just created: outside every try block, so a
\* directory that is gone again surfaces as a bare ENOENT.
Identify(p) ==
  /\ pc[p] = "identify"
  /\ IF dir = NoDir
     THEN /\ Goto(p, "idle")
          /\ result' = [result EXCEPT ![p] = "error"]
          /\ expired' = [expired EXCEPT ![p] = FALSE]
          /\ UNCHANGED ident
     ELSE /\ Goto(p, "open")
          /\ ident' = [ident EXCEPT ![p] = dir]
          /\ UNCHANGED <<expired, result>>
  /\ UNCHANGED <<disk, tok, seen>>

\* openSync by path publishes the token in whatever directory is there now.
\* It fails when the directory is gone, or for want of space or descriptors;
\* then removeUnpublishedLock runs (rmCheck, rmOwn) and the error is rethrown.
OpenElsewhere(p) ==
  /\ pc[p] = "open"
  /\ \E t \in Token :
       /\ FreshToken(p, t)
       /\ blank' = blank \cup {t}
       /\ tok' = [tok EXCEPT ![p] = t]
  /\ Goto(p, "write")
  /\ UNCHANGED <<dir, entries, ident, seen, expired, result>>

Open(p) ==
  /\ pc[p] = "open"
  /\ \/ /\ dir # NoDir
        /\ \E t \in Token :
             /\ FreshToken(p, t)
             /\ entries' = entries \cup {t}
             /\ blank' = blank \cup {t}
             /\ tok' = [tok EXCEPT ![p] = t]
        /\ Goto(p, "write")
        /\ UNCHANGED result
     \/ /\ dir = NoDir \/ IOFaults
        /\ Goto(p, "rmCheck")
        /\ result' = [result EXCEPT ![p] = "error"]
        /\ UNCHANGED <<entries, blank, tok>>
  /\ UNCHANGED <<dir, ident, seen, expired>>

Write(p) ==
  /\ pc[p] = "write"
  /\ \/ /\ blank' = blank \ {tok[p]}
        /\ Goto(p, "check")
        /\ UNCHANGED result
     \/ /\ IOFaults
        /\ Goto(p, "unlink")
        /\ result' = [result EXCEPT ![p] = "error"]
        /\ UNCHANGED blank
  /\ UNCHANGED <<dir, entries, own, seen, expired>>

\* The single-token check after publication decides the election.
CheckUnchecked(p) ==
  /\ pc[p] = "check"
  /\ Goto(p, "held")
  /\ UNCHANGED <<disk, own, seen, expired, result>>

Check(p) ==
  /\ pc[p] = "check"
  /\ IF OwnsExclusiveToken(p)
     THEN /\ Goto(p, "held")
          /\ expired' = [expired EXCEPT ![p] = FALSE]
          /\ UNCHANGED result
     ELSE /\ Goto(p, "unlink")
          /\ result' = [result EXCEPT ![p] = "lost"]
          /\ UNCHANGED expired
  /\ UNCHANGED <<disk, own, seen>>

-----------------------------------------------------------------------------
(* The handle: assertOwned, the caller's work, release.                    *)

\* withExclusiveDirectoryLock asserts ownership, runs, and releases whether or
\* not the assertion or the work throws.
AssertOwned(p) ==
  /\ pc[p] = "held"
  /\ IF OwnsExclusiveToken(p)
     THEN /\ Goto(p, "run")
          /\ UNCHANGED result
     ELSE /\ Goto(p, "unlink")
          /\ result' = [result EXCEPT ![p] = "release"]
  /\ UNCHANGED <<disk, own, seen, expired>>

Release(p) ==
  /\ pc[p] = "run"
  /\ Goto(p, "unlink")
  /\ result' = [result EXCEPT ![p] = "release"]
  /\ UNCHANGED <<disk, own, seen, expired>>

\* removeOwnedLock, first half: only in the directory it was published for.
UnlinkOwnNoRmdir(p) ==
  /\ pc[p] = "unlink"
  /\ entries' = entries \ {tok[p]}
  /\ blank' = blank \ {tok[p]}
  /\ Finish(p)
  /\ UNCHANGED <<dir, seen>>

UnlinkOwn(p) ==
  /\ pc[p] = "unlink"
  /\ IF dir = ident[p] /\ tok[p] \in entries
     THEN /\ entries' = entries \ {tok[p]}
          /\ blank' = blank \ {tok[p]}
          /\ Goto(p, "rmCheck")
          /\ tok' = [tok EXCEPT ![p] = NoToken]
          /\ UNCHANGED <<ident, expired, result>>
     ELSE /\ Finish(p)
          /\ UNCHANGED <<entries, blank>>
  /\ UNCHANGED <<dir, seen>>

\* removeOwnedLock, second half, and removeUnpublishedLock: the identity is
\* compared, then the directory is removed by path if it is empty.
RmCheck(p) ==
  /\ pc[p] = "rmCheck"
  /\ IF dir = ident[p]
     THEN /\ Goto(p, "rmOwn")
          /\ UNCHANGED <<own, expired, result>>
     ELSE Finish(p)
  /\ UNCHANGED <<disk, seen>>

RmOwn(p) ==
  /\ pc[p] = "rmOwn"
  /\ dir' = IF entries = {} THEN NoDir ELSE dir
  /\ Finish(p)
  /\ UNCHANGED <<entries, blank, seen>>

-----------------------------------------------------------------------------
(* The environment: time, process death and process id reuse.             *)

Expire(p) ==
  /\ pc[p] \in Acquiring \/ result[p] = "lost"
  /\ ~expired[p]
  /\ expired' = [expired EXCEPT ![p] = TRUE]
  /\ UNCHANGED <<disk, pc, own, seen, result>>

Crash(p) ==
  /\ pc[p] \in CrashPoints
  /\ Goto(p, "dead")
  /\ tok' = [tok EXCEPT ![p] = NoToken]
  /\ ident' = [ident EXCEPT ![p] = NoDir]
  /\ expired' = [expired EXCEPT ![p] = FALSE]
  /\ result' = [result EXCEPT ![p] = "none"]
  /\ ForgetSeen(p)
  /\ UNCHANGED disk

Revive(p) ==
  /\ PidReuse
  /\ pc[p] = "dead"
  /\ Goto(p, "idle")
  /\ UNCHANGED <<disk, own, seen, expired, result>>

Contend(p) == Mkdir(p) \/ Lstat(p) \/ Readdir(p) \/ Judge(p) \/ Reap(p)
                \/ RecheckEmpty(p) \/ RmdirReclaimed(p) \/ Wait(p)
Create(p) == Identify(p) \/ Open(p) \/ Write(p) \/ Check(p)
Handle(p) == AssertOwned(p) \/ Release(p) \/ UnlinkOwn(p) \/ RmCheck(p) \/ RmOwn(p)
Step(p) == Contend(p) \/ Create(p) \/ Handle(p)

Next == \E p \in Proc :
          Begin(p) \/ Step(p) \/ Expire(p) \/ Crash(p) \/ Revive(p)

Spec == Init /\ [][Next]_vars

\* Every process keeps running its own code, but the work it does under the
\* lock may take for ever; its deadline passes in the end, and its caller tries
\* again: lock users are commands, hooks and services that are invoked again
\* and again.  An unreadable token gets old, so that one that is judged time and
\* again is condemned in the end.
Condemns(p) == Judge(p) /\ pc'[p] = "reap"
Runs(p) == pc[p] # "run" /\ Step(p)
Fairness == \A p \in Proc : /\ WF_vars(Runs(p)) /\ WF_vars(Begin(p)) /\ WF_vars(Expire(p))
                            /\ SF_vars(Condemns(p))
FairSpec == Spec /\ Fairness

-----------------------------------------------------------------------------
(* Correctness.                                                            *)

InSection(p) == pc[p] \in {"held", "run"}

\* A process counts on its token from its publication to its own unlink.
Relies(p) == pc[p] \in Publishing

\* At most one process is between the check that elected it and its release:
\* the reason withExclusiveDirectoryLock exists.
MutualExclusion ==
  \A p, q \in Proc : InSection(p) /\ InSection(q) => p = q

\* The token of a live process disappears only by that process's own unlink:
\* no contender, however long it was paused between judging an owner dead and
\* unlinking, removes a token somebody relies on.
OnlyOwnerUnlinks ==
  [][\A p \in Proc :
       Relies(p) /\ tok[p] \in entries /\ tok[p] \notin entries' => pc[p] = "unlink"]_vars

\* When every live process is idle the next one can get the lock: the path is
\* free, or what is left of a dead process is something Reap can clear.  "Both
\* kinds are ordinary concurrent-write contention rather than an unrecoverable
\* lock state", the doc comment of ExclusiveLockContentionError.
Acquirable ==
  \/ dir = NoDir
  \/ entries = {} /\ ReclaimEmpty
  \/ \E t \in entries : entries = {t} /\ ~Alive(OwnerPid(t)) /\ ReclaimOwner
QuiescentIsAcquirable ==
  (\A p \in Proc : pc[p] \in {"idle", "dead"}) => Acquirable

\* The token a process that died in its critical section left behind is
\* cleared by those that keep trying to acquire the lock, if any is left,
\* unless its process id is taken again before.
DeadOwnerIsReclaimed ==
  \A t \in Token :
    (t \in entries /\ ~Alive(OwnerPid(t)))
      ~> \/ t \notin entries
         \/ Alive(OwnerPid(t))
         \/ \A p \in Proc : ~Alive(p)

\* An acquisition returns, with the lock or with an error, once the others
\* are quiet or work under the lock.  While they are not, the ENOENT branch of
\* the loop, which looks at no deadline, could in principle be taken for ever.
AcquisitionReturns ==
  \A p \in Proc :
    <>[](\A q \in Proc \ {p} : pc[q] \in {"idle", "dead", "run"})
      => (pc[p] \in Acquiring ~> pc[p] \notin Acquiring)

\* The detailed lock implements the abstract service.
holder == IF \E p \in Proc : InSection(p) THEN CHOOSE p \in Proc : InSection(p) ELSE Nobody
Service == INSTANCE LockService
ImplementsService == Service!Spec
=============================================================================
