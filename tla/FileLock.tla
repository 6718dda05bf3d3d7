------------------------------ MODULE FileLock ------------------------------
(***************************************************************************)
(* The cross-process credentials mutex of src/src/auth/stdio/file-lock.ts: *)
(* a lock file created with O_EXCL, a second O_EXCL file (`<lock>.break`)  *)
(* that guards every acquisition, release and recovery, heartbeats on the  *)
(* lock's modification time, and recovery of the lock of a dead owner.     *)
(*                                                                         *)
(* A member of Proc is one process incarnation, i.e. one PID: a dead       *)
(* process never comes back, its successor is another member.  A process   *)
(* makes any number of withFileLock calls, one after the other.            *)
(*                                                                         *)
(* What is abstracted:                                                     *)
(*  - the owner token "<pid>:<random>" is the process.  The random part    *)
(*    never decides anything: a lock left behind by an earlier call of the *)
(*    same live process is never broken, so that process cannot hold two.  *)
(*  - a stat compared later (`judged`, `held`) is the fact whether the     *)
(*    file is still the one that was seen: `seen` and `gseen` hold the     *)
(*    processes for which it is; creating or touching the file empties     *)
(*    them.  A rename keeps inode and mtime, so it keeps `seen`.           *)
(*  - ages are one bit: older than staleMs or not.                         *)
(*  - whether an abandoned guard is reported as StaleLockOwnerError or as  *)
(*    AbandonedLockGuardError: both are LockTimeoutErrors and end the call.*)
(***************************************************************************)
EXTENDS Naturals, FiniteSets

CONSTANTS
  Proc,     \* process incarnations
  NoFile,   \* nothing at a path
  Empty,    \* a lock file created, or left, without an owner in it
  Faults    \* the file system faults and coincidences a run allows

FaultKinds == {"write", "rename", "rm", "release-read", "examine-read", "pid"}

ASSUME ProcAssumption == NoFile \notin Proc /\ Empty \notin Proc /\ NoFile # Empty
ASSUME FaultsAssumption == Faults \subseteq FaultKinds

VARIABLES
  pc,      \* where each process is in withFileLock
  ctx,     \* which of its three uses of tryGuarded a process is in
  res,     \* what fn returned under the guard, before the guard is removed
  lock,    \* the lock file: NoFile, Empty, or the process named in it
  lstale,  \* the lock file's mtime is older than staleMs
  seen,    \* processes whose `judged` stat is still the lock file's
  guard,   \* the process that created the guard file, or NoFile
  gstale,  \* the guard file is older than staleMs
  gseen,   \* processes whose `held` stat is still the guard file's
  aside,   \* aside[p]: the file p moved to `<lock>.stale-<p>-...`, or NoFile
  old,     \* processes whose file aside is older than staleMs
  hb,      \* processes with a heartbeat (utimes) issued and not yet carried out
  reused   \* dead processes whose PID now belongs to some other live process

fileVars  == <<lock, lstale, seen>>
guardVars == <<guard, gstale, gseen>>
restVars  == <<aside, old, hb, reused>>
callVars  == <<pc, ctx, res>>
vars      == <<callVars, fileVars, guardVars, restVars>>

-----------------------------------------------------------------------------
Labels == {"off", "idle", "dead",                        \* outside a call
           "guard", "stale", "judge", "wait",            \* without the guard
           "body", "write", "rename", "moved", "restore", "remove", "unguard",
           "sweep", "cs"}                                \* holding the lock

\* Inside tryGuarded's fn or its finally: the process created the guard.
Guarded == {"body", "write", "rename", "moved", "restore", "remove", "unguard"}

\* The heartbeat interval is set and the caller's operation may run.
Inside == {"sweep", "cs"}

Stopped == {"off", "dead"}

TypeOK ==
  /\ pc \in [Proc -> Labels]
  /\ ctx \in [Proc -> {"acquire", "break", "release"}]
  /\ res \in [Proc -> {"none", "true", "false", "busy", "error"}]
  /\ lock \in Proc \cup {NoFile, Empty}
  /\ lstale \in BOOLEAN
  /\ seen \subseteq Proc
  /\ guard \in Proc \cup {NoFile}
  /\ gstale \in BOOLEAN
  /\ gseen \subseteq Proc
  /\ aside \in [Proc -> Proc \cup {NoFile, Empty}]
  /\ old \subseteq Proc
  /\ hb \subseteq Proc
  /\ reused \subseteq Proc

Init ==
  /\ pc = [p \in Proc |-> "off"]
  /\ ctx = [p \in Proc |-> "acquire"]
  /\ res = [p \in Proc |-> "none"]
  /\ lock = NoFile /\ lstale = FALSE /\ seen = {}
  /\ guard = NoFile /\ gstale = FALSE /\ gseen = {}
  /\ aside = [p \in Proc |-> NoFile] /\ old = {}
  /\ hb = {} /\ reused = {}

-----------------------------------------------------------------------------
(* liveOwnerPid: only a process known to be gone (ESRCH) is dead.  A lock   *)
(* without a PID in it names nobody.                                        *)
LiveOwner_EveryoneDead(o) == FALSE          \* mutant
LiveOwner_EveryoneAlive(o) == o \in Proc    \* mutant

LiveOwner(o) == o \in Proc /\ (pc[o] # "dead" \/ o \in reused)

Goto(p, label) == pc' = [pc EXCEPT ![p] = label]

\* fn's promise settles with r (or rejects, r = "error"): the finally is next.
Return(p, r) == Goto(p, "unguard") /\ res' = [res EXCEPT ![p] = r]

\* withFileLock returns or throws; what the caller does with that is not here.
EndCall(p) ==
  /\ Goto(p, "idle")
  /\ ctx' = [ctx EXCEPT ![p] = "acquire"]
  /\ res' = [res EXCEPT ![p] = "none"]
  /\ seen' = seen \ {p}

\* tryGuarded resolves undefined: acquire looks at the lock, break and release wait.
Undecided(p) ==
  /\ Goto(p, IF ctx[p] = "acquire" THEN "judge" ELSE "wait")
  /\ seen' = seen \ {p}
  /\ UNCHANGED <<ctx, res>>

Call(p) ==
  /\ pc[p] \in {"off", "idle"}
  /\ Goto(p, "guard")
  /\ UNCHANGED <<ctx, res, fileVars, guardVars, restVars>>

-----------------------------------------------------------------------------
(* tryGuarded *)

\* Mutant: an old guard is stolen.
TakeGuard_Steals(p) ==
  /\ pc[p] = "guard" /\ (guard = NoFile \/ gstale)
  /\ guard' = p /\ gstale' = FALSE /\ gseen' = {}
  /\ Goto(p, "body")
  /\ UNCHANGED <<ctx, res, fileVars, restVars>>

\* O_EXCL creation of the guard; the owner written into it decides nothing
\* but the wording of an error.
TakeGuard(p) ==
  /\ pc[p] = "guard" /\ guard = NoFile
  /\ guard' = p /\ gstale' = FALSE /\ gseen' = {}
  /\ Goto(p, "body")
  /\ UNCHANGED <<ctx, res, fileVars, restVars>>

\* The guard is created and writing the owner into it fails (a full disk):
\* tryAcquire throws before the try whose finally would remove the guard.
LeakGuard(p) ==
  /\ "write" \in Faults
  /\ pc[p] = "guard" /\ guard = NoFile
  /\ guard' = p /\ gstale' = FALSE /\ gseen' = {}
  /\ EndCall(p) \/ Undecided(p)         \* Undecided if isTransient says so
  /\ UNCHANGED <<lock, lstale, restVars>>

\* The guard is taken and not old.
GuardBusy(p) ==
  /\ pc[p] = "guard" /\ guard # NoFile /\ ~gstale
  /\ Undecided(p)
  /\ UNCHANGED <<lock, lstale, guardVars, restVars>>

\* The guard is taken and older than staleMs: look again.
GuardLooksStale(p) ==
  /\ pc[p] = "guard" /\ guard # NoFile /\ gstale
  /\ gseen' = gseen \cup {p}
  /\ Goto(p, "stale")
  /\ UNCHANGED <<ctx, res, fileVars, guard, gstale, restVars>>

\* Mutant: an abandoned guard is removed and the waiter tries again.
GuardIsStale_Removes(p) ==
  /\ pc[p] = "stale" /\ p \in gseen
  /\ guard' = NoFile /\ gstale' = FALSE /\ gseen' = {}
  /\ Undecided(p)
  /\ UNCHANGED <<lock, lstale, restVars>>

\* Still the same guard: never stolen, the call throws.
GuardIsStale(p) ==
  /\ pc[p] = "stale" /\ p \in gseen
  /\ gseen' = gseen \ {p}
  /\ EndCall(p)
  /\ UNCHANGED <<lock, lstale, guard, gstale, restVars>>

\* Another guard, or none: as if it were merely taken.
GuardChanged(p) ==
  /\ pc[p] = "stale" /\ p \notin gseen
  /\ Undecided(p)
  /\ UNCHANGED <<lock, lstale, guardVars, restVars>>

\* What the loops around tryGuarded do with fn's outcome once the guard is gone.
AfterGuard(p) ==
  \/ /\ res[p] = "true" /\ ctx[p] = "acquire"      \* the lock is ours
     /\ Goto(p, "sweep")
     /\ res' = [res EXCEPT ![p] = "none"]
     /\ UNCHANGED <<ctx, seen>>
  \/ /\ res[p] = "true" /\ ctx[p] = "break"        \* free: try again at once
     /\ Goto(p, "guard")
     /\ ctx' = [ctx EXCEPT ![p] = "acquire"]
     /\ res' = [res EXCEPT ![p] = "none"]
     /\ seen' = seen \ {p}
  \/ /\ res[p] = "true" /\ ctx[p] = "release"      \* released
     /\ EndCall(p)
  \/ /\ res[p] = "false" /\ ctx[p] = "acquire"     \* somebody has the lock
     /\ Goto(p, "judge")
     /\ res' = [res EXCEPT ![p] = "none"]
     /\ UNCHANGED <<ctx, seen>>
  \/ /\ res[p] \in {"false", "busy"} /\ ctx[p] = "break"
     /\ Goto(p, "wait")
     /\ res' = [res EXCEPT ![p] = "none"]
     /\ seen' = seen \ {p}
     /\ UNCHANGED ctx
  \/ /\ res[p] = "error"                           \* thrown through tryGuarded
     /\ EndCall(p)

Unguard(p) ==
  /\ pc[p] = "unguard"
  /\ guard' = NoFile /\ gstale' = FALSE /\ gseen' = {}
  /\ AfterGuard(p)
  /\ UNCHANGED <<lock, lstale, restVars>>

\* Removing the guard fails: its error replaces whatever fn did, and only a
\* break waits out a transient one.
UnguardFails(p) ==
  /\ "rm" \in Faults
  /\ pc[p] = "unguard"
  /\ \/ EndCall(p)
     \/ /\ ctx[p] = "break"
        /\ Goto(p, "wait")
        /\ res' = [res EXCEPT ![p] = "none"]
        /\ seen' = seen \ {p}
        /\ UNCHANGED ctx
  /\ UNCHANGED <<lock, lstale, guardVars, restVars>>

-----------------------------------------------------------------------------
(* withFileLock: acquiring *)

OpenLock(p) ==
  /\ pc[p] = "body" /\ ctx[p] = "acquire"
  /\ \/ /\ lock # NoFile
        /\ Return(p, "false")
        /\ UNCHANGED <<ctx, fileVars>>
     \/ /\ lock = NoFile
        /\ lock' = Empty /\ lstale' = FALSE /\ seen' = {}
        /\ Goto(p, "write")
        /\ UNCHANGED <<ctx, res>>
  /\ UNCHANGED <<guardVars, restVars>>

WriteLock(p) ==
  /\ pc[p] = "write"
  /\ lock' = p /\ lstale' = FALSE /\ seen' = {}
  /\ Return(p, "true")
  /\ UNCHANGED <<ctx, guardVars, restVars>>

\* The lock file stays behind, empty.
WriteLockFails(p) ==
  /\ "write" \in Faults
  /\ pc[p] = "write"
  /\ Return(p, "error")
  /\ UNCHANGED <<ctx, fileVars, guardVars, restVars>>

Judge(p) ==
  /\ pc[p] = "judge"
  /\ \/ /\ lock # NoFile /\ lstale
        /\ seen' = seen \cup {p}
        /\ ctx' = [ctx EXCEPT ![p] = "break"]
        /\ Goto(p, "guard")
     \/ /\ ~(lock # NoFile /\ lstale)
        /\ Goto(p, "wait")
        /\ UNCHANGED <<seen, ctx>>
  /\ UNCHANGED <<res, lock, lstale, guardVars, restVars>>

\* Before the deadline: sleep pollMs and start over.
Retry(p) ==
  /\ pc[p] = "wait"
  /\ Goto(p, "guard")
  /\ ctx' = [ctx EXCEPT ![p] = IF @ = "release" THEN "release" ELSE "acquire"]
  /\ UNCHANGED <<res, fileVars, guardVars, restVars>>

\* Mutant: no deadline.
GiveUp_Never(p) == FALSE /\ UNCHANGED vars

\* Past it: LockTimeoutError.  A release that times out leaves the lock.
GiveUp(p) ==
  /\ pc[p] = "wait"
  /\ EndCall(p)
  /\ UNCHANGED <<lock, lstale, guardVars, restVars>>

-----------------------------------------------------------------------------
(* breakStaleLock, under the guard *)

Examine(p) ==
  /\ pc[p] = "body" /\ ctx[p] = "break"
  /\ \/ /\ lock = NoFile
        /\ Return(p, "true")
     \/ /\ lock # NoFile /\ p \notin seen       \* a heartbeat, or a new holder
        /\ Return(p, "false")
     \/ /\ lock # NoFile /\ p \in seen /\ LiveOwner(lock)
        /\ Return(p, "error")                   \* StaleLockOwnerError
     \/ /\ lock # NoFile /\ p \in seen /\ ~LiveOwner(lock)
        /\ Goto(p, "rename")
        /\ UNCHANGED res
  /\ UNCHANGED <<ctx, fileVars, guardVars, restVars>>

\* readOwner swallows every error: an owner that cannot be read is nobody.
ExamineUnread(p) ==
  /\ "examine-read" \in Faults
  /\ pc[p] = "body" /\ ctx[p] = "break"
  /\ lock # NoFile /\ p \in seen
  /\ Goto(p, "rename")
  /\ UNCHANGED <<ctx, res, fileVars, guardVars, restVars>>

\* removeIfStill: rename the lock aside ...
MoveAside(p) ==
  /\ pc[p] = "rename"
  /\ IF lock = NoFile
     THEN Return(p, "true") /\ UNCHANGED <<lock, aside, old>>
     ELSE /\ aside' = [aside EXCEPT ![p] = lock]
          /\ old' = old \ {p}
          /\ lock' = NoFile
          /\ Goto(p, "moved") /\ UNCHANGED res
  /\ UNCHANGED <<ctx, lstale, seen, guardVars, hb, reused>>

\* "busy": an error isTransient says can pass; the waiter waits.
MoveAsideFails(p) ==
  /\ "rename" \in Faults
  /\ pc[p] = "rename"
  /\ \E r \in {"busy", "error"} : Return(p, r)
  /\ UNCHANGED <<ctx, fileVars, guardVars, restVars>>

\* ... delete it if it is the file that was judged (or has vanished) ...
Discard(p) ==
  /\ pc[p] = "moved"
  /\ aside[p] = NoFile \/ p \in seen
  /\ aside' = [aside EXCEPT ![p] = NoFile]
  /\ old' = old \ {p}
  /\ lstale' = FALSE /\ seen' = {}
  /\ Return(p, "true")
  /\ UNCHANGED <<ctx, lock, guardVars, hb, reused>>

DiscardFails(p) ==
  /\ "rm" \in Faults
  /\ pc[p] = "moved"
  /\ aside[p] # NoFile /\ p \in seen
  /\ \E r \in {"busy", "error"} : Return(p, r)
  /\ UNCHANGED <<ctx, fileVars, guardVars, restVars>>

\* ... and put it back if it was touched in between.
NotJudged(p) ==
  /\ pc[p] = "moved"
  /\ aside[p] # NoFile /\ p \notin seen
  /\ Goto(p, "restore")
  /\ UNCHANGED <<ctx, res, fileVars, guardVars, restVars>>

\* rename replaces whatever is at the lock path.
Restore(p) ==
  /\ pc[p] = "restore"
  /\ lock' = aside[p]
  /\ aside' = [aside EXCEPT ![p] = NoFile]
  /\ old' = old \ {p}
  /\ Return(p, "false")
  /\ UNCHANGED <<ctx, lstale, seen, guardVars, hb, reused>>

RestoreFails(p) ==
  /\ "rename" \in Faults
  /\ pc[p] = "restore"
  /\ \E r \in {"busy", "error"} : Return(p, r)
  /\ UNCHANGED <<ctx, fileVars, guardVars, restVars>>

-----------------------------------------------------------------------------
(* withFileLock: holding the lock, and releasing it *)

\* The interval fires; utimes is started and not awaited.
Beat(p) ==
  /\ pc[p] \in Inside /\ p \notin hb
  /\ hb' = hb \cup {p}
  /\ UNCHANGED <<callVars, fileVars, guardVars, aside, old, reused>>

\* utimes touches whatever file is at the lock path by now.
BeatLands(p) ==
  /\ p \in hb
  /\ hb' = hb \ {p}
  /\ IF lock = NoFile
     THEN UNCHANGED <<lstale, seen>>
     ELSE lstale' = FALSE /\ seen' = {}
  /\ UNCHANGED <<callVars, lock, guardVars, aside, old, reused>>

\* sweepStaleAside deletes one file left aside.
SweepOne(p, q) ==
  /\ pc[p] = "sweep"
  /\ aside[q] # NoFile /\ q \in old
  /\ aside' = [aside EXCEPT ![q] = NoFile]
  /\ old' = old \ {q}
  /\ UNCHANGED <<callVars, fileVars, guardVars, hb, reused>>

\* Best effort: a sweep may leave anything for the next one.
SweepDone(p) ==
  /\ pc[p] = "sweep"
  /\ Goto(p, "cs")
  /\ UNCHANGED <<ctx, res, fileVars, guardVars, restVars>>

\* fn settles; clearInterval; releaseLock starts.
Finish(p) ==
  /\ pc[p] = "cs"
  /\ Goto(p, "guard")
  /\ ctx' = [ctx EXCEPT ![p] = "release"]
  /\ UNCHANGED <<res, fileVars, guardVars, restVars>>

\* Mutant: the lock is removed whoever it names.
ReadOwnLock_AnyOwner(p) ==
  /\ pc[p] = "body" /\ ctx[p] = "release"
  /\ Goto(p, "remove")
  /\ UNCHANGED <<ctx, res, fileVars, guardVars, restVars>>

\* releaseLock's fn: the lock is removed only if it still names this owner.
ReadOwnLock(p) ==
  /\ pc[p] = "body" /\ ctx[p] = "release"
  /\ \/ lock = p /\ Goto(p, "remove") /\ UNCHANGED res
     \/ lock # p /\ Return(p, "true")
  /\ UNCHANGED <<ctx, fileVars, guardVars, restVars>>

\* The owner cannot be read: the lock stays, and the release counts as done.
ReadOwnLockFails(p) ==
  /\ "release-read" \in Faults
  /\ pc[p] = "body" /\ ctx[p] = "release"
  /\ Return(p, "true")
  /\ UNCHANGED <<ctx, fileVars, guardVars, restVars>>

RemoveLock(p) ==
  /\ pc[p] = "remove"
  /\ lock' = NoFile /\ lstale' = FALSE /\ seen' = {}
  /\ Return(p, "true")
  /\ UNCHANGED <<ctx, guardVars, restVars>>

-----------------------------------------------------------------------------
(* The world: processes die, time passes, PIDs are reused, humans clean up *)

Crash(p) ==
  /\ pc[p] # "dead" /\ pc[p] # "off"
  /\ Goto(p, "dead")
  /\ ctx' = [ctx EXCEPT ![p] = "acquire"]
  /\ res' = [res EXCEPT ![p] = "none"]
  /\ hb' = hb \ {p}
  /\ seen' = seen \ {p} /\ gseen' = gseen \ {p}
  /\ UNCHANGED <<lock, lstale, guard, gstale, aside, old, reused>>

PidReused(p) ==
  /\ "pid" \in Faults
  /\ pc[p] = "dead" /\ p \notin reused
  /\ reused' = reused \cup {p}
  /\ UNCHANGED <<callVars, fileVars, guardVars, aside, old, hb>>

LockAges ==
  /\ lock # NoFile /\ ~lstale
  /\ lstale' = TRUE
  /\ UNCHANGED <<callVars, lock, seen, guardVars, restVars>>

GuardAges ==
  /\ guard # NoFile /\ ~gstale
  /\ gstale' = TRUE
  /\ UNCHANGED <<callVars, fileVars, guard, gseen, restVars>>

AsideAges(p) ==
  /\ aside[p] # NoFile /\ p \notin old
  /\ old' = old \cup {p}
  /\ UNCHANGED <<callVars, fileVars, guardVars, aside, hb, reused>>

\* What the hints of the two errors tell the user to do, as they tell it:
\* stop all clients, then remove the named file.
OperatorRemovesGuard ==
  /\ \A p \in Proc : pc[p] \in Stopped
  /\ guard # NoFile
  /\ guard' = NoFile /\ gstale' = FALSE /\ gseen' = {}
  /\ UNCHANGED <<callVars, fileVars, restVars>>

OperatorRemovesLock ==
  /\ \A p \in Proc : pc[p] \in Stopped
  /\ lock # NoFile
  /\ lock' = NoFile /\ lstale' = FALSE /\ seen' = {}
  /\ UNCHANGED <<callVars, guardVars, restVars>>

-----------------------------------------------------------------------------
Acquiring(p) == OpenLock(p) \/ WriteLock(p) \/ WriteLockFails(p) \/ Judge(p)

Breaking(p) ==
  \/ Examine(p) \/ ExamineUnread(p) \/ MoveAside(p) \/ MoveAsideFails(p)
  \/ Discard(p) \/ DiscardFails(p) \/ NotJudged(p)
  \/ Restore(p) \/ RestoreFails(p)

Guarding(p) ==
  \/ TakeGuard(p) \/ LeakGuard(p) \/ GuardBusy(p) \/ GuardLooksStale(p)
  \/ GuardIsStale(p) \/ GuardChanged(p) \/ Unguard(p) \/ UnguardFails(p)

Holding(p) == Beat(p) \/ BeatLands(p) \/ \E q \in Proc : SweepOne(p, q)

Releasing(p) == ReadOwnLock(p) \/ ReadOwnLockFails(p) \/ RemoveLock(p)

Leaving(p) == SweepDone(p) \/ Finish(p)

World ==
  \/ \E p \in Proc : Crash(p) \/ PidReused(p) \/ AsideAges(p)
  \/ LockAges \/ GuardAges \/ OperatorRemovesGuard \/ OperatorRemovesLock

Next ==
  \/ \E p \in Proc :
       \/ Call(p) \/ Guarding(p) \/ Acquiring(p) \/ Retry(p) \/ GiveUp(p)
       \/ Breaking(p) \/ Holding(p) \/ Leaving(p) \/ Releasing(p)
  \/ World

Spec == Init /\ [][Next]_vars

(* Fairness.  A live process keeps executing its call (Steps); a loop that  *)
(* keeps coming back to its deadline check finds the deadline passed        *)
(* (GiveUp).  Nothing is assumed about crashes, heartbeats, reused PIDs or  *)
(* operators.                                                               *)
Steps(p) ==
  Guarding(p) \/ Acquiring(p) \/ Retry(p) \/ Breaking(p) \/ Leaving(p) \/ Releasing(p)

CallFairness(p) == WF_vars(Steps(p)) /\ SF_vars(GiveUp(p))

FairSpec == Spec /\ \A p \in Proc : CallFairness(p)

(* The clock does not stop (LockAges), and callers that failed come back,   *)
(* as every session does at its next request (Call).                        *)
Persistent == WF_vars(LockAges) /\ \A p \in Proc : WF_vars(Call(p))
-----------------------------------------------------------------------------
(* Properties *)

\* At most one process runs an operation on the stored credentials.
MutualExclusion ==
  \A p, q \in Proc : pc[p] \in Inside /\ pc[q] \in Inside => p = q

\* A process inside has its own lock file at the lock path: it was not broken,
\* replaced, moved aside or removed, however long the process was paused.
HolderKeepsLock == \A p \in Proc : pc[p] \in Inside => lock = p

\* The guard is never shared: a process under it finds its own guard.
GuardExclusive == \A p \in Proc : pc[p] \in Guarded => guard = p

\* While a moved file is examined nobody can have taken the path, so putting
\* the file back replaces nothing.
NobodyBehindTheExaminer ==
  \A p \in Proc : pc[p] \in {"moved", "restore"} => lock = NoFile

\* The sweep never takes a file that another process is still examining.
SweepSparesExamined ==
  \A p \in Proc : pc[p] \in {"moved", "restore"} => aside[p] # NoFile

(* The inductive invariant behind them.  What a process does under the      *)
(* guard is told by the code it is in: while it is there nobody else        *)
(* touches the lock path, so what it has seen there is still so.            *)
Holds(p) ==
  \/ pc[p] \in Inside
  \/ pc[p] = "unguard" /\ ctx[p] = "acquire" /\ res[p] = "true"

NotAlive(o) == \A p \in Proc : o = p => pc[p] = "dead"

UseOfGuard ==
  \A p \in Proc :
    /\ pc[p] = "write" => ctx[p] = "acquire"
    /\ pc[p] \in {"rename", "moved", "restore"} => ctx[p] = "break"
    /\ pc[p] = "remove" => ctx[p] = "release"

HoldersLock == \A p \in Proc : Holds(p) => lock = p

PathUnderGuard ==
  \A p \in Proc :
    /\ pc[p] = "write" => lock = Empty
    /\ pc[p] = "rename" => NotAlive(lock)
    /\ pc[p] = "remove" => lock = p
    /\ pc[p] \in {"moved", "restore"} =>
         lock = NoFile /\ aside[p] # NoFile /\ NotAlive(aside[p])

LockInv == GuardExclusive /\ UseOfGuard /\ HoldersLock /\ PathUnderGuard

IInv == TypeOK /\ LockInv

\* A guard left by a dead process lets nobody in until it has been removed
\* with every process stopped.
AbandonedGuardFailsClosed ==
  [][\A d \in Proc : guard = d /\ pc[d] = "dead" =>
       /\ guard' = d \/ \A p \in Proc : pc[p] \in Stopped
       /\ \A p \in Proc : pc'[p] \in Inside => pc[p] \in Inside]_vars

\* Whatever happens to a holder's lock, a releasing process never deletes the
\* lock of another live process: only the owner's own release takes it away,
\* or a break whose owner read failed.
ReleaseSparesSuccessor ==
  [][\A p \in Proc : lock = p /\ pc[p] # "dead" /\ lock' # p =>
       \/ pc[p] = "remove" /\ pc'[p] # "remove"
       \/ \E q \in Proc : pc[q] = "rename" /\ pc'[q] = "moved"]_vars

(* file-lock.ts:20 "a stale lock is left alone while its owner process is   *)
(* still alive": no live process inside loses its lock to a break.          *)
LiveOwnerLeftAlone ==
  [][\A p, q \in Proc : pc[q] = "rename" /\ pc'[q] = "moved" => lock # p \/ pc[p] = "dead"]_vars

\* Every call ends: it gets the lock or throws.  A waiter that finds the path
\* free goes round without looking at its deadline, so this takes that locks
\* do not go stale for ever, i.e. that processes stop dying or being paused.
CallEnds ==
  <>[][~LockAges]_vars =>
    \A p \in Proc :
      pc[p] \notin {"off", "idle", "dead"} ~> pc[p] \in {"cs", "idle", "dead"}

\* The lock of a dead process is recovered without a human while somebody keeps
\* asking for it, unless the guard was abandoned too or nobody is left.
DeadOwnerRecovered ==
  Persistent =>
    \A p \in Proc :
      lock = p /\ pc[p] = "dead" ~>
        \/ lock # p
        \/ \E d \in Proc : guard = d /\ pc[d] = "dead"
        \/ \A q \in Proc : pc[q] \in Stopped

(* The mutex the lock implements: see Mutex. *)
Owner == IF lock \in Proc /\ pc[lock] # "dead" THEN lock ELSE NoFile

M == INSTANCE Mutex WITH
       None <- NoFile, owner <- Owner,
       inside <- {p \in Proc : pc[p] \in Inside}, dead <- {p \in Proc : pc[p] = "dead"}

ImplementsMutex == M!Spec
=============================================================================
