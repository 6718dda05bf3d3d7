--------------------------- MODULE FileLockProofs ---------------------------
(***************************************************************************)
(* Proofs about FileLock, for any set of processes.  What the lock         *)
(* promises holds for any of the faults except an owner that cannot be     *)
(* read while its lock is being broken; what the guard promises, for all.  *)
(***************************************************************************)
EXTENDS FileLock, TLAPS

(* Every variable stays in its set. *)
LEMMA TypeStep == TypeOK /\ [Next]_vars => TypeOK'
<1> SUFFICES ASSUME TypeOK, [Next]_vars
             PROVE  TypeOK'
  OBVIOUS
<1> USE DEF TypeOK, Labels, callVars, fileVars, guardVars, restVars, Goto, Return, EndCall, Undecided
<1>1. ASSUME NEW p \in Proc, Call(p) \/ Retry(p) \/ GiveUp(p) PROVE TypeOK'
  BY <1>1 DEF Call, Retry, GiveUp
<1>2. ASSUME NEW p \in Proc, Guarding(p) PROVE TypeOK'
  <2>1. CASE TakeGuard(p) \/ LeakGuard(p)
    BY <2>1 DEF TakeGuard, LeakGuard
  <2>2. CASE GuardBusy(p) \/ GuardLooksStale(p) \/ GuardIsStale(p) \/ GuardChanged(p)
    BY <2>2 DEF GuardBusy, GuardLooksStale, GuardIsStale, GuardChanged
  <2>3. CASE Unguard(p)
    BY <2>3 DEF Unguard, AfterGuard
  <2>4. CASE UnguardFails(p)
    BY <2>4 DEF UnguardFails
  <2> QED BY <1>2, <2>1, <2>2, <2>3, <2>4 DEF Guarding
<1>3. ASSUME NEW p \in Proc, Acquiring(p) PROVE TypeOK'
  BY <1>3 DEF Acquiring, OpenLock, WriteLock, WriteLockFails, Judge
<1>4. ASSUME NEW p \in Proc, Breaking(p) PROVE TypeOK'
  <2>1. CASE Examine(p)
    BY <2>1 DEF Examine
  <2>2. CASE ExamineUnread(p)
    BY <2>2 DEF ExamineUnread
  <2>3. CASE MoveAside(p) \/ MoveAsideFails(p)
    BY <2>3 DEF MoveAside, MoveAsideFails
  <2>4. CASE Discard(p)
    BY <2>4 DEF Discard
  <2>5. CASE DiscardFails(p) \/ NotJudged(p)
    BY <2>5 DEF DiscardFails, NotJudged
  <2>6. CASE Restore(p)
    BY <2>6 DEF Restore
  <2>7. CASE RestoreFails(p)
    BY <2>7 DEF RestoreFails
  <2> QED BY <1>4, <2>1, <2>2, <2>3, <2>4, <2>5, <2>6, <2>7 DEF Breaking
<1>5. ASSUME NEW p \in Proc, Holding(p) PROVE TypeOK'
  BY <1>5 DEF Holding, Beat, BeatLands, SweepOne
<1>6. ASSUME NEW p \in Proc, Leaving(p) \/ Releasing(p) PROVE TypeOK'
  BY <1>6 DEF Leaving, SweepDone, Finish, Releasing, ReadOwnLock, ReadOwnLockFails, RemoveLock
<1>7. ASSUME World PROVE TypeOK'
  BY <1>7 DEF World, Crash, PidReused, AsideAges, LockAges, GuardAges,
              OperatorRemovesGuard, OperatorRemovesLock
<1>8. CASE UNCHANGED vars
  BY <1>8 DEF vars
<1> QED
  BY <1>1, <1>2, <1>3, <1>4, <1>5, <1>6, <1>7, <1>8 DEF Next

\* TypeOK holds in every state.
LEMMA TypeInvariant == Spec => []TypeOK
<1>1. Init => TypeOK
  BY DEF Init, TypeOK, Labels
<1>2. QED BY <1>1, TypeStep, PTL DEF Spec

-----------------------------------------------------------------------------
(* The inductive step, one lemma per group of actions. *)


\* tryGuarded keeps the invariant: it creates and removes only its own guard.
LEMMA GuardingStep ==
  ASSUME IInv, TypeOK', NEW p \in Proc, Guarding(p)
  PROVE  LockInv'
<1> USE ProcAssumption DEF IInv, LockInv, TypeOK, Labels, callVars, fileVars, guardVars, restVars,
      Goto, Return, EndCall, Undecided, GuardExclusive, UseOfGuard, HoldersLock, Holds,
      PathUnderGuard, NotAlive, Guarded, Inside
<1>1. CASE TakeGuard(p)
  BY <1>1 DEF TakeGuard
<1>2. CASE LeakGuard(p)
  BY <1>2 DEF LeakGuard
<1>3. CASE GuardBusy(p) \/ GuardLooksStale(p) \/ GuardIsStale(p) \/ GuardChanged(p)
  BY <1>3 DEF GuardBusy, GuardLooksStale, GuardIsStale, GuardChanged
<1>4. CASE Unguard(p)
  BY <1>4 DEF Unguard, AfterGuard
<1>5. CASE UnguardFails(p)
  BY <1>5 DEF UnguardFails
<1> QED BY <1>1, <1>2, <1>3, <1>4, <1>5 DEF Guarding

\* Opening, writing and judging the lock keep it.
LEMMA AcquiringStep ==
  ASSUME IInv, TypeOK', NEW p \in Proc, Acquiring(p)
  PROVE  LockInv'
<1> USE ProcAssumption DEF IInv, LockInv, TypeOK, Labels, callVars, fileVars, guardVars, restVars,
      Goto, Return, EndCall, GuardExclusive, UseOfGuard, HoldersLock, Holds,
      PathUnderGuard, NotAlive, Guarded, Inside
<1>1. CASE OpenLock(p)
  BY <1>1 DEF OpenLock
<1>2. CASE WriteLock(p)
  BY <1>2 DEF WriteLock
<1>3. CASE WriteLockFails(p) \/ Judge(p)
  BY <1>3 DEF WriteLockFails, Judge
<1> QED BY <1>1, <1>2, <1>3 DEF Acquiring

\* Breaking a stale lock keeps it, if an owner that is there can be read.
LEMMA BreakingStep ==
  ASSUME IInv, TypeOK', NEW p \in Proc, Breaking(p), "examine-read" \notin Faults
  PROVE  LockInv'
<1> USE ProcAssumption DEF IInv, LockInv, TypeOK, Labels, callVars, fileVars, guardVars, restVars,
      Goto, Return, EndCall, GuardExclusive, UseOfGuard, HoldersLock, Holds,
      PathUnderGuard, NotAlive, Guarded, Inside
<1>1. CASE Examine(p)
  BY <1>1 DEF Examine, LiveOwner
<1>2. CASE ExamineUnread(p)
  BY <1>2 DEF ExamineUnread
<1>3. CASE MoveAside(p)
  BY <1>3 DEF MoveAside
<1>4. CASE MoveAsideFails(p)
  BY <1>4 DEF MoveAsideFails
<1>5. CASE Discard(p)
  BY <1>5 DEF Discard
<1>6. CASE DiscardFails(p) \/ NotJudged(p)
  BY <1>6 DEF DiscardFails, NotJudged
<1>7. CASE Restore(p)
  BY <1>7 DEF Restore
<1>8. CASE RestoreFails(p)
  BY <1>8 DEF RestoreFails
<1> QED BY <1>1, <1>2, <1>3, <1>4, <1>5, <1>6, <1>7, <1>8 DEF Breaking

\* Heartbeats, sweeping, leaving and releasing keep it.
LEMMA HoldingStep ==
  ASSUME IInv, TypeOK', NEW p \in Proc, Holding(p) \/ Leaving(p) \/ Releasing(p)
  PROVE  LockInv'
<1> USE ProcAssumption DEF IInv, LockInv, TypeOK, Labels, callVars, fileVars, guardVars, restVars,
      Goto, Return, EndCall, GuardExclusive, UseOfGuard, HoldersLock, Holds,
      PathUnderGuard, NotAlive, Guarded, Inside
<1>1. CASE Beat(p) \/ BeatLands(p)
  BY <1>1 DEF Beat, BeatLands
<1>2. ASSUME NEW q \in Proc, SweepOne(p, q) PROVE LockInv'
  BY <1>2 DEF SweepOne
<1>3. CASE SweepDone(p) \/ Finish(p)
  BY <1>3 DEF SweepDone, Finish
<1>4. CASE ReadOwnLock(p) \/ ReadOwnLockFails(p)
  BY <1>4 DEF ReadOwnLock, ReadOwnLockFails
<1>5. CASE RemoveLock(p)
  BY <1>5 DEF RemoveLock
<1> QED BY <1>1, <1>2, <1>3, <1>4, <1>5 DEF Holding, Leaving, Releasing

\* Deaths, reused PIDs, time and operators keep it.
LEMMA WorldStep ==
  ASSUME IInv, TypeOK', World
  PROVE  LockInv'
<1> USE ProcAssumption DEF IInv, LockInv, TypeOK, Labels, callVars, fileVars, guardVars, restVars,
      Goto, GuardExclusive, UseOfGuard, HoldersLock, Holds,
      PathUnderGuard, NotAlive, Guarded, Inside
<1>1. ASSUME NEW p \in Proc, Crash(p) PROVE LockInv'
  BY <1>1 DEF Crash
<1>2. ASSUME NEW p \in Proc, PidReused(p) \/ AsideAges(p) PROVE LockInv'
  BY <1>2 DEF PidReused, AsideAges
<1>3. CASE LockAges \/ GuardAges
  BY <1>3 DEF LockAges, GuardAges
<1>4. CASE OperatorRemovesGuard \/ OperatorRemovesLock
  BY <1>4 DEF OperatorRemovesGuard, OperatorRemovesLock, Stopped
<1> QED BY <1>1, <1>2, <1>3, <1>4 DEF World

(* IInv is inductive. *)
LEMMA InductiveInvariant ==
  ASSUME "examine-read" \notin Faults
  PROVE  Spec => []IInv
<1>1. Init => IInv
  <2> SUFFICES ASSUME Init PROVE IInv
    OBVIOUS
  <2>1. TypeOK
    BY DEF Init, TypeOK, Labels
  <2>2. LockInv
    BY DEF Init, LockInv, GuardExclusive, UseOfGuard, HoldersLock, Holds, PathUnderGuard,
           Guarded, Inside
  <2> QED BY <2>1, <2>2 DEF IInv
<1>2. IInv /\ [Next]_vars => IInv'
  <2> SUFFICES ASSUME IInv, [Next]_vars
               PROVE  IInv'
    OBVIOUS
  <2>1. TypeOK'
    BY TypeStep DEF IInv
  <2>2. ASSUME NEW p \in Proc, Call(p) \/ Retry(p) \/ GiveUp(p) PROVE LockInv'
    BY <2>1, <2>2 DEF Call, Retry, GiveUp, Goto, EndCall, IInv, LockInv, TypeOK, Labels,
         callVars, fileVars, guardVars, restVars, GuardExclusive, UseOfGuard, HoldersLock,
         Holds, PathUnderGuard, NotAlive, Guarded, Inside
  <2>3. ASSUME UNCHANGED vars PROVE LockInv'
    BY <2>3 DEF vars, IInv, LockInv, callVars, fileVars, guardVars, restVars,
         GuardExclusive, UseOfGuard, HoldersLock, Holds, PathUnderGuard, NotAlive,
         Guarded, Inside
  <2>4. LockInv'
    <3>1. ASSUME NEW p \in Proc, Guarding(p) PROVE LockInv'
      BY <2>1, <3>1, GuardingStep
    <3>2. ASSUME NEW p \in Proc, Acquiring(p) PROVE LockInv'
      BY <2>1, <3>2, AcquiringStep
    <3>3. ASSUME NEW p \in Proc, Breaking(p) PROVE LockInv'
      BY <2>1, <3>3, BreakingStep
    <3>4. ASSUME NEW p \in Proc, Holding(p) \/ Leaving(p) \/ Releasing(p) PROVE LockInv'
      BY <2>1, <3>4, HoldingStep
    <3>5. CASE World
      BY <2>1, <3>5, WorldStep
    <3> QED BY <2>2, <2>3, <3>1, <3>2, <3>3, <3>4, <3>5 DEF Next
  <2> QED BY <2>1, <2>4 DEF IInv
<1>3. QED BY <1>1, <1>2, PTL DEF Spec

-----------------------------------------------------------------------------
(* At most one process is inside, for any number of processes, however they *)
(* are paused, crash or fail to clean up.                                   *)
THEOREM MutualExclusionHolds ==
  ASSUME "examine-read" \notin Faults
  PROVE  Spec => []MutualExclusion
<1>1. IInv => MutualExclusion
  BY DEF IInv, LockInv, HoldersLock, Holds, MutualExclusion
<1>2. QED BY <1>1, InductiveInvariant, PTL

(* The holder's lock file is at the lock path for as long as it is inside. *)
THEOREM HolderKeepsLockHolds ==
  ASSUME "examine-read" \notin Faults
  PROVE  Spec => []HolderKeepsLock
<1>1. IInv => HolderKeepsLock
  BY DEF IInv, LockInv, HoldersLock, Holds, HolderKeepsLock
<1>2. QED BY <1>1, InductiveInvariant, PTL

(* While a file moved aside is examined the path stays free, and the file   *)
(* is not swept.                                                            *)
THEOREM ExaminationUndisturbed ==
  ASSUME "examine-read" \notin Faults
  PROVE  Spec => [](NobodyBehindTheExaminer /\ SweepSparesExamined)
<1>1. IInv => NobodyBehindTheExaminer /\ SweepSparesExamined
  BY DEF IInv, LockInv, PathUnderGuard, NobodyBehindTheExaminer, SweepSparesExamined
<1>2. QED BY <1>1, InductiveInvariant, PTL

-----------------------------------------------------------------------------
(* What the guard alone promises, whatever fails.  An owner that cannot be  *)
(* read costs a live holder its lock, and nothing else: the guard still has *)
(* one user, and what that user saw at the lock path is still there.        *)
PathStands ==
  \A p \in Proc :
    /\ pc[p] = "write" => lock = Empty
    /\ pc[p] = "remove" => lock = p
    /\ pc[p] \in {"moved", "restore"} => lock = NoFile

GuardInv == TypeOK /\ GuardExclusive /\ UseOfGuard /\ PathStands

\* tryGuarded keeps it: it removes only the guard it created.
LEMMA GuardingKeepsGuard ==
  ASSUME GuardInv, TypeOK', NEW p \in Proc, Guarding(p)
  PROVE  GuardInv'
<1> USE ProcAssumption DEF GuardInv, TypeOK, Labels, callVars, fileVars, guardVars, restVars,
      Goto, EndCall, Undecided, GuardExclusive, UseOfGuard, PathStands, Guarded
<1>1. CASE TakeGuard(p)
  BY <1>1 DEF TakeGuard
<1>2. CASE LeakGuard(p)
  BY <1>2 DEF LeakGuard
<1>3. CASE GuardBusy(p) \/ GuardLooksStale(p) \/ GuardIsStale(p) \/ GuardChanged(p)
  BY <1>3 DEF GuardBusy, GuardLooksStale, GuardIsStale, GuardChanged
<1>4. CASE Unguard(p)
  BY <1>4 DEF Unguard, AfterGuard
<1>5. CASE UnguardFails(p)
  BY <1>5 DEF UnguardFails
<1> QED BY <1>1, <1>2, <1>3, <1>4, <1>5 DEF Guarding

\* Only the guard's user changes the lock path, but for operators.
LEMMA UsersKeepGuard ==
  ASSUME GuardInv, TypeOK', NEW p \in Proc,
         Acquiring(p) \/ Breaking(p) \/ Releasing(p)
  PROVE  GuardInv'
<1> USE ProcAssumption DEF GuardInv, TypeOK, Labels, callVars, fileVars, guardVars, restVars,
      Goto, Return, GuardExclusive, UseOfGuard, PathStands, Guarded
<1>1. CASE OpenLock(p) \/ WriteLock(p)
  BY <1>1 DEF OpenLock, WriteLock
<1>2. CASE WriteLockFails(p) \/ Judge(p)
  BY <1>2 DEF WriteLockFails, Judge
<1>3. CASE Examine(p) \/ ExamineUnread(p)
  BY <1>3 DEF Examine, ExamineUnread
<1>4. CASE MoveAside(p)
  BY <1>4 DEF MoveAside
<1>5. CASE MoveAsideFails(p) \/ Discard(p) \/ DiscardFails(p) \/ NotJudged(p)
  BY <1>5 DEF MoveAsideFails, Discard, DiscardFails, NotJudged
<1>6. CASE Restore(p) \/ RestoreFails(p)
  BY <1>6 DEF Restore, RestoreFails
<1>7. CASE ReadOwnLock(p) \/ ReadOwnLockFails(p) \/ RemoveLock(p)
  BY <1>7 DEF ReadOwnLock, ReadOwnLockFails, RemoveLock
<1> QED BY <1>1, <1>2, <1>3, <1>4, <1>5, <1>6, <1>7 DEF Acquiring, Breaking, Releasing

\* Every step keeps it.
LEMMA GuardInvariant == Spec => []GuardInv
<1>1. Init => GuardInv
  BY DEF Init, GuardInv, TypeOK, Labels, GuardExclusive, UseOfGuard, PathStands, Guarded
<1>2. GuardInv /\ [Next]_vars => GuardInv'
  <2> SUFFICES ASSUME GuardInv, [Next]_vars
               PROVE  GuardInv'
    OBVIOUS
  <2>1. TypeOK'
    BY TypeStep DEF GuardInv
  <2> USE <2>1 DEF GuardInv, TypeOK, Labels, callVars, fileVars, guardVars, restVars,
        Goto, EndCall, GuardExclusive, UseOfGuard, PathStands, Guarded
  <2>2. ASSUME NEW p \in Proc, Call(p) \/ Retry(p) \/ GiveUp(p) \/ Leaving(p) PROVE GuardInv'
    BY <2>2 DEF Call, Retry, GiveUp, Leaving, SweepDone, Finish
  <2>3. ASSUME NEW p \in Proc, Holding(p) PROVE GuardInv'
    BY <2>3 DEF Holding, Beat, BeatLands, SweepOne
  <2>4. CASE World
    BY <2>4 DEF World, Crash, PidReused, AsideAges, LockAges, GuardAges, OperatorRemovesGuard,
       OperatorRemovesLock, Stopped
  <2>5. CASE UNCHANGED vars
    BY <2>5 DEF vars
  <2> HIDE DEF GuardInv
  <2> QED BY <2>2, <2>3, <2>4, <2>5, GuardingKeepsGuard, UsersKeepGuard DEF Next
<1>3. QED BY <1>1, <1>2, PTL DEF Spec

(* Two processes are never under the guard at once, whatever faults there   *)
(* are: while one is in the function given to tryGuarded the guard file is  *)
(* the one it created.                                                      *)
THEOREM GuardExclusiveHolds == Spec => []GuardExclusive
<1>1. GuardInv => GuardExclusive
  BY DEF GuardInv
<1>2. QED BY <1>1, GuardInvariant, PTL

\* A lock file names a process that has run.
NamedHasRun == \A p \in Proc : pc[p] = "off" => lock # p /\ \A q \in Proc : aside[q] # p

\* Owners are written by processes that run, and files only move.
LEMMA NamedStep == ASSUME TypeOK, NamedHasRun, [Next]_vars PROVE NamedHasRun'
<1> USE ProcAssumption DEF NamedHasRun, TypeOK, Labels, callVars, fileVars, guardVars, restVars,
      Goto, Return, EndCall, Undecided
<1>1. ASSUME NEW p \in Proc, Call(p) \/ Retry(p) \/ GiveUp(p) \/ Leaving(p) PROVE NamedHasRun'
  BY <1>1 DEF Call, Retry, GiveUp, Leaving, SweepDone, Finish
<1>2. ASSUME NEW p \in Proc, Guarding(p) PROVE NamedHasRun'
  <2>1. UNCHANGED <<lock, aside>> /\ pc[p] # "off"
    BY <1>2 DEF Guarding, TakeGuard, LeakGuard, GuardBusy, GuardLooksStale, GuardIsStale,
       GuardChanged, Unguard, UnguardFails
  <2>2. \A q \in Proc : pc'[q] = "off" => pc[q] = "off"
    BY <1>2 DEF Guarding, TakeGuard, LeakGuard, GuardBusy, GuardLooksStale, GuardIsStale,
       GuardChanged, Unguard, AfterGuard, UnguardFails
  <2> QED BY <2>1, <2>2
<1>3. ASSUME NEW p \in Proc, Acquiring(p) PROVE NamedHasRun'
  BY <1>3 DEF Acquiring, OpenLock, WriteLock, WriteLockFails, Judge
<1>4. ASSUME NEW p \in Proc, Breaking(p) PROVE NamedHasRun'
  <2>1. \A q \in Proc : pc'[q] = "off" => pc[q] = "off"
    BY <1>4 DEF Breaking, Examine, ExamineUnread, MoveAside, MoveAsideFails, Discard,
       DiscardFails, NotJudged, Restore, RestoreFails
  <2>2. \/ UNCHANGED <<lock, aside>>
        \/ aside' = [aside EXCEPT ![p] = lock] /\ lock' = NoFile
        \/ aside' = [aside EXCEPT ![p] = NoFile] /\ lock' \in {lock, aside[p]}
    BY <1>4 DEF Breaking, Examine, ExamineUnread, MoveAside, MoveAsideFails, Discard,
       DiscardFails, NotJudged, Restore, RestoreFails
  <2> QED BY <2>1, <2>2
<1>5. ASSUME NEW p \in Proc, Holding(p) PROVE NamedHasRun'
  BY <1>5 DEF Holding, Beat, BeatLands, SweepOne
<1>6. ASSUME NEW p \in Proc, Releasing(p) PROVE NamedHasRun'
  BY <1>6 DEF Releasing, ReadOwnLock, ReadOwnLockFails, RemoveLock
<1>7. CASE World
  BY <1>7 DEF World, Crash, PidReused, AsideAges, LockAges, GuardAges, OperatorRemovesGuard,
     OperatorRemovesLock
<1>8. CASE UNCHANGED vars
  BY <1>8 DEF vars
<1> QED BY <1>1, <1>2, <1>3, <1>4, <1>5, <1>6, <1>7, <1>8 DEF Next

\* The lock of a live process goes away only by its own release, or when it is
\* moved aside by a break: no fault makes a release take a successor's lock.
THEOREM ReleaseSparesSuccessorHolds == Spec => ReleaseSparesSuccessor
<1> DEFINE Spared == \A p \in Proc : lock = p /\ pc[p] # "dead" /\ lock' # p =>
       \/ pc[p] = "remove" /\ pc'[p] # "remove"
       \/ \E q \in Proc : pc[q] = "rename" /\ pc'[q] = "moved"
<1>1. Init => NamedHasRun
  BY ProcAssumption DEF Init, NamedHasRun
<1>2. GuardInv /\ NamedHasRun /\ [Next]_vars => NamedHasRun'
  BY NamedStep DEF GuardInv
<1>3. GuardInv /\ NamedHasRun /\ [Next]_vars => Spared
  <2> SUFFICES ASSUME GuardInv, NamedHasRun, [Next]_vars,
                      NEW p \in Proc, lock = p, pc[p] # "dead", lock' # p
               PROVE  \/ pc[p] = "remove" /\ pc'[p] # "remove"
                      \/ \E q \in Proc : pc[q] = "rename" /\ pc'[q] = "moved"
    OBVIOUS
  <2> USE ProcAssumption DEF callVars, fileVars, guardVars, restVars
  <2>1. ASSUME NEW q \in Proc, Call(q) \/ Retry(q) \/ GiveUp(q) \/ Guarding(q) \/ Leaving(q) \/ Holding(q)
        PROVE  FALSE
    BY <2>1 DEF Call, Retry, GiveUp, Guarding, TakeGuard, LeakGuard, GuardBusy, GuardLooksStale,
       GuardIsStale, GuardChanged, Unguard, UnguardFails, Leaving, SweepDone, Finish, Holding, Beat,
       BeatLands, SweepOne
  <2>2. ASSUME NEW q \in Proc, Acquiring(q) PROVE FALSE
    BY <2>2 DEF Acquiring, OpenLock, WriteLock, WriteLockFails, Judge, GuardInv, PathStands
  <2>3. ASSUME NEW q \in Proc, Breaking(q) PROVE pc[q] = "rename" /\ pc'[q] = "moved"
    <3>1. CASE MoveAside(q)
      BY <3>1 DEF MoveAside, Return, Goto, GuardInv, TypeOK
    <3>2. CASE Restore(q)
      BY <3>2 DEF Restore, GuardInv, PathStands
    <3> QED
      BY <2>3, <3>1, <3>2 DEF Breaking, Examine, ExamineUnread, MoveAsideFails, Discard,
         DiscardFails, NotJudged, RestoreFails
  <2>4. ASSUME NEW q \in Proc, Releasing(q) PROVE pc[p] = "remove" /\ pc'[p] # "remove"
    <3>1. RemoveLock(q)
      BY <2>4 DEF Releasing, ReadOwnLock, ReadOwnLockFails
    <3>2. q = p
      BY <3>1 DEF RemoveLock, GuardInv, PathStands
    <3> QED
      BY <3>1, <3>2 DEF RemoveLock, Return, Goto, GuardInv, TypeOK
  <2>5. CASE World
    BY <2>5 DEF World, Crash, PidReused, AsideAges, LockAges, GuardAges, OperatorRemovesGuard,
       OperatorRemovesLock, Stopped, NamedHasRun
  <2>6. CASE UNCHANGED vars
    BY <2>6 DEF vars
  <2> QED BY <2>1, <2>2, <2>3, <2>4, <2>5, <2>6 DEF Next
<1> QED
  BY <1>1, <1>2, <1>3, GuardInvariant, PTL DEF Spec, ReleaseSparesSuccessor

\* A guard left by a dead process keeps everybody out until every process has
\* been stopped and the guard removed.
THEOREM AbandonedGuardFailsClosedHolds == Spec => AbandonedGuardFailsClosed
<1> DEFINE Closed == \A d \in Proc : guard = d /\ pc[d] = "dead" =>
       /\ guard' = d \/ \A p \in Proc : pc[p] \in Stopped
       /\ \A p \in Proc : pc'[p] \in Inside => pc[p] \in Inside
<1>1. GuardInv /\ [Next]_vars => Closed
  <2> SUFFICES ASSUME GuardInv, [Next]_vars, NEW d \in Proc, guard = d, pc[d] = "dead"
               PROVE  /\ guard' = d \/ \A p \in Proc : pc[p] \in Stopped
                      /\ \A p \in Proc : pc'[p] \in Inside => pc[p] \in Inside
    OBVIOUS
  <2> USE ProcAssumption DEF callVars, fileVars, guardVars, restVars, GuardInv, TypeOK, Goto, Return,
        EndCall, Undecided, Inside
  <2>1. ASSUME NEW q \in Proc, Call(q) \/ Retry(q) \/ GiveUp(q) \/ Leaving(q) \/ Holding(q)
        PROVE  guard' = d /\ \A p \in Proc : pc'[p] \in Inside => pc[p] \in Inside
    BY <2>1 DEF Call, Retry, GiveUp, Leaving, SweepDone, Finish, Holding, Beat, BeatLands, SweepOne
  <2>2. ASSUME NEW q \in Proc, Guarding(q)
        PROVE  guard' = d /\ \A p \in Proc : pc'[p] \in Inside => pc[p] \in Inside
    <3>1. ~ Unguard(q) /\ ~ TakeGuard(q) /\ ~ LeakGuard(q)
      BY DEF Unguard, TakeGuard, LeakGuard, GuardExclusive, Guarded
    <3> QED
      BY <2>2, <3>1 DEF Guarding, GuardBusy, GuardLooksStale, GuardIsStale, GuardChanged, UnguardFails
  <2>3. ASSUME NEW q \in Proc, Acquiring(q) \/ Releasing(q)
        PROVE  guard' = d /\ \A p \in Proc : pc'[p] \in Inside => pc[p] \in Inside
    BY <2>3 DEF Acquiring, OpenLock, WriteLock, WriteLockFails, Judge, Releasing, ReadOwnLock,
       ReadOwnLockFails, RemoveLock
  <2>4. ASSUME NEW q \in Proc, Breaking(q)
        PROVE  guard' = d /\ \A p \in Proc : pc'[p] \in Inside => pc[p] \in Inside
    BY <2>4 DEF Breaking, Examine, ExamineUnread, MoveAside, MoveAsideFails, Discard, DiscardFails,
       NotJudged, Restore, RestoreFails
  <2>5. CASE World
    BY <2>5 DEF World, Crash, PidReused, AsideAges, LockAges, GuardAges, OperatorRemovesGuard,
       OperatorRemovesLock
  <2>6. CASE UNCHANGED vars
    BY <2>6 DEF vars
  <2> QED BY <2>1, <2>2, <2>3, <2>4, <2>5, <2>6 DEF Next
<1> QED
  BY <1>1, GuardInvariant, PTL DEF Spec, AbandonedGuardFailsClosed

-----------------------------------------------------------------------------
(* FileLock implements Mutex.  Only five kinds of step change what Mutex    *)
(* sees: writing the owner acquires, removing the guard after it enters,    *)
(* the operation's end leaves, removing the lock releases, and a death.     *)
InsideSet == {p \in Proc : pc[p] \in Inside}
DeadSet == {p \in Proc : pc[p] = "dead"}

\* What Mutex sees of a step of p that is none of these.
LEMMA QuietStep ==
  ASSUME IInv, NEW p \in Proc, pc[p] # "dead",
         NEW label \in Labels \ {"dead"}, Goto(p, label),
         pc[p] \in Inside <=> label \in Inside,
         lock' = lock \/ (NotAlive(lock) /\ NotAlive(lock'))
  PROVE  UNCHANGED <<Owner, InsideSet, DeadSet>>
<1> USE DEF IInv, TypeOK, Goto
<1>1. UNCHANGED InsideSet
  BY DEF InsideSet, Inside
<1>2. \A q \in Proc : pc'[q] = "dead" <=> pc[q] = "dead"
  OBVIOUS
<1>3. UNCHANGED DeadSet
  BY <1>2 DEF DeadSet
<1>4. UNCHANGED Owner
  BY <1>2 DEF Owner, NotAlive
<1> QED BY <1>1, <1>3, <1>4

\* No file, and a lock without an owner, name nobody who lives.
LEMMA NobodyAlive == ProcAssumption => NotAlive(NoFile) /\ NotAlive(Empty)
BY DEF ProcAssumption, NotAlive
(* A step of a process, as Mutex sees it. *)
Seen == [M!Next]_(M!vars)

\* A step that changes nothing Mutex sees is a stutter.
LEMMA QuietSeen ==
  ASSUME UNCHANGED <<Owner, InsideSet, DeadSet>>
  PROVE  Seen
BY DEF Seen, M!vars, InsideSet, DeadSet

\* So are starting, retrying and giving up a call.
LEMMA QuietCall ==
  ASSUME IInv, NEW p \in Proc, Call(p) \/ Retry(p) \/ GiveUp(p)
  PROVE  Seen
<1> USE DEF callVars, fileVars, guardVars, restVars, EndCall
<1>1. pc[p] \in {"off", "idle", "wait"} /\ lock' = lock /\ \E label \in {"guard", "idle"} : Goto(p, label)
  BY DEF Call, Retry, GiveUp
<1>2. UNCHANGED <<Owner, InsideSet, DeadSet>>
  BY <1>1, QuietStep DEF Labels, Inside
<1> QED BY <1>2, QuietSeen

\* So is everything tryGuarded does but removing the guard.
LEMMA QuietGuarding ==
  ASSUME IInv, NEW p \in Proc, Guarding(p), ~Unguard(p)
  PROVE  Seen
<1> USE DEF callVars, fileVars, guardVars, restVars, EndCall, Undecided
<1>1. /\ pc[p] \in {"guard", "stale", "unguard"} /\ lock' = lock
      /\ \E label \in {"body", "stale", "idle", "judge", "wait"} : Goto(p, label)
  <2>1. CASE TakeGuard(p) \/ LeakGuard(p)
    BY <2>1 DEF TakeGuard, LeakGuard
  <2>2. CASE GuardBusy(p) \/ GuardLooksStale(p) \/ GuardIsStale(p) \/ GuardChanged(p)
    BY <2>2 DEF GuardBusy, GuardLooksStale, GuardIsStale, GuardChanged
  <2>3. CASE UnguardFails(p)
    BY <2>3 DEF UnguardFails
  <2> QED BY <2>1, <2>2, <2>3 DEF Guarding
<1>2. UNCHANGED <<Owner, InsideSet, DeadSet>>
  BY <1>1, QuietStep DEF Labels, Inside
<1> QED BY <1>2, QuietSeen

\* Removing the guard after an acquisition enters.
LEMMA UnguardSeen ==
  ASSUME IInv, NEW p \in Proc, Unguard(p)
  PROVE  Seen
<1> USE DEF callVars, fileVars, guardVars, restVars, EndCall
<1>1. CASE res[p] = "true" /\ ctx[p] = "acquire"
  <2>1. pc[p] = "unguard" /\ lock = p /\ lock' = lock /\ Goto(p, "sweep")
    BY <1>1 DEF Unguard, AfterGuard, IInv, LockInv, HoldersLock, Holds
  <2>2. InsideSet' = InsideSet \cup {p} /\ p \notin InsideSet /\ UNCHANGED DeadSet
    BY <2>1 DEF InsideSet, DeadSet, Inside, Goto, IInv, TypeOK
  <2>3. Owner = p /\ Owner' = p
    BY <2>1 DEF Owner, Goto, IInv, TypeOK
  <2>4. M!Enter(p)
    BY <2>2, <2>3 DEF M!Enter, InsideSet, DeadSet
  <2> QED BY <2>4 DEF Seen, M!Next
<1>2. CASE ~(res[p] = "true" /\ ctx[p] = "acquire")
  <2>1. /\ pc[p] = "unguard" /\ lock' = lock
        /\ \E label \in {"guard", "idle", "judge", "wait"} : Goto(p, label)
    BY <1>2 DEF Unguard, AfterGuard
  <2>2. UNCHANGED <<Owner, InsideSet, DeadSet>>
    BY <2>1, QuietStep DEF Labels, Inside
  <2> QED BY <2>2, QuietSeen
<1> QED BY <1>1, <1>2

\* Writing the owner into the lock file acquires.
LEMMA AcquiringSeen ==
  ASSUME IInv, NEW p \in Proc, Acquiring(p)
  PROVE  Seen
<1> USE DEF callVars, fileVars, guardVars, restVars, Return
<1>1. CASE OpenLock(p)
  <2>1. /\ pc[p] = "body"
        /\ lock' = lock \/ (lock = NoFile /\ lock' = Empty)
        /\ \E label \in {"unguard", "write"} : Goto(p, label)
    BY <1>1 DEF OpenLock
  <2>2. lock' = lock \/ (NotAlive(lock) /\ NotAlive(lock'))
    BY <2>1, NobodyAlive, ProcAssumption
  <2>3. UNCHANGED <<Owner, InsideSet, DeadSet>>
    BY <2>1, <2>2, QuietStep DEF Labels, Inside
  <2> QED BY <2>3, QuietSeen
<1>2. CASE WriteLock(p)
  <2>1. pc[p] = "write" /\ lock = Empty /\ lock' = p /\ Goto(p, "unguard")
    BY <1>2 DEF WriteLock, IInv, LockInv, PathUnderGuard
  <2>2. UNCHANGED InsideSet /\ UNCHANGED DeadSet /\ p \notin DeadSet
    BY <2>1 DEF InsideSet, DeadSet, Inside, Goto, IInv, TypeOK
  <2>3. Owner = NoFile /\ Owner' = p
    BY <2>1, ProcAssumption DEF Owner, Goto, IInv, TypeOK
  <2>4. M!Acquire(p)
    BY <2>2, <2>3 DEF M!Acquire, InsideSet, DeadSet
  <2> QED BY <2>4 DEF Seen, M!Next
<1>3. CASE WriteLockFails(p) \/ Judge(p)
  <2>1. /\ pc[p] \in {"write", "judge"} /\ lock' = lock
        /\ \E label \in {"unguard", "guard", "wait"} : Goto(p, label)
    BY <1>3 DEF WriteLockFails, Judge
  <2>2. UNCHANGED <<Owner, InsideSet, DeadSet>>
    BY <2>1, QuietStep DEF Labels, Inside
  <2> QED BY <2>2, QuietSeen
<1> QED BY <1>1, <1>2, <1>3 DEF Acquiring

\* Breaking never takes a lock from an owner Mutex sees.
LEMMA BreakingSeen ==
  ASSUME IInv, NEW p \in Proc, Breaking(p)
  PROVE  Seen
<1> USE DEF callVars, fileVars, guardVars, restVars, Return
<1>1. /\ pc[p] \in {"body", "rename", "moved", "restore"}
      /\ lock' = lock \/ (NotAlive(lock) /\ NotAlive(lock'))
      /\ \E label \in {"unguard", "rename", "moved", "restore"} : Goto(p, label)
  <2> USE DEF IInv, LockInv, PathUnderGuard, TypeOK
  <2>1. CASE Examine(p) \/ ExamineUnread(p)
    BY <2>1 DEF Examine, ExamineUnread
  <2>2. CASE MoveAside(p) \/ MoveAsideFails(p)
    <3>1. pc[p] = "rename" /\ (lock' = lock \/ lock' = NoFile)
      BY <2>2 DEF MoveAside, MoveAsideFails
    <3>2. lock' = lock \/ (NotAlive(lock) /\ lock' = NoFile)
      BY <3>1
    <3>3. NotAlive(NoFile)
      BY ProcAssumption DEF NotAlive
    <3>4. \E label \in {"unguard", "moved"} : Goto(p, label)
      BY <2>2 DEF MoveAside, MoveAsideFails
    <3> QED BY <3>1, <3>2, <3>3, <3>4
  <2>3. CASE Discard(p) \/ DiscardFails(p) \/ NotJudged(p)
    BY <2>3 DEF Discard, DiscardFails, NotJudged
  <2>4. CASE Restore(p) \/ RestoreFails(p)
    <3>1. pc[p] = "restore" /\ Goto(p, "unguard") /\ (lock' = lock \/ lock' = aside[p])
      BY <2>4 DEF Restore, RestoreFails
    <3>2. lock = NoFile /\ NotAlive(aside[p])
      BY <3>1
    <3>3. NotAlive(lock) /\ (lock' = lock \/ NotAlive(lock'))
      BY <3>1, <3>2, ProcAssumption DEF NotAlive
    <3> QED BY <3>1, <3>3
  <2> QED BY <2>1, <2>2, <2>3, <2>4 DEF Breaking
<1>2. UNCHANGED <<Owner, InsideSet, DeadSet>>
  BY <1>1, QuietStep DEF Labels, Inside
<1> QED BY <1>2, QuietSeen

\* The end of the operation leaves, removing the lock releases.
LEMMA HoldingSeen ==
  ASSUME IInv, NEW p \in Proc, Holding(p) \/ Leaving(p) \/ Releasing(p)
  PROVE  Seen
<1> USE DEF callVars, fileVars, guardVars, restVars, Return
<1>1. CASE Holding(p)
  <2>1. UNCHANGED <<pc, lock>>
    BY <1>1 DEF Holding, Beat, BeatLands, SweepOne
  <2>2. UNCHANGED <<Owner, InsideSet, DeadSet>>
    BY <2>1 DEF Owner, InsideSet, DeadSet
  <2> QED BY <2>2, QuietSeen
<1>2. CASE SweepDone(p)
  <2>1. UNCHANGED <<Owner, InsideSet, DeadSet>>
    BY <1>2, QuietStep DEF SweepDone, Labels, Inside
  <2> QED BY <2>1, QuietSeen
<1>3. CASE Finish(p)
  <2>1. pc[p] = "cs" /\ lock = p /\ lock' = p /\ Goto(p, "guard")
    BY <1>3 DEF Finish, IInv, LockInv, HoldersLock, Holds, Inside
  <2>2. InsideSet' = InsideSet \ {p} /\ p \in InsideSet /\ UNCHANGED DeadSet
    BY <2>1 DEF InsideSet, DeadSet, Inside, Goto, IInv, TypeOK
  <2>3. Owner = p /\ Owner' = p
    BY <2>1 DEF Owner, Goto, IInv, TypeOK
  <2>4. M!Leave(p)
    BY <2>2, <2>3 DEF M!Leave, InsideSet, DeadSet
  <2> QED BY <2>4 DEF Seen, M!Next
<1>4. CASE ReadOwnLock(p) \/ ReadOwnLockFails(p)
  <2>1. /\ pc[p] = "body" /\ lock' = lock
        /\ \E label \in {"unguard", "remove"} : Goto(p, label)
    BY <1>4 DEF ReadOwnLock, ReadOwnLockFails
  <2>2. UNCHANGED <<Owner, InsideSet, DeadSet>>
    BY <2>1, QuietStep DEF Labels, Inside
  <2> QED BY <2>2, QuietSeen
<1>5. CASE RemoveLock(p)
  <2>1. pc[p] = "remove" /\ lock = p /\ lock' = NoFile /\ Goto(p, "unguard")
    BY <1>5 DEF RemoveLock, IInv, LockInv, PathUnderGuard
  <2>2. UNCHANGED InsideSet /\ UNCHANGED DeadSet /\ p \notin InsideSet
    BY <2>1 DEF InsideSet, DeadSet, Inside, Goto, IInv, TypeOK
  <2>3. Owner = p /\ Owner' = NoFile
    BY <2>1, ProcAssumption DEF Owner, Goto, IInv, TypeOK
  <2>4. M!Release(p)
    BY <2>2, <2>3 DEF M!Release, InsideSet, DeadSet
  <2> QED BY <2>4 DEF Seen, M!Next
<1> QED BY <1>1, <1>2, <1>3, <1>4, <1>5 DEF Leaving, Releasing

\* A crash is a death, and an operator removes only what nobody uses.
LEMMA WorldSeen ==
  ASSUME IInv, World
  PROVE  Seen
<1> USE DEF callVars, fileVars, guardVars, restVars
<1>1. ASSUME NEW p \in Proc, Crash(p) PROVE Seen
  <2>1. pc[p] # "dead" /\ lock' = lock /\ Goto(p, "dead")
    BY <1>1 DEF Crash
  <2>2. /\ InsideSet' = InsideSet \ {p} /\ DeadSet' = DeadSet \cup {p} /\ p \notin DeadSet
    BY <2>1 DEF InsideSet, DeadSet, Inside, Goto, IInv, TypeOK
  <2>3. Owner' = IF Owner = p THEN NoFile ELSE Owner
    BY <2>1, ProcAssumption DEF Owner, Goto, IInv, TypeOK
  <2>4. M!Die(p)
    BY <2>2, <2>3 DEF M!Die, InsideSet, DeadSet
  <2> QED BY <2>4 DEF Seen, M!Next
<1>2. CASE UNCHANGED <<pc, lock>>
  <2>1. UNCHANGED <<Owner, InsideSet, DeadSet>>
    BY <1>2 DEF Owner, InsideSet, DeadSet
  <2> QED BY <2>1, QuietSeen
<1>3. CASE OperatorRemovesLock
  <2>1. lock' = NoFile /\ UNCHANGED pc /\ InsideSet = {}
    BY <1>3 DEF OperatorRemovesLock, Stopped, InsideSet, Inside
  <2>2. UNCHANGED <<InsideSet, DeadSet>> /\ Owner' = NoFile
    BY <2>1, ProcAssumption DEF InsideSet, DeadSet, Owner
  <2>3. CASE Owner = NoFile
    BY <2>2, <2>3, QuietSeen
  <2>4. CASE Owner # NoFile
    <3>1. Owner \in Proc
      BY <2>4 DEF Owner
    <3>2. M!Release(Owner)
      BY <2>1, <2>2, <3>1 DEF M!Release, InsideSet, DeadSet
    <3> QED BY <3>1, <3>2 DEF Seen, M!Next
  <2> QED BY <2>3, <2>4
<1> QED BY <1>1, <1>2, <1>3
        DEF World, PidReused, AsideAges, LockAges, GuardAges, OperatorRemovesGuard

(* The lock file, its guard and its recovery together behave as a mutex with *)
(* crashing owners: no step of any process shows Mutex anything it forbids.  *)
THEOREM LockImplementsMutex ==
  ASSUME "examine-read" \notin Faults
  PROVE  Spec => ImplementsMutex
<1>1. Init => M!Init
  BY ProcAssumption DEF Init, M!Init, Owner, Inside
<1>2. IInv /\ [Next]_vars => Seen
  <2> SUFFICES ASSUME IInv, [Next]_vars
               PROVE  Seen
    OBVIOUS
  <2>1. ASSUME NEW p \in Proc, Call(p) \/ Retry(p) \/ GiveUp(p) PROVE Seen
    BY <2>1, QuietCall
  <2>2. ASSUME NEW p \in Proc, Guarding(p) PROVE Seen
    BY <2>2, QuietGuarding, UnguardSeen
  <2>3. ASSUME NEW p \in Proc, Acquiring(p) PROVE Seen
    BY <2>3, AcquiringSeen
  <2>4. ASSUME NEW p \in Proc, Breaking(p) PROVE Seen
    BY <2>4, BreakingSeen
  <2>5. ASSUME NEW p \in Proc, Holding(p) \/ Leaving(p) \/ Releasing(p) PROVE Seen
    BY <2>5, HoldingSeen
  <2>6. CASE World
    BY <2>6, WorldSeen
  <2>7. CASE UNCHANGED vars
    <3>1. UNCHANGED <<Owner, InsideSet, DeadSet>>
      BY <2>7 DEF vars, callVars, fileVars, Owner, InsideSet, DeadSet
    <3> QED BY <3>1, QuietSeen
  <2> QED BY <2>1, <2>2, <2>3, <2>4, <2>5, <2>6, <2>7 DEF Next
<1>3. QED
  BY <1>1, <1>2, InductiveInvariant, PTL DEF Spec, ImplementsMutex, M!Spec, Seen
=============================================================================
