---------------------------- MODULE LabLockProofs ----------------------------
(***************************************************************************)
(* What LabLock promises for any number of processes: its type invariant,  *)
(* exclusion while no lock has been stolen, and that no lock file leaks.   *)
(***************************************************************************)
EXTENDS LabLock, TLAPS

-----------------------------------------------------------------------------
(* Types. *)

LEMMA LockTypeStep == LockTypeOK /\ [LockNext]_lockVars => LockTypeOK'
<1> SUFFICES ASSUME LockTypeOK, [LockNext]_lockVars PROVE LockTypeOK'
  OBVIOUS
<1> USE NoProcAssumption
<1>1. ASSUME NEW p \in Procs, Launch(p) PROVE LockTypeOK'
  BY <1>1 DEF LockTypeOK, Launch, Phase, Phases
<1>2. ASSUME NEW p \in Procs, StartAcquire(p) PROVE LockTypeOK'
  BY <1>2 DEF LockTypeOK, StartAcquire, Phase, Phases
<1>3. ASSUME NEW p \in Procs, AcquireStep(p) PROVE LockTypeOK'
  <2>1. CASE CreateLock(p)
    BY <2>1 DEF LockTypeOK, CreateLock, Phase, Phases
  <2>2. CASE LockExists(p) \/ OpenError(p) \/ HolderUnknown(p) \/ Deny(p) \/ FindStale(p)
             \/ ReclaimFails(p)
    BY <2>2 DEF LockTypeOK, LockExists, OpenError, HolderUnknown, Deny, FindStale, ReclaimFails,
                Phase, Phases
  <2>3. CASE WritePid(p)
    BY <2>3 DEF LockTypeOK, WritePid, Phase, Phases
  <2>4. CASE ReadHolder(p)
    BY <2>4 DEF LockTypeOK, ReadHolder, Phase, Phases
  <2>5. CASE Reclaim(p)
    BY <2>5 DEF LockTypeOK, Reclaim, Phase, Phases, NoLock
  <2> QED BY <1>3, <2>1, <2>2, <2>3, <2>4, <2>5 DEF AcquireStep
<1>4. ASSUME NEW p \in Procs, Release(p) PROVE LockTypeOK'
  BY <1>4 DEF LockTypeOK, Release, Phase, Phases, NoLock
<1>5. ASSUME NEW p \in Procs, Die(p) PROVE LockTypeOK'
  BY <1>5 DEF LockTypeOK, Die, Phases
<1>6. ASSUME NEW p \in Procs, IgnoredError(p) PROVE LockTypeOK'
  BY <1>6 DEF LockTypeOK, IgnoredError, WritePidFails, HolderUnreadable, ReleaseFails, Phase, Phases
<1>7. CASE UNCHANGED lockVars
  BY <1>7 DEF LockTypeOK, lockVars
<1> QED BY <1>1, <1>2, <1>3, <1>4, <1>5, <1>6, <1>7 DEF LockNext

LEMMA LockTypeInit == LockInit => LockTypeOK
<1> SUFFICES ASSUME LockInit PROVE LockTypeOK
  OBVIOUS
<1>1. lockfile \in [by : Procs \cup {NoProc}, pid : Procs \cup {NoProc}]
  BY DEF LockInit, NoLock
<1>2. lk \in [Procs -> Phases]
  BY DEF LockInit, Phases
<1>3. seen \in [Procs -> Procs \cup {NoProc}]
  BY DEF LockInit
<1> QED BY <1>1, <1>2, <1>3 DEF LockInit, LockTypeOK

\* LockTypeOK is an invariant for every set of processes.
THEOREM LockTypeInvariant == LockSpec => []LockTypeOK
  BY LockTypeInit, LockTypeStep, PTL DEF LockSpec

-----------------------------------------------------------------------------
(* Exclusion.  The inductive invariant: while no lock has been stolen, the   *)
(* file at the path is the one that the holder has created.                  *)

OwnFile == ~stolen => \A p \in Procs : Holds(p) => lockfile.by = p

LEMMA OwnFileStep == LockTypeOK /\ OwnFile /\ [LockNext]_lockVars => OwnFile'
<1> SUFFICES ASSUME LockTypeOK, OwnFile, [LockNext]_lockVars, ~stolen',
                    NEW q \in Procs, Holds(q)'
             PROVE  lockfile'.by = q
  BY DEF OwnFile
<1> USE NoProcAssumption
<1>1. ASSUME NEW p \in Procs, Launch(p) \/ StartAcquire(p) PROVE lockfile'.by = q
  BY <1>1 DEF LockTypeOK, OwnFile, Holds, Launch, StartAcquire, Phase
<1>2. ASSUME NEW p \in Procs, AcquireStep(p) PROVE lockfile'.by = q
  <2>1. CASE CreateLock(p)
    BY <2>1 DEF LockTypeOK, OwnFile, Holds, CreateLock, Phase, NoLock
  <2>2. CASE LockExists(p) \/ OpenError(p) \/ HolderUnknown(p) \/ ReadHolder(p)
             \/ Deny(p) \/ FindStale(p) \/ ReclaimFails(p)
    BY <2>2 DEF LockTypeOK, OwnFile, Holds, LockExists, OpenError, HolderUnknown, ReadHolder,
                Deny, FindStale, ReclaimFails, Phase
  <2>3. CASE WritePid(p)
    BY <2>3 DEF LockTypeOK, OwnFile, Holds, WritePid, Phase
  <2>4. CASE Reclaim(p)
    BY <2>4 DEF LockTypeOK, OwnFile, Holds, Reclaim, Phase
  <2> QED BY <1>2, <2>1, <2>2, <2>3, <2>4 DEF AcquireStep
<1>3. ASSUME NEW p \in Procs, Release(p) PROVE lockfile'.by = q
  BY <1>3 DEF LockTypeOK, OwnFile, Holds, Release, Phase
<1>4. ASSUME NEW p \in Procs, Die(p) PROVE lockfile'.by = q
  BY <1>4 DEF LockTypeOK, OwnFile, Holds, Die
<1>5. ASSUME NEW p \in Procs, IgnoredError(p) PROVE lockfile'.by = q
  BY <1>5 DEF LockTypeOK, OwnFile, Holds, IgnoredError, WritePidFails, HolderUnreadable,
              ReleaseFails, Phase
<1>6. CASE UNCHANGED lockVars
  BY <1>6 DEF OwnFile, Holds, lockVars
<1> QED BY <1>1, <1>2, <1>3, <1>4, <1>5, <1>6 DEF LockNext

\* Two processes hold the lock only if an Acquire has unlinked the lock file
\* of a process that was holding it.
THEOREM LockExclusion == LockSpec => []ExclusiveUnlessStolen
<1>1. LockInit => OwnFile
  BY DEF LockInit, OwnFile, Holds
<1>2. OwnFile => ExclusiveUnlessStolen
  BY DEF OwnFile, ExclusiveUnlessStolen, MutualExclusion
<1> QED BY <1>1, <1>2, LockTypeInvariant, OwnFileStep, PTL DEF LockSpec

-----------------------------------------------------------------------------
(* No leak. *)

LEMMA NoLeakStep == LockTypeOK /\ NoLockLeak /\ [LockNext]_lockVars => NoLockLeak'
<1> SUFFICES ASSUME LockTypeOK, NoLockLeak, [LockNext]_lockVars,
                    NEW q \in Procs, lockfile'.by = q
             PROVE  Holds(q)' \/ lk'[q] \in {"leaked", "gone"}
  BY DEF NoLockLeak
<1> DEFINE Left == Holds(q)' \/ lk'[q] \in {"leaked", "gone"}
<1> USE NoProcAssumption
<1>1. ASSUME NEW p \in Procs, Launch(p) \/ StartAcquire(p)
      PROVE  Left
  BY <1>1 DEF LockTypeOK, NoLockLeak, Holds, Launch, StartAcquire, Phase
<1>2. ASSUME NEW p \in Procs, AcquireStep(p) PROVE Left
  <2>1. CASE CreateLock(p)
    BY <2>1 DEF LockTypeOK, Holds, CreateLock, Phase
  <2>2. CASE LockExists(p) \/ OpenError(p) \/ HolderUnknown(p) \/ ReadHolder(p)
             \/ Deny(p) \/ FindStale(p) \/ ReclaimFails(p)
    BY <2>2 DEF LockTypeOK, NoLockLeak, Holds, LockExists, OpenError, HolderUnknown, ReadHolder,
                Deny, FindStale, ReclaimFails, Phase
  <2>3. CASE WritePid(p)
    BY <2>3 DEF LockTypeOK, NoLockLeak, Holds, WritePid, Phase
  <2>4. CASE Reclaim(p)
    BY <2>4 DEF LockTypeOK, Reclaim, Phase, NoLock
  <2> QED BY <1>2, <2>1, <2>2, <2>3, <2>4 DEF AcquireStep
<1>3. ASSUME NEW p \in Procs, Release(p) PROVE Left
  BY <1>3 DEF LockTypeOK, Release, Phase, NoLock
<1>4. ASSUME NEW p \in Procs, Die(p) PROVE Left
  BY <1>4 DEF LockTypeOK, NoLockLeak, Holds, Die
<1>5. ASSUME NEW p \in Procs, IgnoredError(p) PROVE Left
  BY <1>5 DEF LockTypeOK, NoLockLeak, Holds, IgnoredError, WritePidFails, HolderUnreadable,
              ReleaseFails, Phase
<1>6. CASE UNCHANGED lockVars
  BY <1>6 DEF NoLockLeak, Holds, lockVars
<1> QED BY <1>1, <1>2, <1>3, <1>4, <1>5, <1>6 DEF LockNext

\* The file at the path belongs to a process that holds the lock, that has died,
\* or whose Release could not remove it: the retries of Acquire leave no file.
THEOREM LockLeak == LockSpec => []NoLockLeak
<1>1. LockInit => NoLockLeak
  BY NoProcAssumption DEF LockInit, NoLockLeak, NoLock
<1> QED BY <1>1, LockTypeInvariant, NoLeakStep, PTL DEF LockSpec
=============================================================================
