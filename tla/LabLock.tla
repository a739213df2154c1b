------------------------------- MODULE LabLock -------------------------------
(***************************************************************************)
(* The advisory mutation lock of the lab CLI, internal/executor/lock.go,   *)
(* at the granularity of its system calls: every file operation of Acquire *)
(* and Release is a step that other processes may interleave with.         *)
(*                                                                         *)
(* A member of Procs is one invocation of the CLI, that is one PID, and a  *)
(* PID is used once.  The lock file is the record of the process that      *)
(* created it and of the PID that can be read in it: between O_EXCL        *)
(* creation and the write of the PID the file is empty.                    *)
(*                                                                         *)
(* The errors of the calls that lock.go does not look at are steps of their *)
(* own: a PID that is not written, a lock file that is not read, and one    *)
(* that is not removed, by Acquire or by Release.                           *)
(***************************************************************************)
CONSTANTS
  Procs,      \* invocations of the CLI, each with a PID of its own
  NoProc      \* no process: the content of an empty or missing lock file

ASSUME NoProcAssumption == NoProc \notin Procs

VARIABLES
  lockfile,   \* /var/lib/lab/lab.lock
  lk,         \* lk[p]: how far p is in Acquire or Release
  seen,       \* seen[p]: the holder PID that p read from the lock file
  stolen      \* ghost: an Acquire has unlinked the lock of a live holder

lockVars == <<lockfile, lk, seen, stolen>>

NoLock == [by |-> NoProc, pid |-> NoProc]

Phases == {"new", "idle", "open", "exists", "probe", "reclaim", "created",
           "held", "denied", "error", "released", "leaked", "gone"}

LockTypeOK ==
  /\ lockfile \in [by : Procs \cup {NoProc}, pid : Procs \cup {NoProc}]
  /\ lk \in [Procs -> Phases]
  /\ seen \in [Procs -> Procs \cup {NoProc}]
  /\ stolen \in BOOLEAN

LockInit ==
  /\ lockfile = NoLock
  /\ lk = [p \in Procs |-> "new"]
  /\ seen = [p \in Procs |-> NoProc]
  /\ stolen = FALSE

\* processRunning: a started process that has not exited answers signal 0.
Running(p) == lk[p] \notin {"new", "gone"}

\* Acquire has created the file for p and p has not released it.
Holds(p) == lk[p] \in {"created", "held"}

Phase(p, from, to) ==
  /\ lk[p] = from
  /\ lk' = [lk EXCEPT ![p] = to]

-----------------------------------------------------------------------------
(* The life of a process. *)

\* The process starts; it calls Acquire only at StartAcquire.
Launch(p) == Phase(p, "new", "idle") /\ UNCHANGED <<lockfile, seen, stolen>>

StartAcquire(p) == Phase(p, "idle", "open") /\ UNCHANGED <<lockfile, seen, stolen>>

\* The process ends: it returns from main, is killed, or os.Exit(4) ends it
\* from the interrupt handler.  Deferred calls do not run: whatever lock file
\* it has created stays.
Die(p) ==
  /\ Running(p)
  /\ lk' = [lk EXCEPT ![p] = "gone"]
  /\ UNCHANGED <<lockfile, seen, stolen>>

-----------------------------------------------------------------------------
(* Acquire. *)

\* Mutant of CreateLock: O_CREATE without O_EXCL.
CreateLockShared(p) ==
  /\ Phase(p, "open", "created")
  /\ lockfile' = [by |-> p, pid |-> NoProc]
  /\ UNCHANGED <<seen, stolen>>

\* OpenFile(O_CREATE|O_EXCL) succeeds only on a path that does not exist.
CreateLock(p) ==
  /\ Phase(p, "open", "created")
  /\ lockfile = NoLock
  /\ lockfile' = [by |-> p, pid |-> NoProc]
  /\ UNCHANGED <<seen, stolen>>

LockExists(p) ==
  /\ Phase(p, "open", "exists")
  /\ lockfile # NoLock
  /\ UNCHANGED <<lockfile, seen, stolen>>

\* MkdirAll or OpenFile fails for another reason.
OpenError(p) == Phase(p, "open", "error") /\ UNCHANGED <<lockfile, seen, stolen>>

\* Fprintf writes to the file that p opened, even if it has been unlinked and
\* another process has created a new one at the path.
WritePid(p) ==
  /\ Phase(p, "created", "held")
  /\ lockfile' = IF lockfile.by = p THEN [lockfile EXCEPT !.pid = p] ELSE lockfile
  /\ UNCHANGED <<seen, stolen>>

\* The error of Fprintf is ignored: p holds the lock with an empty file.
WritePidFails(p) == Phase(p, "created", "held") /\ UNCHANGED <<lockfile, seen, stolen>>

\* ReadFile fails because the file is gone, or Atoi because it is empty.
HolderUnknown(p) ==
  /\ Phase(p, "exists", "reclaim")
  /\ lockfile.pid = NoProc
  /\ UNCHANGED <<lockfile, seen, stolen>>

\* ReadFile fails although the file holds a PID.
HolderUnreadable(p) ==
  /\ Phase(p, "exists", "reclaim")
  /\ lockfile.pid # NoProc
  /\ UNCHANGED <<lockfile, seen, stolen>>

\* Mutant of ReadHolder: the content is not parsed into a PID.
ReadHolderRaw(p) ==
  /\ Phase(p, "exists", "probe")
  /\ lockfile.pid # NoProc
  /\ seen' = [seen EXCEPT ![p] = {lockfile.pid}]
  /\ UNCHANGED <<lockfile, stolen>>

\* The file holds a PID.
ReadHolder(p) ==
  /\ Phase(p, "exists", "probe")
  /\ lockfile.pid # NoProc
  /\ seen' = [seen EXCEPT ![p] = lockfile.pid]
  /\ UNCHANGED <<lockfile, stolen>>

\* Mutant of Deny: no test for a stale lock.
DenyAnyHolder(p) ==
  /\ Phase(p, "probe", "denied")
  /\ UNCHANGED <<lockfile, seen, stolen>>

\* ErrLockHeld: the PID that was read is a running process.
Deny(p) ==
  /\ Phase(p, "probe", "denied")
  /\ Running(seen[p])
  /\ UNCHANGED <<lockfile, seen, stolen>>

\* Mutant of FindStale: the removal is forgotten on this path.
FindStaleRetries(p) ==
  /\ Phase(p, "probe", "open")
  /\ ~Running(seen[p])
  /\ UNCHANGED <<lockfile, seen, stolen>>

\* No process with that PID is running.
FindStale(p) ==
  /\ Phase(p, "probe", "reclaim")
  /\ ~Running(seen[p])
  /\ UNCHANGED <<lockfile, seen, stolen>>

\* os.Remove unlinks whatever is at the path now, then Acquire calls itself.
Reclaim(p) ==
  /\ Phase(p, "reclaim", "open")
  /\ lockfile' = NoLock
  /\ stolen' = (stolen \/ \E q \in Procs : lockfile.by = q /\ Holds(q))
  /\ UNCHANGED seen

\* os.Remove fails on a file that is there (EACCES in the directory of root,
\* EROFS); the error is ignored and Acquire calls itself all the same.
ReclaimFails(p) ==
  /\ Phase(p, "reclaim", "open")
  /\ lockfile # NoLock
  /\ UNCHANGED <<lockfile, seen, stolen>>

AcquireStep(p) ==
  \/ CreateLock(p) \/ LockExists(p) \/ OpenError(p) \/ WritePid(p)
  \/ HolderUnknown(p) \/ ReadHolder(p) \/ Deny(p) \/ FindStale(p)
  \/ Reclaim(p) \/ ReclaimFails(p)

-----------------------------------------------------------------------------
(* Release *)

\* Mutant of Release: the file is closed and not removed.
ReleaseKeepsFile(p) == Phase(p, "held", "released") /\ UNCHANGED <<lockfile, seen, stolen>>

\* l.pid is this process, so whatever is at the path is removed.
Release(p) ==
  /\ Phase(p, "held", "released")
  /\ lockfile' = NoLock
  /\ UNCHANGED <<seen, stolen>>

\* The error of os.Remove is ignored: p believes the lock released.
ReleaseFails(p) == Phase(p, "held", "leaked") /\ UNCHANGED <<lockfile, seen, stolen>>

\* The calls whose errors lock.go ignores, but for the removal that is retried.
IgnoredError(p) == WritePidFails(p) \/ HolderUnreadable(p) \/ ReleaseFails(p)

-----------------------------------------------------------------------------
LockNext ==
  \E p \in Procs :
    \/ Launch(p) \/ StartAcquire(p) \/ AcquireStep(p) \/ Release(p) \/ Die(p)
    \/ IgnoredError(p)

\* The steps of Acquire are system calls that return, if only with an error;
\* nothing forces a process to start, to release the lock soon, or to die, nor a
\* removal that has failed to succeed when it is tried again.
LockSpec == LockInit /\ [][LockNext]_lockVars

FairLockSpec == LockSpec /\ \A p \in Procs : WF_lockVars(AcquireStep(p))

-----------------------------------------------------------------------------
(* Properties. *)

\* Control-plane-contract 3.5: the lock is exclusive.  It is not: see the
\* lock_exclusion run.
MutualExclusion == \A p, q \in Procs : Holds(p) /\ Holds(q) => p = q

\* Two processes can hold the lock only after some Acquire has removed the
\* lock file of a process that was still holding it (an empty file taken for
\* a malformed one, or a stale file replaced before the removal).  While that
\* has not happened the file at the path is the holder's own.
ExclusiveUnlessStolen == ~stolen => MutualExclusion

\* A lock file outlives its creator's hold only when the creator has died or
\* its Release could not remove the file: no path through Acquire's retries, nor
\* through a Release that works, leaks it.
NoLockLeak ==
  \A p \in Procs : lockfile.by = p => Holds(p) \/ lk[p] \in {"leaked", "gone"}

\* Acquire has returned, or the process is gone.
Decided(p) == lk[p] \in {"held", "denied", "error", "released", "leaked", "gone"}

\* Acquire never waits for another process: every call ends, whatever the
\* others do and wherever they die, unless the removal of a lock file fails
\* again and again, which makes Acquire recurse without end.
AcquireDecides ==
  \A p \in Procs :
    \/ lk[p] = "open" ~> Decided(p)
    \/ []<><<ReclaimFails(p)>>_lockVars

\* A dead process never locks the survivors out: an Acquire that runs when
\* every other process is gone is not denied, and it ends unless the lock file
\* that the dead have left cannot be removed.
CrashNeverWedgesLock ==
  \A p \in Procs :
    \/ lk[p] = "open" /\ (\A q \in Procs \ {p} : lk[q] = "gone")
         ~> Decided(p) /\ lk[p] # "denied"
    \/ []<><<ReclaimFails(p)>>_lockVars
=============================================================================
