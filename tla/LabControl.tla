----------------------------- MODULE LabControl -----------------------------
(***************************************************************************)
(* The lab control plane: concurrent invocations of `lab fault apply`,     *)
(* `lab reset`, `lab provision`, `lab status` and `lab validate` (cmd/)    *)
(* that share state.json (internal/state/store.go), the mutation lock      *)
(* (LabLock) and the managed environment, each with the interrupt handler  *)
(* of app.go beside it.                                                    *)
(*                                                                         *)
(* A process steps from one access to shared state to the next: a lock     *)
(* operation, a Read or a Write of state.json, an executor operation, an   *)
(* observation.  The environment is the set of residues, deviations from   *)
(* the canonical installation, that are present in it; a fault leaves some *)
(* of them, its Recover and the reset tiers clear some, and the checks see *)
(* some.  state.json is cut down to its classification.                    *)
(***************************************************************************)
EXTENDS LabLock, Naturals

CONSTANTS
  Faults, NoFault,   \* the catalog's fault IDs; active_fault = null
  Unreadable,        \* state.json is missing, corrupt or names no valid state
  Residues,          \* what can deviate from the canonical environment
  Leaves,            \* Leaves[f]: residues the Apply of f leaves
  Undoes,            \* Undoes[f]: residues the Recover of f clears
  Reversible,        \* faults whose Def.IsReversible is set
  Confirm,           \* faults whose Def.RequiresConfirmation is set
  PreBlocked,        \* PreBlocked[f]: residues that fail a PreconditionCheck of f
  TierOf,            \* TierOf[f]: Def.ResetTier
  Clears,            \* Clears[t]: residues the operations of tier t clear
  SuiteBreaking,     \* residues that fail a blocking check of the suite
  LightBreaking,     \* residues that `lab status` can see
  Commands,          \* the command lines that may be run
  Initials,          \* initial contents of state.json and of the environment
  MaxTrouble         \* bound on failures, signals, crashes and outside changes

States == {"UNPROVISIONED", "PROVISIONED", "CONFORMANT", "DEGRADED", "BROKEN", "RECOVERING"}
Tiers == {"R1", "R2", "R3"}
Record == [state : States, valid : BOOLEAN, fault : Faults \cup {NoFault}]
Command == [op : {"apply", "reset", "provision", "status", "validate"},
            fault : Faults \cup {NoFault}, force : BOOLEAN, yes : BOOLEAN,
            tier : Tiers \cup {"", "other"}]
NoCommand == [op |-> "none", fault |-> NoFault, force |-> FALSE, yes |-> FALSE, tier |-> ""]

\* Invariant I-2 of the state model, on one content of the file.
Consistent(r) == r.state = "DEGRADED" <=> r.fault # NoFault

\* What a record promises about the environment it is kept beside.
Coherent(r, e) ==
  /\ r.fault # NoFault => Leaves[r.fault] \subseteq e
  /\ r.state = "CONFORMANT" => e \cap LightBreaking = {}

ASSUME CatalogAssumption ==
  /\ NoFault \notin Faults
  /\ Unreadable \notin Record
  /\ Leaves \in [Faults -> SUBSET Residues]
  /\ Undoes \in [Faults -> SUBSET Residues]
  /\ PreBlocked \in [Faults -> SUBSET Residues]
  /\ TierOf \in [Faults -> Tiers]
  /\ Clears \in [Tiers -> SUBSET Residues]
  /\ Reversible \subseteq Faults /\ Confirm \subseteq Faults
  /\ LightBreaking \subseteq SuiteBreaking /\ SuiteBreaking \subseteq Residues

ASSUME CommandAssumption ==
  /\ Commands \subseteq Command
  /\ \A c \in Commands : c.op = "apply" => c.fault \in Faults
  /\ \A c \in Commands : c.op = "provision" => c.tier = "R3"

ASSUME InitialAssumption ==
  \A i \in Initials :
    /\ i.env \subseteq Residues
    /\ i.file # Unreadable =>
         i.file \in Record /\ Consistent(i.file) /\ Coherent(i.file, i.env)

ASSUME BoundAssumption == MaxTrouble \in Nat

VARIABLES
  file,      \* state.json
  env,       \* the residues present in the environment
  pc,        \* pc[p]: the next access to shared state of p's command
  cmd,       \* cmd[p]: p's command line
  mem,       \* mem[p]: p's in-memory copy of state.json (sf)
  verdict,   \* verdict[p]: the state p's own observation has established
  hs, hmem,  \* the interrupt handler of p and its copy of state.json
  dirty,     \* ghost: kinds of Writes of others since p's Read
  lost,      \* ghost: the record of a change is lost: overwritten by a Write that
             \* had not read it, or never made after a failed restoration
  injected,  \* ghost: faults whose Apply has completed
  trouble    \* failures, signals, crashes and outside changes so far

procVars == <<pc, cmd, mem, verdict>>
handlerVars == <<hs, hmem>>
ghostVars == <<dirty, lost, injected>>
vars == <<lockVars, file, env, procVars, handlerVars, ghostVars, trouble>>

Labels == {"new", "lock", "read", "precheck", "apply", "verify", "recover", "tier", "suite",
           "record", "invalidate", "invalidated", "observe", "fresh", "relock", "observed",
           "release", "done", "gone"}

\* Between a Read of state.json and the Write that depends on it.
Window == {"precheck", "apply", "verify", "recover", "tier", "suite", "record",
           "invalidated", "observe", "fresh", "relock", "observed"}

\* Executor operations have begun and their outcome is not recorded.
Mutating == {"apply", "recover", "tier", "suite", "record"}

Init ==
  /\ LockInit
  /\ \E i \in Initials :
       /\ file = i.file
       /\ env = i.env
       /\ injected = IF i.file = Unreadable THEN {} ELSE {i.file.fault} \ {NoFault}
  /\ pc = [p \in Procs |-> "new"]
  /\ cmd = [p \in Procs |-> NoCommand]
  /\ mem = [p \in Procs |-> Unreadable]
  /\ verdict = [p \in Procs |-> "none"]
  /\ hs = [p \in Procs |-> "none"]
  /\ hmem = [p \in Procs |-> Unreadable]
  /\ dirty = [p \in Procs |-> {}]
  /\ lost = FALSE
  /\ trouble = 0

-----------------------------------------------------------------------------
(* Helpers. *)

At(p, l) == pc[p] = l
Goto(p, l) == pc' = [pc EXCEPT ![p] = l]
Runs(p, op) == cmd[p].op = op

\* Something goes wrong, at most MaxTrouble times.
Trouble == trouble < MaxTrouble /\ trouble' = trouble + 1

\* CONFORMANT with no active fault: what an unforced apply and an early reset need.
Pristine(r) == r.state = "CONFORMANT" /\ r.fault = NoFault

\* state.Fresh: a new file without an active fault.
Fresh(s) == [state |-> s, valid |-> TRUE, fault |-> NoFault]

\* InvalidateClassification between its Read and its Write.
Invalidated(r) == IF r = Unreadable THEN r ELSE [r EXCEPT !.valid = FALSE]

\* Runner.Run: no blocking check of the full suite fails.
SuiteConformant == env \cap SuiteBreaking = {}

\* LightweightRun and the probe of GET / that status adds to it.
LightHealthy == env \cap LightBreaking = {}

\* Mutants of Detected: it forgets the recorded fault; it has no answer without
\* a record.
DetectedWithoutFault(r, healthy) == IF healthy THEN "CONFORMANT" ELSE "BROKEN"
DetectedUnknown(r, healthy) ==
  IF r = Unreadable THEN "UNKNOWN"
  ELSE IF r.fault # NoFault THEN "DEGRADED"
  ELSE IF healthy THEN "CONFORMANT" ELSE "BROKEN"

\* Detect on lightweight results: a recorded fault means DEGRADED whatever is
\* observed; without one the observation decides.
Detected(r, healthy) ==
  IF r # Unreadable /\ r.fault # NoFault THEN "DEGRADED"
  ELSE IF healthy THEN "CONFORMANT" ELSE "BROKEN"

\* Store.Read into sf.
ReadFile(p, r) ==
  /\ mem' = [mem EXCEPT ![p] = r]
  /\ dirty' = [dirty EXCEPT ![p] = {}]
  /\ UNCHANGED <<file, lost>>

\* Store.Write of r succeeds.  The ghosts note who has missed this Write and
\* whether this Write has missed another.
Write(p, r, kind) ==
  /\ file' = r
  /\ dirty' = [q \in Procs |-> IF q # p /\ pc[q] \in Window
                               THEN dirty[q] \cup {kind} ELSE dirty[q]]
  /\ lost' = (lost \/ dirty[p] # {})

-----------------------------------------------------------------------------
(* The life of an invocation. *)

\* App.Run dispatches a command line.
Start(p, c) ==
  /\ At(p, "new")
  /\ Launch(p)
  /\ cmd' = [cmd EXCEPT ![p] = c]
  /\ Goto(p, IF c.op \in {"status", "validate"} THEN "read" ELSE "lock")
  /\ UNCHANGED <<file, env, mem, verdict, handlerVars, ghostVars, trouble>>

\* Acquire, step by step.
Locking(p) ==
  /\ pc[p] \in {"lock", "relock"}
  /\ StartAcquire(p) \/ AcquireStep(p)
  /\ UNCHANGED <<file, env, procVars, handlerVars, ghostVars, trouble>>

\* A call of Acquire or Release fails and the lock ignores it.  (A removal that
\* fails in Acquire is a step of Acquire: it may fail for ever.)
LockTrouble(p) ==
  /\ \/ pc[p] \in {"lock", "relock"} /\ (WritePidFails(p) \/ HolderUnreadable(p)) /\ UNCHANGED pc
     \/ At(p, "release") /\ ReleaseFails(p) /\ Goto(p, "done")
  /\ Trouble
  /\ UNCHANGED <<file, env, cmd, mem, verdict, handlerVars, ghostVars>>

\* Mutants of GiveUp: a denied command waits; Release runs after a failed Acquire.
GiveUpOnErrorOnly(p) ==
  /\ pc[p] \in {"lock", "relock"}
  /\ lk[p] = "error"
  /\ Goto(p, "done")
  /\ UNCHANGED <<lockVars, file, env, cmd, mem, verdict, handlerVars, ghostVars, trouble>>

GiveUpReleasing(p) ==
  /\ pc[p] \in {"lock", "relock"}
  /\ lk[p] \in {"denied", "error"}
  /\ lockfile' = NoLock
  /\ Goto(p, "done")
  /\ UNCHANGED <<lk, seen, stolen, file, env, cmd, mem, verdict, handlerVars, ghostVars, trouble>>

\* Acquire fails: ErrLockHeld for a mutating command, a warning for status.
GiveUp(p) ==
  /\ pc[p] \in {"lock", "relock"}
  /\ lk[p] \in {"denied", "error"}
  /\ Goto(p, "done")
  /\ UNCHANGED <<lockVars, file, env, cmd, mem, verdict, handlerVars, ghostVars, trouble>>

\* The deferred lock.Release of every command that has acquired the lock.
Unlock(p) ==
  /\ At(p, "release")
  /\ Release(p)
  /\ Goto(p, "done")
  /\ UNCHANGED <<file, env, cmd, mem, verdict, handlerVars, ghostVars, trouble>>

\* The process is gone and its memory with it.
Vanish(p) ==
  /\ Die(p)
  /\ Goto(p, "gone")
  /\ cmd' = [cmd EXCEPT ![p] = NoCommand]
  /\ mem' = [mem EXCEPT ![p] = Unreadable]
  /\ verdict' = [verdict EXCEPT ![p] = "none"]
  /\ hs' = [hs EXCEPT ![p] = "none"]
  /\ hmem' = [hmem EXCEPT ![p] = Unreadable]
  /\ dirty' = [dirty EXCEPT ![p] = {}]
  /\ UNCHANGED <<file, env, lost, injected>>

\* Run returns and main exits, even while the handler sleeps.
Exit(p) == At(p, "done") /\ Vanish(p) /\ UNCHANGED trouble

\* SIGKILL, a panic or a power cut, at any point.
Crash(p) == pc[p] \notin {"new", "gone"} /\ Vanish(p) /\ Trouble

-----------------------------------------------------------------------------
(* The interrupt handler of app.go, a goroutine of the same process: the    *)
(* command goes on running beside it.                                        *)

\* The first SIGINT or SIGTERM; the 30 second grace period begins.
Interrupt(p) ==
  /\ pc[p] \notin {"new", "gone"}
  /\ hs[p] = "none"
  /\ hs' = [hs EXCEPT ![p] = "grace"]
  /\ Trouble
  /\ UNCHANGED <<lockVars, file, env, procVars, hmem, ghostVars>>

\* InvalidateClassification reads the file, without the lock.
HandlerRead(p) ==
  /\ hs[p] = "grace"
  /\ hs' = [hs EXCEPT ![p] = IF file = Unreadable THEN "exiting" ELSE "writing"]
  /\ hmem' = [hmem EXCEPT ![p] = Invalidated(file)]
  /\ UNCHANGED <<lockVars, file, env, procVars, ghostVars, trouble>>

\* ... and writes it back; the error of a failed Write is dropped.
HandlerWrite(p) ==
  /\ hs[p] = "writing"
  /\ hs' = [hs EXCEPT ![p] = "exiting"]
  /\ \/ /\ file' = hmem[p]
        /\ dirty' = [q \in Procs |-> IF pc[q] \in Window
                                     THEN dirty[q] \cup {"other"} ELSE dirty[q]]
        /\ UNCHANGED trouble
     \/ Trouble /\ UNCHANGED <<file, dirty>>
  /\ UNCHANGED <<lockVars, env, procVars, hmem, lost, injected>>

\* os.Exit(4): no deferred Release.
HandlerExit(p) == hs[p] = "exiting" /\ Vanish(p) /\ UNCHANGED trouble

-----------------------------------------------------------------------------
(* lab fault apply *)

\* Mutant of ApplyRead: the required state is not looked at.
ApplyReadFaultOnly(p) ==
  /\ At(p, "lock") /\ Runs(p, "apply") /\ lk[p] = "held"
  /\ ReadFile(p, file)
  /\ Goto(p, IF file # Unreadable /\ (cmd[p].force \/ file.fault = NoFault)
             THEN "precheck" ELSE "release")
  /\ UNCHANGED <<lockVars, env, cmd, verdict, handlerVars, injected, trouble>>

\* Read under the lock, and the preconditions on the state that --force skips.
ApplyRead(p) ==
  /\ At(p, "lock") /\ Runs(p, "apply") /\ lk[p] = "held"
  /\ ReadFile(p, file)
  /\ Goto(p, IF file # Unreadable /\ (cmd[p].force \/ Pristine(file))
             THEN "precheck" ELSE "release")
  /\ UNCHANGED <<lockVars, env, cmd, verdict, handlerVars, injected, trouble>>

\* PreconditionChecks observe the environment unless --force; confirmation is
\* asked for even with --force.
ApplyCheck(p) ==
  /\ At(p, "precheck")
  /\ LET f == cmd[p].fault
         met == cmd[p].force \/ env \cap PreBlocked[f] = {}
         confirmed == f \notin Confirm \/ cmd[p].yes
     IN Goto(p, IF met /\ confirmed THEN "apply" ELSE "release")
  /\ UNCHANGED <<lockVars, file, env, cmd, mem, verdict, handlerVars, ghostVars, trouble>>

\* One of the executor operations of the fault's Apply.
ApplyPart(p) ==
  /\ At(p, "apply")
  /\ \E r \in Leaves[cmd[p].fault] \ env : env' = env \cup {r}
  /\ UNCHANGED <<lockVars, file, procVars, handlerVars, ghostVars, trouble>>

\* Apply returns nil: sf becomes DEGRADED with the fault.
ApplyOk(p) ==
  /\ At(p, "apply")
  /\ env' = env \cup Leaves[cmd[p].fault]
  /\ injected' = injected \cup {cmd[p].fault}
  /\ mem' = [mem EXCEPT ![p] = [state |-> "DEGRADED", valid |-> TRUE, fault |-> cmd[p].fault]]
  /\ Goto(p, "record")
  /\ UNCHANGED <<lockVars, file, cmd, verdict, handlerVars, dirty, lost, trouble>>

\* Mutant of ApplyFail: the error of Apply is ignored.
ApplyFailRecords(p) ==
  /\ At(p, "apply")
  /\ mem' = [mem EXCEPT ![p] = [state |-> "DEGRADED", valid |-> TRUE, fault |-> cmd[p].fault]]
  /\ Goto(p, "record")
  /\ Trouble
  /\ UNCHANGED <<lockVars, file, env, cmd, verdict, handlerVars, ghostVars>>

\* Apply returns an error, after none, some or all of its operations: the
\* state file is left as it is.
ApplyFail(p) ==
  /\ At(p, "apply")
  /\ Goto(p, "release")
  /\ Trouble
  /\ UNCHANGED <<lockVars, file, env, cmd, mem, verdict, handlerVars, ghostVars>>

-----------------------------------------------------------------------------
(* lab reset and lab provision *)

\* selectTier: the tier of the active fault, R2 without one.
SelectTier(r) == IF r.fault # NoFault THEN TierOf[r.fault] ELSE "R2"

\* executeTier begins with Recover if the active fault is reversible.
FirstOfTier(r) == IF r.fault \in Reversible THEN "recover" ELSE "tier"

\* Mutant of ResetRead: reset goes on whether or not it has the lock.
ResetReadUnlocked(p) ==
  /\ At(p, "lock") /\ Runs(p, "reset")
  /\ LET r == IF file = Unreadable THEN Fresh("BROKEN") ELSE file
     IN /\ ReadFile(p, r)
        /\ cmd' = [cmd EXCEPT ![p].tier = IF @ = "" THEN SelectTier(r) ELSE @]
        /\ Goto(p, IF Pristine(r) THEN "verify" ELSE FirstOfTier(r))
  /\ UNCHANGED <<lockVars, env, verdict, handlerVars, injected, trouble>>

\* Read under the lock; without a readable file the environment counts as BROKEN.
ResetRead(p) ==
  /\ At(p, "lock") /\ Runs(p, "reset") /\ lk[p] = "held"
  /\ LET r == IF file = Unreadable THEN Fresh("BROKEN") ELSE file
     IN /\ ReadFile(p, r)
        /\ cmd' = [cmd EXCEPT ![p].tier = IF @ = "" THEN SelectTier(r) ELSE @]
        /\ Goto(p, IF Pristine(r) THEN "verify" ELSE FirstOfTier(r))
  /\ UNCHANGED <<lockVars, env, verdict, handlerVars, injected, trouble>>

\* Already CONFORMANT: nothing is done if the suite agrees.
ResetVerify(p) ==
  /\ At(p, "verify")
  /\ Goto(p, IF SuiteConformant THEN "release" ELSE "tier")
  /\ UNCHANGED <<lockVars, file, env, cmd, mem, verdict, handlerVars, ghostVars, trouble>>

\* lab provision reads nothing: bootstrap is what tier R3 runs.
ProvisionBegin(p) ==
  /\ At(p, "lock") /\ Runs(p, "provision") /\ lk[p] = "held"
  /\ dirty' = [dirty EXCEPT ![p] = {}]
  /\ Goto(p, "tier")
  /\ UNCHANGED <<lockVars, file, env, cmd, mem, verdict, handlerVars, lost, injected, trouble>>

RecoverOk(p) ==
  /\ At(p, "recover")
  /\ env' = env \ Undoes[mem[p].fault]
  /\ Goto(p, "tier")
  /\ UNCHANGED <<lockVars, file, cmd, mem, verdict, handlerVars, ghostVars, trouble>>

\* The operations of the tier return nil.  bootstrap.sh does so on an environment
\* that passes the suite, and on any if validate.sh cannot be executed: it then
\* leaves the validation to the operator with a warning.
TierOk(p) ==
  /\ At(p, "tier") /\ cmd[p].tier \in Tiers
  /\ env' = env \ Clears[cmd[p].tier]
  /\ Goto(p, "suite")
  /\ UNCHANGED <<lockVars, file, cmd, mem, verdict, handlerVars, ghostVars, trouble>>

\* bootstrap.sh has run validate.sh, which has found a failure.
BootstrapFails(p) ==
  /\ At(p, "tier") /\ cmd[p].tier = "R3"
  /\ env' = env \ Clears["R3"]
  /\ env' \cap SuiteBreaking # {}
  /\ lost' = TRUE
  /\ Goto(p, "release")
  /\ UNCHANGED <<lockVars, file, cmd, mem, verdict, handlerVars, dirty, injected, trouble>>

\* One of the executor operations of Recover or of the tier.
RestorePart(p) ==
  /\ pc[p] \in {"recover", "tier"}
  /\ \E r \in env :
       /\ \/ At(p, "recover") /\ r \in Undoes[mem[p].fault]
          \/ At(p, "tier") /\ cmd[p].tier \in Tiers /\ r \in Clears[cmd[p].tier]
       /\ env' = env \ {r}
  /\ UNCHANGED <<lockVars, file, procVars, handlerVars, ghostVars, trouble>>

\* An operation of Recover or of the tier fails: the state file is left as it is.
RestoreFail(p) ==
  /\ pc[p] \in {"recover", "tier"}
  /\ lost' = TRUE
  /\ Goto(p, "release")
  /\ Trouble
  /\ UNCHANGED <<lockVars, file, env, cmd, mem, verdict, handlerVars, dirty, injected>>

\* A tier that executeTier does not know, found out only after Recover.
UnknownTier(p) ==
  /\ At(p, "tier") /\ cmd[p].tier \notin Tiers
  /\ lost' = TRUE
  /\ Goto(p, "release")
  /\ UNCHANGED <<lockVars, file, env, cmd, mem, verdict, handlerVars, dirty, injected, trouble>>

\* Mutant of Suite: the tier is taken for a success without looking.
SuiteTrusted(p) ==
  /\ At(p, "suite")
  /\ verdict' = [verdict EXCEPT ![p] = "CONFORMANT"]
  /\ mem' = [mem EXCEPT ![p] = Fresh("CONFORMANT")]
  /\ Goto(p, "record")
  /\ UNCHANGED <<lockVars, file, env, cmd, handlerVars, ghostVars, trouble>>

\* The suite runs after the tier and decides the state to record; reset clears
\* active_fault in sf, provision starts from a fresh file.
Suite(p) ==
  /\ At(p, "suite")
  /\ LET s == IF SuiteConformant THEN "CONFORMANT" ELSE "BROKEN"
     IN /\ verdict' = [verdict EXCEPT ![p] = s]
        /\ mem' = [mem EXCEPT ![p] = Fresh(s)]
  /\ Goto(p, "record")
  /\ UNCHANGED <<lockVars, file, env, cmd, handlerVars, ghostVars, trouble>>

-----------------------------------------------------------------------------
(* Recording a transition: the Write that ends apply, reset and provision. *)

Commit(p) ==
  /\ At(p, "record")
  /\ Write(p, mem[p], "transition")
  /\ Goto(p, "release")
  /\ UNCHANGED <<lockVars, env, cmd, mem, verdict, handlerVars, injected, trouble>>

\* The Write fails and the old file stays.  Only apply looks at the error: it
\* goes on to InvalidateClassification.
CommitFail(p) ==
  /\ At(p, "record")
  /\ Goto(p, IF Runs(p, "apply") THEN "invalidate" ELSE "release")
  /\ Trouble
  /\ UNCHANGED <<lockVars, file, env, cmd, mem, verdict, handlerVars, ghostVars>>

InvalidateRead(p) ==
  /\ At(p, "invalidate")
  /\ ReadFile(p, Invalidated(file))
  /\ Goto(p, IF file = Unreadable THEN "release" ELSE "invalidated")
  /\ UNCHANGED <<lockVars, env, cmd, verdict, handlerVars, injected, trouble>>

-----------------------------------------------------------------------------
(* lab status *)

\* Read before the lock is taken.
StatusRead(p) ==
  /\ At(p, "read") /\ Runs(p, "status")
  /\ ReadFile(p, file)
  /\ Goto(p, "observe")
  /\ UNCHANGED <<lockVars, env, cmd, verdict, handlerVars, injected, trouble>>

\* Lightweight checks, probe and Detect, and what is to be written: a fresh
\* file without the lock, or the file read before with its state replaced
\* (Reconciled) or only its classification made valid again.
StatusObserve(p) ==
  /\ At(p, "observe")
  /\ LET r == mem[p]
         d == Detected(r, LightHealthy)
         reconciled == r # Unreadable /\ r.valid /\ r.state # d
         revalidated == r # Unreadable /\ ~r.valid
     IN /\ verdict' = [verdict EXCEPT ![p] = d]
        /\ mem' = [mem EXCEPT ![p] =
                     IF r = Unreadable THEN Fresh(d)
                     ELSE IF reconciled THEN [r EXCEPT !.state = d]
                     ELSE [r EXCEPT !.valid = TRUE]]
        /\ Goto(p, IF r = Unreadable THEN "fresh"
                   ELSE IF reconciled \/ revalidated THEN "relock" ELSE "done")
  /\ UNCHANGED <<lockVars, file, env, cmd, handlerVars, ghostVars, trouble>>

-----------------------------------------------------------------------------
(* lab validate: the suite has run; last_validate is recorded without the    *)
(* lock by writing back the whole file that was read.                        *)

ValidateRead(p) ==
  /\ At(p, "read") /\ Runs(p, "validate")
  /\ ReadFile(p, file)
  /\ Goto(p, IF file = Unreadable THEN "done" ELSE "observed")
  /\ UNCHANGED <<lockVars, env, cmd, verdict, handlerVars, injected, trouble>>

-----------------------------------------------------------------------------
(* The Writes that record no transition: InvalidateClassification in apply,   *)
(* the fresh file of status, the reconciled one it writes under the lock, and *)
(* the observation of validate.                                               *)

SideWriting(p) ==
  /\ pc[p] \in {"invalidated", "fresh", "relock", "observed"}
  /\ At(p, "relock") => lk[p] = "held"
  /\ Goto(p, IF pc[p] \in {"relock", "invalidated"} THEN "release" ELSE "done")

SideWrite(p) ==
  /\ SideWriting(p)
  /\ Write(p, mem[p], "other")
  /\ UNCHANGED <<lockVars, env, cmd, mem, verdict, handlerVars, injected, trouble>>

\* A failed Write is a warning, or is ignored.
SideWriteFail(p) ==
  /\ SideWriting(p)
  /\ Trouble
  /\ UNCHANGED <<lockVars, file, env, cmd, mem, verdict, handlerVars, ghostVars>>

-----------------------------------------------------------------------------
(* Outside changes: the learner, or anything else on the machine, causes or *)
(* repairs a deviation, or loses state.json.                                *)
Drift ==
  /\ Trouble
  /\ \/ (\E r \in Residues \ env : env' = env \cup {r}) /\ UNCHANGED file
     \/ (\E r \in env : env' = env \ {r}) /\ UNCHANGED file
     \/ file' = Unreadable /\ UNCHANGED env
  /\ UNCHANGED <<lockVars, procVars, handlerVars, ghostVars>>

-----------------------------------------------------------------------------
\* What the command of p does as long as nothing goes wrong.
Advance(p) ==
  \/ Locking(p) \/ GiveUp(p) \/ Unlock(p) \/ Exit(p)
  \/ ApplyRead(p) \/ ApplyCheck(p) \/ ApplyOk(p)
  \/ ResetRead(p) \/ ResetVerify(p) \/ ProvisionBegin(p)
  \/ RecoverOk(p) \/ TierOk(p) \/ BootstrapFails(p) \/ UnknownTier(p) \/ Suite(p)
  \/ Commit(p) \/ InvalidateRead(p)
  \/ StatusRead(p) \/ StatusObserve(p) \/ ValidateRead(p) \/ SideWrite(p)

Handler(p) == HandlerRead(p) \/ HandlerWrite(p) \/ HandlerExit(p)

Hindrance(p) ==
  \/ ApplyPart(p) \/ ApplyFail(p) \/ RestorePart(p) \/ RestoreFail(p)
  \/ CommitFail(p) \/ SideWriteFail(p) \/ LockTrouble(p) \/ Interrupt(p) \/ Crash(p)

Next ==
  \/ \E p \in Procs : (\E c \in Commands : Start(p, c))
                      \/ Advance(p) \/ Handler(p) \/ Hindrance(p)
  \/ Drift

Spec == Init /\ [][Next]_vars

\* The Go scheduler runs a process that can run, and the calls it makes return.
Fairness == \A p \in Procs : WF_vars(Advance(p))

FairSpec == Spec /\ Fairness

-----------------------------------------------------------------------------
(* Properties. *)

TypeOK ==
  /\ LockTypeOK
  /\ file \in Record \cup {Unreadable}
  /\ env \in SUBSET Residues
  /\ pc \in [Procs -> Labels]
  /\ cmd \in [Procs -> Command \cup {NoCommand}]
  /\ mem \in [Procs -> Record \cup {Unreadable}]
  /\ verdict \in [Procs -> States \cup {"none"}]
  /\ hs \in [Procs -> {"none", "grace", "writing", "exiting"}]
  /\ hmem \in [Procs -> Record \cup {Unreadable}]
  /\ dirty \in [Procs -> SUBSET {"transition", "other"}]
  /\ lost \in BOOLEAN
  /\ injected \in SUBSET Faults
  /\ trouble \in 0 .. MaxTrouble

\* I-2 of the state model, for the file and for every copy that may become the
\* file: DEGRADED exactly when a fault is recorded, after any interleaving of
\* locked and unlocked Writes, lost updates, crashes and failures.
FaultIffDegraded ==
  \A r \in {file} \cup {mem[p] : p \in Procs} \cup {hmem[p] : p \in Procs} :
    r # Unreadable => Consistent(r)

\* Whatever fails, races or crashes, state.json never blames a fault whose
\* Apply has not completed: the record comes after the mutation.
RecordedFaultWasInjected ==
  file # Unreadable /\ file.fault # NoFault => file.fault \in injected

\* The re-read under the lock is a TOCTOU guard: unless the lock is stolen, no
\* other apply, reset or provision commits between the Read of an apply or a
\* reset and its own Write.
SerializedTransitions ==
  \A p \in Procs :
    /\ pc[p] \in {"precheck", "apply", "verify", "recover", "tier", "suite", "record"}
    /\ ~stolen
    => "transition" \notin dirty[p]

\* An unforced apply starts to mutate only while state.json, as it is then and
\* not only as it was read, says CONFORMANT without a fault; only an unlocked
\* Write or a stolen lock can make that untrue.
InjectionIsAuthorised ==
  \A p \in Procs :
    /\ At(p, "apply") /\ ~cmd[p].force
    /\ ~stolen /\ "other" \notin dirty[p] /\ file # Unreadable
    => Pristine(file)

\* As long as nothing fails and the record of no change is lost, the
\* record and the environment agree whenever no transition is under way: a
\* recorded fault is really present, and CONFORMANT is never recorded while
\* the lightweight checks would fail, also after forced faults and resets by
\* a tier of the operator's choice.
Calm == trouble = 0 /\ ~stolen /\ ~lost
Settled == \A p \in Procs : pc[p] \notin Mutating

RecordMatchesEnvironment ==
  Calm /\ Settled /\ file # Unreadable => Coherent(file, env)

\* Every invocation ends: no lock of another, failure or interrupt makes a
\* command wait, except that Acquire goes on as long as a lock file it wants to
\* remove cannot be removed.
Termination ==
  \A p \in Procs :
    \/ pc[p] # "new" ~> pc[p] = "gone"
    \/ []<><<ReclaimFails(p)>>_vars

\* The commands use the lock only as LabLock says: by Acquire and Release, and
\* by dying.  (With it what LabLock promises holds for the whole system.)
UsesLock == LockSpec

\* README and control-plane-contract 4.2: validate is an observation and never
\* changes the classification.
ValidateKeepsClassification ==
  [][\A p \in Procs :
       At(p, "observed") /\ pc'[p] = "done" /\ file # Unreadable => file' = file]_vars

\* system-state-model 4.2: after an interrupt status ignores the recorded state
\* and re-derives it; what it makes valid again is what it has detected.  (Where no
\* other Write has come in between.)
RevalidatedFromEvidence ==
  [][\A p \in Procs :
       At(p, "relock") /\ pc'[p] = "release" /\ dirty[p] = {} /\ file' = mem[p]
         => file'.state = verdict[p]]_vars
=============================================================================
