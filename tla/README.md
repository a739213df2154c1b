# TLA+ models of the lab environment

The repository is a training lab: a CLI (`lab`) that provisions a small web
stack, injects one of 19 faults into it, classifies its state and resets it; and
a Go service (`service/`) that the stack serves and the faults break. This
directory holds TLA+ models of the parts where several actors share state,
TLC instances that check them, and TLAPS proofs of their invariants.

All source paths are relative to the repository root. `PROJECT.json` maps every definition to its
lines and lists runs, mutants, hazards, findings and theorems.

## 1. Inventory

### The control plane (`app.go`, `cmd/`, `internal/`)

| component | state | operations | interacts with |
|---|---|---|---|
| mutation lock, `internal/executor/lock.go` | `lab.lock`, a file holding a PID; the in-memory `pid` and `file` | `Acquire`, `Release` | apply, reset, provision, status |
| state store, `internal/state/store.go` | `state.json`: state, classification_valid, active_fault, last_*, history | `Read`, `Write` (temporary file and rename), `InvalidateClassification`, `AppendHistory` | every command, the interrupt handler |
| detection, `internal/state/detect.go` | none | `Detect` over a file, lightweight or suite results | status |
| conformance, `internal/conformance/` | none | `Run`, `LightweightRun`, `RunIDs`, `Classify` over the 25 checks | status, validate, apply, reset, provision |
| fault catalog, `internal/catalog/` | none | `Apply` and `Recover` of 19 faults through the executor | apply, reset |
| executor, `internal/executor/real.go` | the machine: files, modes, units, processes | writes, chmod, systemctl, bootstrap; each under a 10 s timeout | faults, reset, provision |
| audit log, `internal/executor/audit.go` | an append-only file | `LogOp`, `LogTransition`, ... | executor, commands |
| commands, `cmd/` | the in-memory copy `sf` of `state.json` | `fault apply`, `reset`, `provision`, `status`, `validate`, `history` | all of the above |
| dispatch and interrupt handler, `app.go` | a goroutine waiting for SIGINT or SIGTERM | one command per process; after a signal and 30 s: invalidate, exit 4 | store, lock (by not releasing it) |

What is hard here: invocations run concurrently as separate processes and meet
only in two files and the machine. `status` and `validate` write `state.json`
by other rules than the mutating commands; the interrupt handler writes it from
inside a process whose command goes on; operations fail half way; a process may
die with the lock file on disk.

What makes the components correct: the lock excludes and never wedges;
`state.json` is sound (DEGRADED exactly when a fault is recorded, no fault
blamed that was not injected); a transition is based on the state it read; the
record agrees with the machine when nothing failed; every command ends.

### The service (`service/`)

| component | state | operations |
|---|---|---|
| lifecycle, `main.go` | the order of startup and shutdown | start, serve, drain on a signal |
| signal files, `signals/` | `/run/app/{loading,healthy,status,app.pid}` | `Init`, `CreateLoading`, `WritePID`, `CreateHealthy`, `SetStatus`, `BeginShutdown`, `RemovePID` |
| requests, `server/` and `chaos/` | two atomic counters; the state directory | handlers of `/`, `/health`, `/slow`, `/reset`; drop, latency, OOM |
| telemetry, `telemetry/` | `telemetry.json` | a snapshot every two seconds |
| logging, config | a log file under a mutex; the parsed configuration | |

What is hard: handlers, the telemetry goroutine, the listener and the shutdown
sequence write the same files concurrently; a crash leaves files behind that the next start must clean.

## 2. Modules

| module | models | extends |
|---|---|---|
| `LabLock` | lock.go, one action per system call | |
| `LabControl` | the five commands, the handler, `state.json`, the environment | `LabLock` |
| `LabSignals` | the promise of signals.go to the readers of `/run/app` | |
| `LabService` | the service process: startup, handlers, collector, shutdown, signal files; implements `LabSignals` | instance of `LabSignals` |
| `LabCatalog` | the 19 faults, the 25 checks and the three tiers on one concrete machine | |
| `LabRegister` | the promise of store.go: an atomic register | |
| `LabStore` | store.go by its system calls; implements `LabRegister` | instance of `LabRegister` |
| `LabJournal` | the commands by what they write down: the history and the audit log | `LabStore` |
| `MCLabLock`, `MCLabControl`, `MCLabService`, `MCLabJournal` | constants for TLC; those of `MCLabControl` are compared with `LabCatalog` | |
| `LabLockProofs`, `LabControlProofs`, `LabServiceProofs` | theorems | TLAPS |
| `LabRecordProofs` | another theorem of `LabControl` | `LabControlProofs` |
| `LabCatalogProofs` | theorems of `LabCatalog` | TLAPS |
| `LabStoreProofs`, `LabJournalProofs`, `LabAuditProofs` | theorems, the later ones building on the earlier | TLAPS |

`LabControl` and `LabJournal` are two views of the same commands. The first has
what they decide (classification, faults, the machine) and treats one Write as
one step; the second has what they write down and in which order, with
`state.json` call by call, and leaves every decision open.

### LabLock

`lockfile` is what is at the path: nobody's, or the process that created it
and the PID that can be read in it (none until `Fprintf`, lock.go:55).
`lk[p]` is the position of `p` in `Acquire` or `Release`, `seen[p]` the PID it
read. `CreateLock`, `LockExists` and `OpenError` are the three outcomes of
`OpenFile`; `HolderUnknown` and `ReadHolder` the read of the file; `Deny` and
`FindStale` the signal-0 probe; `Reclaim` is `os.Remove` and the recursive call.
`Release` removes the path whatever is there, as the code does. `Die` ends a
process anywhere, without deferred calls: that is a kill, a panic, `os.Exit`
in the handler, and also the normal exit. The ghost `stolen` records that a
`Reclaim` has unlinked the file of a process that held it.

lock.go looks at no error but that of `OpenFile` (and `MkdirAll`); the others are steps of their own:

- `WritePidFails` (lock.go:55): the lock is held with an empty file, which every
  other `Acquire` takes for malformed.
- `HolderUnreadable` (lock.go:64-69): a file that holds a PID cannot be read, and is
  removed unseen, also that of a live holder.
- `ReclaimFails` (lock.go:67, 75, 82): the file stays and `Acquire` calls itself
  all the same. If the removal keeps failing (`/var/lib/lab` belongs to root, or
  the file system is read-only) it recurses for ever in the model; in the code
  until the goroutine stack has reached the limit of the Go runtime and the process dies. So a
  dead process's file can lock a survivor out after all: `AcquireDecides`,
  `CrashNeverWedgesLock` and `Termination` except an `Acquire` whose removals fail
  infinitely often, and nothing else.
- `ReleaseFails` (lock.go:97): the process goes on (`leaked`) with its file left at
  the path. `NoLockLeak` names it beside death.

Held fixed: a PID belongs to one process for ever (PID reuse would make the
probe wrong, see the hazard at lock.go:109).

### LabControl

A process moves from one access to shared state to the next (`pc`), and
everything it does in between is part of the step. Its locking phases are those
of `LabLock`, whose actions `LabControl` conjoins (`Locking`, `Unlock`, `Start`, `Vanish`).

| code | actions |
|---|---|
| cmd/fault.go Run | `ApplyRead`, `ApplyCheck`, `ApplyPart`, `ApplyOk`, `ApplyFail`, `Commit`, `CommitFail`, `InvalidateRead`, `SideWrite` |
| cmd/reset.go Run | `ResetRead`, `ResetVerify`, `RecoverOk`, `TierOk`, `BootstrapFails`, `RestorePart`, `RestoreFail`, `UnknownTier`, `Suite`, `Commit`, `CommitFail` |
| cmd/reset_provision_history.go Run | `ProvisionBegin`, then the same from tier R3 on |
| cmd/status.go Run | `StatusRead`, `StatusObserve`, `Locking`, `GiveUp`, `SideWrite`, `SideWriteFail`, `Unlock` |
| cmd/validate.go recordObservation | `ValidateRead`, `SideWrite`, `SideWriteFail` |
| app.go handler | `Interrupt`, `HandlerRead`, `HandlerWrite`, `HandlerExit` |
| the world | `Crash`, `Drift` |

Data abstractions:

- `state.json` is `[state, valid, fault]` or `Unreadable` (missing, corrupt or
  naming no state: `Store.Read` treats the three alike). Timestamps and the
  `last_*` records steer no control flow and are left out; the history is `LabJournal`'s.
- The environment is a set of *residues*, deviations from the canonical
  installation. A fault is given by the residues its `Apply` leaves, `Recover`
  and each tier by those they clear, and the suite, the lightweight checks and
  the precondition checks by those that make them fail. `Apply` and the tiers
  may be cut off after any part of their operations (`ApplyPart`,
  `RestorePart`, then a failure, a crash or the 10 second timeout).
- One run of checks is one atomic observation. The checks after a successful
  `Apply` (fault.go:223) only print warnings and are left out.
- All faults of the catalog declare `Preconditions: [CONFORMANT]`, so the
  fourth precondition of apply coincides with the second. An unknown fault ID
  is rejected before anything shared is touched and is not among the commands.
- `bootstrap.sh` ends with `validate.sh`: it fails, after its work, when
  blocking checks fail (`BootstrapFails`). Where `validate.sh` is not executable
  it only warns and succeeds (bootstrap.sh:454): `TierOk`, which for R3 therefore
  does not depend on the checks.
- Output and exit codes are left out, the audit log is `LabJournal`'s. Exit code 5 of status
  cannot occur: its `LightweightResult` is never nil, so `Detect` always decides.
- The handler ignores a second signal, as the channel is read once.

Everything that can go wrong costs one unit of `trouble`, bounded by
`MaxTrouble`: a failing operation or Write, a signal, a crash, a drift. `ApplyPart`
and `RestorePart` are free, as are the failures that follow from the state
(`BootstrapFails`, `UnknownTier`, a denied lock). An `OpenError` and a
`ReclaimFails` of the lock are free too, as they are steps of `Acquire` that may be
repeated; the other ignored errors of the lock cost a unit (`LockTrouble`).

Ghosts: `dirty[p]` collects the kinds of Write others made since `p`'s Read,
`lost` says that the record of some change is lost (overwritten by a Write that
had not seen it, or never made after a failed restoration), `injected` the
faults whose `Apply` has completed.

### LabService

One process at a time, numbered by `pid`; `pc` is the next step of its main
goroutine, one shared effect per step. `files` is what is in `/run/app`.

| code | actions |
|---|---|
| service/main.go, startup; signals.Init and its siblings | `RemoveStaleLoading` to `StartListener`, in that order; `Bind` in the goroutine of ListenAndServe |
| service/main.go, shutdown | `StopWaiting` to `Return` |
| chaos.ServeHTTP, server.handle* | `Arrive`, `Drop`, `CountDrop`, `Handle`, `Touch`, `TouchFails`, `ReportFailure`, `Reply` |
| telemetry.Collector.Run | `LoadRequests`, `LoadErrors`, `WriteSnapshot`, `Tick`, `StopCollector` |
| systemd, kernel | `Launch`, `Catch`, `Crash` |

- A write by temporary file and rename is one step, and any write may fail, for
  whatever reason. The fatal ones (`WriteOrExit`) end the process
  with exit code 1, the others (`SetStatus`) leave the old content, which the
  ghost `lost` records (`"write"`). Any use of the state directory may fail as well (`TouchFails`, `ProbeStateDir`).
- Any removal may fail too (`Unlink`): its error is dropped or only logged, the
  process goes on with the file in place (Running beside `loading`,
  main.go:177-181), and `lost` records it (`"remove"`). `HealthyIsIdentified`
  and `GracefulExitIsClean` speak of the processes whose removals worked.
- `Launch` finds the directory as the last process left it, or a new one
  (`RuntimeDirectory=app` recreates it; a directory made by hand stays).
- SIGTERM and SIGINT are alike, except that with `nosigterm` only SIGINT is
  caught; `Catch` stands for both. A signal that is not handled, before `Notify` or
  after `ResetSignals`, ends the process: `Crash`. So do SIGKILL (after
  TimeoutStopSec) and the OOM killer, which the OOM mode only makes certain.
- Time is abstract: the drain may time out at any moment, a tick may come at
  any moment, also after the cancellation, when Go's `select` may prefer it.
- A request is used once per process; `/headers` and `/reset` behave as `/slow`
  (counted, then over). The 500 of `/reset` (server.go:231-233) cannot occur and is
  left out: it needs a ResponseWriter that is no Hijacker, the server speaks
  HTTP/1 only (no TLS), whose ResponseWriter is one, and the middleware passes it on unchanged (chaos.go:105). Latency and the duration of `/slow` are the time a
  request may spend between its steps.
- Of a snapshot the PID and the two counters are kept; of the configuration the set of chaos modes.

`LabSignals` is the abstract specification of the four files. It knows seven
phases of a process (down, stale, starting, ready, serving, stopping, leaving) and says
in which one a file may change and what must be so before: the stale markers
are gone before Starting appears; `app.pid` is there before `healthy`; Running and
Degraded are said only between the end of `loading` and the first request; after that
no status but Unhealthy and ShuttingDown is written; ShuttingDown
is said before `healthy` goes, or its write has failed; the
PID goes last; a process that exits with an error leaves no `healthy`, one
that returns leaves no PID, one that is killed may leave anything. Where a removal has failed
(`lost`), what rests on it is no longer promised. The order within a phase, the
handlers, the listener, the collector and the configuration are not in it. The refinement mapping
(`PhaseAt`) takes the phase from the next step of the main goroutine.

It is what the code keeps, which is less than the comments of signals.go
say, in three places:

- signals.go:149 has the socket bound when `healthy` is created; it is not (run `service_bound`).
- signals.go:156 says that `loading` and `healthy` must not coexist. main.go:173-180
  creates one and then removes the other, in the order that signals.go:32-33
  gives, so they coexist in between, and for the life of the process when the removal
  fails. `BecomeReady` leaves open whether `loading` is there.
- signals.go:171-174 gives Unhealthy precedence over Running and Degraded. main.go:181 and
  207 do not look at what the probe has written (main.go:299). The step that breaks
  the rule is an action of its own, `OverrideUnhealthy`, beside `Serve`, which
  keeps it; it is possible only before requests are served.

### LabCatalog

`LabControl` takes a catalog as constants; `LabCatalog` is the catalog of the
code. `host` holds every fact a fault, a tier or a drift changes (files, modes,
what systemd and nginx have loaded, the chaos file, the manager environment,
nftables, the 50 MiB volume) and the process of `app.service`; a check is the
set of facts on which its `Execute` succeeds. `Apply`, `Recover` and the tiers
are sequences of executor operations, each with the condition on which it
`Succeeds` and its `Effect`. A command does one operation per step (`todo`), and
systemd and the service act in between.

| code | definitions |
|---|---|
| catalog/faults.go | `FaultF001` ... `FaultF021`, `ReplaceFirstAddr` |
| executor/real.go | `Succeeds`, `Effect`, `StepDone`, `StepImpossible`, `StepTimesOut`, `StepFails` |
| conformance/, and the request for / in cmd/status.go | `SystemFailing` ... `LogFailing`, `Dependent`, `IsConformant`, `LooksHealthy` |
| cmd/fault.go, cmd/reset.go, cmd/status.go | `Apply`, `ForceApply`, `Applied`; `Reset`, `Restored`; `Status` |
| scripts/bootstrap.sh | `TierR3`, `BootstrapFiles`, `BootstrapServices` |
| systemd, the service, an operator | `Ready`, `AppExits`, `Retry`, `HitStartLimit`, `StartLimitPasses`; `Drift` |

- Commands come one after the other: their concurrency is `LabControl`'s. What
  that model is told of its faults, residues and tiers is compared here:
  `MCLabControl` has, for each residue, the machine that shows it, lets the
  operations of `Apply`, `Recover` and the tiers and the checks of `LabCatalog`
  run on it, and assumes (`InstanceAssumption`, `SmallInstanceAssumption`, which TLC
  evaluates in each run) that the constants are the outcome. Only the foreign
  process on the port is beyond it, as `LabCatalog` has no such process.
- `config.yaml` is the sequence of the addresses that occur in its text, the
  comment's first, because `replaceInBytes` replaces the first occurrence. The
  unit and the nginx file are the sets of edits made to them.
- Two checks cannot fail: F-003, as nothing touches the log directory, and H-002,
  which any answer but 200 satisfies, also none (`StatusCode` 0). E-004 fails only with
  nginx down, which adds the header to its own 502 too (`always`). P-003 looks for
  `0.0.0.0:80` in the output of `ss` and finds it in `0.0.0.0:8080`.
- The service does not validate APP_ENV, so F-006 and F-017 do not keep it
  from starting; the rule of F-021 names the interface enp0s8, so it does not reach the
  loopback traffic between nginx and the service.
- `awaitHealthy` waits for the listener; the marker it polls comes a little
  earlier (see `service_bound`), which is the same failure one step later.
- `validate.sh` is taken to be executable, so `ValidateSh` can fail the tier. That is the stricter
  branch of bootstrap.sh:446-456: otherwise it warns and succeeds, as `LabControl` allows.
- The ghost `dirt` collects what no recorded fault accounts for: a drift, a
  forced application, an `Apply` that failed, a reset of an irreversible fault
  with R1 or R2. The service dying or restarting is not part of it.

### LabRegister and LabStore

`LabStore` has one action per system call of `Store.Read` and `Store.Write`.
`at[p]` is the next call, `tmp[p]` the temporary file, `sf[p]` what is read or written.

| code | actions |
|---|---|
| Read (os.ReadFile) | `Open`, `ReadAll`, `ReadFails` |
| Write | `Call`, `CreateTemp`, `WriteData`, `Sync` (and Close), `Chmod`, `Rename` |
| its error paths | `CreateFails`, `CallFails`, `Cleanup` (the deferred os.Remove) |
| the world | `Dies`, `CommitDir`, `PowerLoss` |

- A file is a record of its content (`data`), whether that is on the disk and
  whether it has mode 0644. This identifies a file with what it holds, which is
  right because nobody writes to a file that has been published: a reader that
  opened `state.json` before a rename reads the old content to its end.
- Temporary names are random, so no process meets the temporary file of
  another, and the file of a dead process is never touched again. `os.Remove` in the
  deferred function is assumed to succeed.
- Directory updates reach the disk in order, at any time (`CommitDir`). Write
  syncs the file and not the directory: after a power cut `state.json` may be
  an earlier one, complete. `LabRegister` says so with `settled`; nothing in the
  documents promises durability.
- Contents that parse are `Values`. `Torn` is a partial one, which Write must never publish.
- An existing file may fail to be opened, read or parsed at any Read (`ReadFails`; store.go:109,
  115, 119): I/O errors, permissions, or damage that is not Write's. The
  three errors are one, as no caller tells them apart. `LabRegister` has the same action:
  a Read returns the value or an error.

`LabRegister` is the abstract specification: `Read` and the successful end of
a Write each take effect at one instant, a Write that reports an error has no
effect. The mapping takes Read's instant at the open and Write's at the rename.

### LabJournal

Six commands (the three that mutate, `status`, `validate`, and the interrupt
handler as a process of its own) on top of `LabStore`'s calls; every step of a
process is one call on `state.json`, one executor operation, one audit entry, or a lock step.

| code | actions |
|---|---|
| executor/real.go: each operation and its LogOp | `Operate`, `LogOp`; `Refused` |
| executor/audit.go append | `Append1` |
| cmd/fault.go, cmd/reset.go, provision: AppendHistory, Write, LogTransition | `OpenState`, `ReadState`, `ReadStateFails`, `Record` (`NewHistory`), `WriteCall` (`AfterWrite`), `Log`, `LogError` |
| cmd/status.go, cmd/validate.go, app.go handler | the same, with another `Found`, `Kind` and order |
| the lock | `Lock`, `Steal`, `Denied`, `Release` |
| the world | `Crash`, `PowerFails` |

- `holders` are the processes that `Acquire` has let in and that have not released.
  `Lock` is an `Acquire` that finds nobody in; `Steal` is one that lets a process
  in beside another, by any of the ways `LabLock` has (an empty or unreadable
  file, a stale PID read earlier), and sets the ghost `stolen`. It counts one towards `MaxTrouble`.
  The lock of a dead process is released with it. `HistoryIsNewest` and `AuditOrder` speak of
  the histories in which no lock was stolen; the other properties hold with stolen locks too.
- After a theft `Denied` is possible more often than in the code, where the
  release of one holder may remove the file of the other (then `Steal` is the
  code's way in); it adds behaviours only.
- A failing Read (`ReadStateFails`) makes apply give up, but reset starts from
  `Fresh` (reset.go:45-47) and status writes a fresh file (status.go:84-91): when such a
  command (`blind`) writes, the history is gone, which `erased` records.
- The handler shares the process of the command it interrupts; here it is a
  process of its own, which has more interleavings, not fewer.
- In the history a transition is its process; the audit entries carry kind,
  process and number of the operation.
- `append` is one `write` under O_APPEND. It may fail, or be cut short, and
  then the next line is appended to the fragment and lost with it (`ragged`).
  The log is not synced: a power cut may take its last lines.
- provision has one operation, the bootstrap script; a reset of tier R3 too, but
  it may retry others before. `MaxOps` bounds the operations of the others.

Ghosts: `recorded` the transitions renamed into place since the last provision,
`committed` their processes, `behind` those that have not read the last one,
`blind` those whose last Read failed, `erased` that a Write by one of these or a power cut
has undone one, `stolen` that a lock was stolen, `blackout` that the power was cut.

## 3. Properties and runs

| run | instance | what it asks |
|---|---|---|
| `lock` | 3 processes, deaths and ignored errors anywhere | `LockTypeOK`; `ExclusiveUnlessStolen`: exclusion fails only after a live holder's file was unlinked; `NoLockLeak`: only a dead process, or one whose `Release` could not remove it, leaves its file; `AcquireDecides`, unless removals fail for ever; `CrashNeverWedgesLock`: the last survivor is never denied |
| `control` | 2 processes, MaxTrouble 2, 6 command lines, 3 initial situations | `TypeOK`; `FaultIffDegraded` (I-2 of the state model, of the file and of every copy that may become the file); `RecordedFaultWasInjected`; `SerializedTransitions`; `InjectionIsAuthorised` |
| `control_calm` | 3 processes, no trouble, 6 command lines, 5 initial situations | `RecordMatchesEnvironment`: a recorded fault is in the environment, and CONFORMANT is not recorded while the lightweight checks would fail |
| `control_live` | 2 processes, MaxTrouble 1, fair | `Termination`, unless removals of the lock file fail for ever; `UsesLock`: LabControl implements LabLock |
| `service` | 2 processes in succession, 1 request each, with and without chaos, writes and removals failing at any call, fair main goroutine | `TypeOK`; `HealthyIsIdentified`; `NoFalseCrashSignal`; `FailureIsReported`: a client with a 500 finds Unhealthy; `ErrorsAreRequests`; `GracefulExitIsClean`; `SnapshotsAdvance`; `ImplementsSignals`: the files change as `LabSignals` promises their readers; `ShutdownCompletes` |
| `service_bound` | as `service` | `BoundBeforeHealthy` is violated |
| `lock_exclusion` | 3 processes | `MutualExclusion` is violated |
| `validate_lost_update` | 2 processes, no trouble | `ValidateKeepsClassification` is violated |
| `catalog` | 19 faults, 3 tiers, MaxTrouble 2 | `TypeOK`; `NoFaultNoTrace`: with no fault recorded no trace of one is left, whichever tiers ran and failed; `RetrySucceeds`: wherever resets have stopped, the next one, of any tier that fits the fault, goes through and restores everything; `DeclaredPassingHolds`: the checks a fault declares untouched pass; `DeclaredFailingShows`: those it declares failing fail, also after a restart of the service |
| `catalog_address` | F-002 and F-016, no trouble | `AddressFaultTakesEffect` is violated |
| `status_revalidates` | 2 processes, one trouble | `RevalidatedFromEvidence` is violated |
| `journal` | 2 processes, 2 operations each, MaxTrouble 2, 2 history entries kept of an initial 3 (or no file) | `TypeOK`; `ImplementsRegister`: store.go is an atomic register; `PublishedIsWhole`; `NoTempAfterWrite`; `HistoryIsNewest`, while no lock is stolen; `TransitionLinesAreTrue`: no entry for a transition that was not made; `AuditOrder`, while no lock is stolen; `AuditAccountsForChanges`: what the log lacks is paid for by failures |

The five violated properties are divergences between the documents and the code:

- *The service is healthy before it listens.* `healthy` is created at
  main.go:173, the address is bound from main.go:238 on, in a goroutine; a bind
  that fails comes after the marker.

- *The lock does not exclude.* Process A creates the file; before it writes its
  PID, B reads an empty file, takes it for malformed, unlinks it and creates
  its own (lock.go:71-77). The same happens when two processes find the same
  stale lock and the slower one removes the file of the faster (lock.go:82).
- *validate changes the classification.* It reads the whole file and writes it
  back without the lock; what was recorded in between is undone. In the trace that is
  the classification which a status has just made valid again; a transition's state and fault can be lost the same way.
- *F-002 and F-016 have no effect.* Both replace the first `127.0.0.1:8080` in
  `config.yaml`, which is in a comment (config.yaml:12); `addr` stays, the
  service restarts on 8080, and the fault is recorded as active (faults.go:118, 771).
- *status does not re-derive after an interrupt.* With classification_valid
  false the recorded state is dropped before detection, so nothing counts as
  reconciled and the old state is declared valid again, whatever was detected.

More divergences met while translating; the models follow the code, no run is spent on them:

- provision never logs a transition, and starts a new history (contract 4.7, 7.3
  have it log one). `UnloggedTransitions` therefore excepts it.
- Operations are logged after they ran (real.go:159), audit.go:60 and contract
  5.2 say before. So a crash leaves a change without an entry, never an entry
  without a change. `NginxReload` with a syntax error and `RestoreFile` without
  a canonical copy are not logged at all (`Refused`).
- reset ignores the error of its Write and logs the transition all the same
  (reset.go:128), exit code 0. `TransitionLinesAreTrue` excepts it when something failed.
- validate's entry is of kind executor_op, not validation_run (contract 7.3), and
  comes without the lock, in the middle of another command's.
- Five faults change nothing that a check sees although they declare failing
  ones (faults.go:104, 248, 568, 610, 721): F-002 and F-016 (above), F-006 and F-017, because the
  service does not validate APP_ENV, and F-021, whose rule is for the interface enp0s8. F-010 is undone by any restart of the
  service while it stays recorded, and F-001, F-003, F-005, F-009 and F-013 are
  not noticed by the running service: fault.go:223 then warns that their checks
  pass. F-009 declares four checks that cannot fail, and E-004 passes on a 502.
  `DeclaredFailingShows` names these exceptions (`WithoutEffect`, `Latent`,
  `MisdeclaredFailing`) and holds for everything else.
- When the state directory is broken at startup, the probe writes Unhealthy
  (main.go:299), and main goes on to write Running (main.go:181) and, with chaos,
  Degraded (main.go:207) over it, although signals.go:173 gives Unhealthy
  precedence: until the first request for / the status hides the fault.
  `OverrideUnhealthy` of `LabSignals` is this step.
- `loading` and `healthy` coexist between main.go:173 and 177, and longer when
  the removal fails, against signals.go:156.
- Contract 7.4 keeps the entries of a command that holds the lock free of others'; with a
  stolen lock (`lock_exclusion`) those of two such commands interleave, and
  operations are logged out of order.
- Acquire recurses for ever when the lock file cannot be removed (lock.go:82),
  although a command "MUST NOT wait for the lock" (lock.go:42).
- No reader checks `spec_version` (contract 6.4), and status never clears
  `active_fault` by itself (system-state-model 4.3).

### Bounds

Two processes suffice for every pairwise interleaving; the third in `lock`
lets a reclaim meet a new holder while the first is still in its critical
section, and the third in `control_calm` lets a status or a validate straddle
two transitions. The main instance has a fault that the lightweight checks see (F-004,
reversible, R2) and one that nothing sees (F-008, confirmed, R3), a deviation
that only the suite sees (a wrong binary mode) and one that no tier clears (a
foreign process on the port). MaxTrouble 2 allows a failure followed by a
crash, an interrupt followed by a failing Write, or a drift and a crash.
`control` and `control_calm` leave out the two command lines that end before
changing anything (unconfirmed F-008, an unknown tier; the smaller runs have
them) and the forced application of F-004, beside which the forced F-008 stays.
`control` also leaves out the explicit tier R1, which the tier of the small runs'
fault exercises, and `control_calm` provision, whose steps are those of a reset with R3. `control`
starts from the three initial situations that drift does not reach by itself.
In `catalog`, MaxTrouble 2 lets a reset fail twice, at two places, before it goes
through; failures that follow from the state of the machine (a start limit, a
deaf process, a broken nginx file) are free. No fault is applied once `dirt`
holds an unaccounted change, as the properties speak of the other histories
only. `RetrySucceeds` supposes that the start limit has passed: `Recover` of F-005, F-009 and
F-013 starts the service before the tier's `reset-failed`, so a reset during the limit fails.
`DeclaredPassingHolds` excepts the check F-002 under fault F-003, whose `chmod 000` is
what that check tests although the fault declares it passing (faults.go:147).

Symmetry is over processes or requests, in runs without liveness.

In `service`, two processes let the second start in the files of a crashed
first one. One request suffices: handlers meet the main goroutine and the
collector, and each other only in the two atomic counters. It can be counted, dropped, fail
or remain unanswered at every point of the life of its process.

In `journal`, a history of three where two are kept makes `AppendHistory` drop
one, then two entries; two operations are the first that can be out of order;
two units of trouble allow a cut-short line followed by a crash, or a failing
Write followed by a failing Write of the invalidation, or a stolen lock and one
failure. Two processes, one of which may be the handler,
give every lost update of a history entry. The third writer that would be needed for a
lost update of a lost update is covered by the proofs.

### Fairness and deadlock

`FairLockSpec` has weak fairness of `AcquireStep(p)` and `FairSpec` of
`Advance(p)`: a process that can run is scheduled, and the calls it makes
return (executor commands by their 10 s timeout, HTTP probes by their 5 s one). Nothing
obliges a user to start a command, nothing obliges a failure, a signal or a
handler to happen: `Start`, `Hindrance`, `Handler` and `Drift` are not fair. The system stops when all
invocations have ended, so deadlock is not checked there, nor in `journal`, where all processes end or die.

`FairSpec` of LabService has weak fairness of `Start \/ Stop`: the main goroutine
is scheduled and the timer of `ShutdownGrace` fires. Handlers may hang for ever
(a client that does not read), so nothing else is fair. The model stops when the last of its
`MaxRuns` processes has ended, so deadlock is not checked there either.

## 4. Proofs

`LabLockProofs` and `LabControlProofs` prove, for every set of processes and
every catalog that satisfies the assumptions named in the modules:

- `LockTypeInvariant`, `LockExclusion`, `LockLeak`. Exclusion needs the
  strengthening `OwnFile`: while nothing is stolen, the file at the path is that of the
  holder. `NoLockLeak` is inductive with the type invariant. All of them include
  the steps in which an ignored error occurs.
- `ControlUsesLock`: every step of the control plane is a lock step or leaves
  the lock alone. The lock theorems carry over (`ControlLock`) without being proved again.
- `ControlTypeInvariant`, with `ApplyHasFault` (a process that applies has a
  fault of the catalog on its command line).
- `ControlFaultIffDegraded` and `ControlRecordedFaultWasInjected`, both from
  `SoundCopies`: the file, every `sf` and every copy of the handler is
  consistent and blames only an injected fault, or a command's own that has just been applied. It is
  needed because any copy may become the file: lost updates change which sound
  record is on disk, never its soundness.
- `ControlSerializedTransitions`: a process between its Read and its Write
  holds the lock (`LockHeld`), so while nothing is stolen only one can commit
  (`CommitAlone`), and `stolen` never goes back (`StolenStays`).
- `ControlInjectionIsAuthorised`, from `Authorised`: until another Write intervenes, the file
  an unforced apply works on is the pristine one it read.
- `ControlRecordMatchesEnvironment` (LabRecordProofs), from `CalmInv`: a
  command about to record holds the truth (`Truthful`), and while nobody
  mutates so do the file and everyone who has missed no Write (`Reliable`).
  Whoever read or observed while another command was mutating has missed that
  command's Write, and its own Write then loses a record, which the property excepts.

- `ServiceTypeInvariant`; `ServiceHealthyIsIdentified`,
  `ServiceNoFalseCrashSignal` and `ServiceGracefulExitIsClean` from `FilesInv`,
  which says what the files hold at each point of startup and shutdown; handlers preserve it because all they
  write is Unhealthy. `ServiceSnapshotsAdvance` from `SnapshotInv`: what is on
  disk is at most what the collector holds, which is at most what was counted.
- `ServiceRefinesSignals`: every step of `LabService` is a step of `LabSignals` or
  a stutter. `FilesInv` gives what the phases presuppose (no marker when Starting
  is written and no `loading` when Running is, unless a removal has failed; the
  PID when `healthy` is created), `ReportInv` that a handler
  runs only in a process that is up. `LabSignals` is the protocol as the code keeps it,
  with the three differences from the comments of signals.go named above.
- `ServiceErrorsAreRequests`, from `CountInv`: the counters
  are the cardinalities of the sets of requests counted and failed, also when
  `Requests` is infinite. `ServiceFailureIsReported`, from `ReportInv`: once a
  handler has reported, nothing but Unhealthy is written until the shutdown.

- `StoreRefinesRegister` (LabStoreProofs): every step of `LabStore` is a step of
  `LabRegister` or a stutter, for any number of processes and values. Reads that fail are
  included. It needs `StoreInv`: a published file is whole, and the temporary file of a writer has
  what the phase of its Write says (`Phases`). `AlwaysWhole` and
  `AlwaysClean` come with it.
- `JournalUsesStore` (LabJournalProofs): every step of `LabJournal` is a step of
  `LabStore` or leaves it alone, so the three carry over.
- `HistoryIsAlwaysNewest`, from `ControlInv` (who has been let in, that at most
  one is unless a lock was stolen, and who is behind or blind, at each step) and `FitInv`: the history of every copy that may still be written is the
  newest part of what was recorded when it was read.
- `TransitionLinesAreAlwaysTrue` (LabAuditProofs), from `LineInv`: whoever may
  still log a transition is `Entitled` to.
- `AuditIsAlwaysOrdered`, from `OrderInv`: only the last operation carried out can
  be without its entry and still get it, because its process is the only holder while no lock is stolen.
- `AuditAlwaysAccounts`, from `AccountInv`, by counting: each failure or crash
  pays for two missing entries at most; a ragged last line keeps one in reserve
  for the line it will swallow.

`LabCatalogProofs` proves the invariants of `LabCatalog` for every `Faults`
among the 19 (`FaultsAssumption`) and every `MaxTrouble` in `Nat`:
any number of failing operations, interrupted resets, crashes and drifts. They follow from

    CatalogInv == TypeOK /\ CommandInv /\ TraceInv

which TLC checked on the instance of `catalog` before it was proved, and which speaks of a *target*:
the trace of the fault (`Trace`, the canonical machine with the facts of
`Change`) while it is applied, the installed machine while it is reset.

- `CommandInv`: every pending operation `Fits` the target, that is, what it changes
  it sets to what the target has. It needs nothing about the history.
- `TraceInv`: after an accounted history the pending operations are a plan
  (`Pending`). Each fact differs from the target only if some operation `Brings`
  it, and what an operation reads (the unit file by `daemon-reload`, the nginx
  file by a reload, the address that is edited) is right when its turn comes.
  When no apply is under way, each fact is as installed or as the fault left it (`Between`):
  that is what a reset that stopped anywhere leaves.
- `ApplyPlan` and `RecoverPlan` go through the catalog, fault by fault, and show that `Apply` is a
  plan from the canonical machine and `Recover` one from anything `Between`;
  `ResetPlan` appends a tier. An operation that succeeds or is skipped keeps the plan
  (`StepKeepsPending`, `SkipKeepsPending`), and so does the service, which
  creates nothing but a missing log (`LogKeepsPending`).
- `CatalogTypeInvariant` and `CatalogNoFaultNoTrace` are then immediate: an empty plan is done.
- `CatalogDeclaredPassing` and `CatalogDeclaredFailing`: while an unforced
  fault is recorded the machine has its trace (but perhaps for the log), and the checks are
  evaluated on that, fault by fault (`PassingHolds`, `FailingShows`).
- `CatalogRetrySucceeds`: a run of a reset is followed by induction over its
  operations (`ReplayRecovers`). None of them is refused
  (`ResetUnrefused`), each brings what it is there for and disturbs nothing that has been brought
  (`StepRestores`), and at its restart the service finds all it needs.
  `Replay` is a recursive function over the operations; that it exists
  (`RunExists`) and the induction itself rest on the well-foundedness of `<` on
  `Nat` (`NatSet`, from WellFoundedInduction), applied to a set.

Only model-checked: the liveness properties (`AcquireDecides`, `CrashNeverWedgesLock`,
`Termination`, `ShutdownCompletes`), which TLAPS cannot prove under fairness. Every
invariant and every other action property of a passing run is the statement of a theorem.

## 5. Not modelled

- The system calls of the service's `writeAtomic` (the same pattern as
  `Store.Write`, without the sync) are one step in `LabService`.
- `reconcileFromSuite` and `NewDetector` in detect.go: no command calls them.
- The `last_*` records and timestamps of `state.json`, which nothing reads back
  to decide anything.
- Of the service, log lines, the readings of `/proc` and zombie children (F-014's
  `handleRoot` branch).
- Rendering, flag parsing, the spec index, test helpers and the documentation
  site keep no shared state; `fault list`, `fault info`, `history` and
  `validate --check` only read.
- PID reuse (lock.go:109): a PID belongs to one process for ever.

## 6. Plan

1. Done: `LabLock`, `LabControl`, `LabService`, `LabCatalog`, their runs and proofs.
2. Done: `LabRegister`, `LabStore`, `LabJournal` (history and audit log) with the
   refinement and all its safety properties proved.
3. Done: the declared FailingChecks against those that do fail; the constants of
   the `LabControl` instances justified by `LabCatalog`.
4. Done: the invariants of `LabCatalog` proved.
5. Done: `LabSignals`, implemented by `LabService`, proved.
6. Open: `LabControl` as an abstraction of `LabCatalog` by a refinement, not only by its constants;
   it needs the concurrency of the first and the operations of the second in one model.
