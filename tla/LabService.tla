----------------------------- MODULE LabService -----------------------------
(***************************************************************************)
(* The subject service, service/: the startup and shutdown sequence of     *)
(* main.go, the request handlers behind the chaos middleware, the          *)
(* telemetry goroutine, and the files under /run/app by which all of them  *)
(* report to the control plane.                                            *)
(*                                                                         *)
(* The main goroutine is at pc; each of its steps changes one shared thing *)
(* (a file, the listener, the signal disposition), because the handlers,   *)
(* the collector, a signal or a crash may come in between.  A process has  *)
(* the PID pid; MaxRuns bounds the number of processes.  Of systemd and of *)
(* net/http only what main.go relies on is modelled.  Any call that writes *)
(* or removes a file, in /run/app or in the state directory, may fail.     *)
(***************************************************************************)
EXTENDS Naturals, FiniteSets

CONSTANTS
  MaxRuns,    \* bound: processes started, which are numbered from 1
  Requests,   \* the requests that may reach one process
  ModeSets    \* the sets of chaos modes that chaos.env may configure

Modes == {"latency", "drop", "oom", "nosigterm"}

ASSUME MaxRunsAssumption == MaxRuns \in Nat
ASSUME ModeSetsAssumption == ModeSets \subseteq SUBSET Modes

VARIABLES
  pc,         \* the next step of the main goroutine, or "down"
  pid,        \* the PID of the process, or of the last one
  modes,      \* cfg.Chaos: the chaos modes of this process
  exit,       \* how the last process ended
  files,      \* the signal files of /run/app
  lost,       \* ghost: this process failed to "write" a status, to "remove" a file
  listener,   \* the goroutine in ListenAndServe
  handling,   \* signal.Notify is in force
  signalled,  \* sigCh holds a signal
  count,      \* telemetry.Metrics
  req,        \* req[r]: progress of a request
  tel,        \* the collector goroutine and the snapshot it assembles
  cancelled,  \* telCtx is cancelled
  telemetry   \* telemetry.json

main == <<pc, pid, modes, exit>>
signal == <<handling, signalled>>
serving == <<listener, count, req>>
collecting == <<tel, cancelled, telemetry>>
vars == <<main, files, lost, signal, serving, collecting>>

-----------------------------------------------------------------------------
Statuses == {"Starting", "Running", "Degraded", "Unhealthy", "ShuttingDown"}

Startup == {"removeLoading", "removeHealthy", "starting", "createLoading",
            "config", "writePid", "probe", "collector", "createHealthy",
            "unload", "running", "degrade", "notify", "listen"}
Shutdown == {"announce", "unhealthy", "cancel", "reset", "close", "drain",
             "unlinkPid", "return"}

\* A request is idle, then at the middleware with its route, then in a handler
\* (/headers and /reset do, in this model, what /slow does), then answered.
Routes == {"/", "/health", "/slow"}
InFlight == Routes \cup {"dropping", "touching", "failed", "reported", "counted"}
Answers == {"200", "500", "503"}

NoFiles == [loading |-> FALSE, healthy |-> FALSE, status |-> "none", pid |-> 0]
NoRequests == [r \in Requests |-> "idle"]
NoCollector == [phase |-> "off", requests |-> 0, errors |-> 0]

MainType ==
  /\ pc \in Startup \cup {"wait"} \cup Shutdown \cup {"down"}
  /\ pid \in Nat
  /\ modes \in SUBSET Modes
  /\ exit \in {"none", "clean", "failed", "killed"}
FilesType ==
  /\ files \in [loading : BOOLEAN, healthy : BOOLEAN,
                status : Statuses \cup {"none"}, pid : Nat]
  /\ lost \in SUBSET {"write", "remove"}
SignalType == handling \in BOOLEAN /\ signalled \in BOOLEAN
ServingType ==
  /\ listener \in {"none", "binding", "listening", "failed", "closed"}
  /\ count \in [requests : Nat, errors : Nat]
  /\ req \in [Requests -> {"idle"} \cup InFlight \cup Answers]
CollectingType ==
  /\ tel \in [phase : {"off", "due", "half", "loaded", "select"}, requests : Nat, errors : Nat]
  /\ cancelled \in BOOLEAN
  /\ telemetry \in [pid : Nat, requests : Nat, errors : Nat]

TypeOK == MainType /\ FilesType /\ SignalType /\ ServingType /\ CollectingType

Init ==
  /\ pc = "down" /\ pid = 0 /\ modes = {} /\ exit = "none"
  /\ files = NoFiles /\ lost = {}
  /\ listener = "none" /\ handling = FALSE /\ signalled = FALSE
  /\ count = [requests |-> 0, errors |-> 0]
  /\ req = NoRequests /\ tel = NoCollector /\ cancelled = FALSE
  /\ telemetry = [pid |-> 0, requests |-> 0, errors |-> 0]

Alive == pc # "down"

At(from, to) == pc = from /\ pc' = to /\ UNCHANGED <<pid, modes, exit>>

\* The process is gone: its memory, sockets and goroutines with it, its files not.
Gone(how) ==
  /\ pc' = "down" /\ exit' = how /\ modes' = {}
  /\ listener' = "none" /\ handling' = FALSE /\ signalled' = FALSE
  /\ count' = [requests |-> 0, errors |-> 0] /\ req' = NoRequests
  /\ tel' = NoCollector /\ cancelled' = FALSE
  /\ UNCHANGED <<pid, lost, telemetry>>

\* os.Exit(1) in main.
ExitFailed(from) == pc = from /\ Gone("failed") /\ UNCHANGED files

\* Only the main goroutine and the signal files move.
FilesOnly == UNCHANGED <<lost, signal, serving, collecting>>

\* writeAtomic of an empty file or of the PID, whose error main takes for fatal.
WriteOrExit(from, to, written) ==
  \/ At(from, to) /\ files' = written /\ FilesOnly
  \/ ExitFailed(from)

\* SetStatus with its error dropped or only logged.
SetStatus(status) ==
  \/ files' = [files EXCEPT !.status = status] /\ UNCHANGED lost
  \/ UNCHANGED files /\ lost' = lost \cup {"write"}

\* os.Remove with its error dropped or only logged; rest is without the file.
Unlink(rest) ==
  \/ files' = rest /\ UNCHANGED lost
  \/ files # rest /\ UNCHANGED files /\ lost' = lost \cup {"remove"}

-----------------------------------------------------------------------------
(* Startup. *)

\* systemd starts the process, in the directory the last one left or in a new one.
Launch ==
  /\ pc = "down" /\ pid < MaxRuns
  /\ pc' = "removeLoading" /\ pid' = pid + 1 /\ exit' = "none"
  /\ modes' \in ModeSets
  /\ \/ UNCHANGED <<files, telemetry>>
     \/ files' = NoFiles /\ telemetry' = [pid |-> 0, requests |-> 0, errors |-> 0]
  /\ lost' = {}
  /\ UNCHANGED <<signal, serving, tel, cancelled>>

\* Mutant of RemoveStaleLoading: dropped.
KeepStaleLoading == At("removeLoading", "removeHealthy") /\ UNCHANGED files /\ FilesOnly

RemoveStaleLoading ==
  /\ At("removeLoading", "removeHealthy")
  /\ Unlink([files EXCEPT !.loading = FALSE])
  /\ UNCHANGED <<signal, serving, collecting>>

RemoveStaleHealthy ==
  /\ At("removeHealthy", "starting")
  /\ Unlink([files EXCEPT !.healthy = FALSE])
  /\ UNCHANGED <<signal, serving, collecting>>

SetStarting == WriteOrExit("starting", "createLoading", [files EXCEPT !.status = "Starting"])

CreateLoading == WriteOrExit("createLoading", "config", [files EXCEPT !.loading = TRUE])

\* config.Load and logging.New: either may fail.
LoadConfig ==
  \/ At("config", "writePid") /\ UNCHANGED files /\ FilesOnly
  \/ ExitFailed("config")

\* Mutant of WritePid: the error is only logged.
WritePidBestEffort ==
  /\ At("writePid", "probe")
  /\ files' \in {files, [files EXCEPT !.pid = pid]}
  /\ FilesOnly

WritePid == WriteOrExit("writePid", "probe", [files EXCEPT !.pid = pid])

ProbeStateDir ==
  /\ At("probe", "collector")
  /\ UNCHANGED <<files, lost>> \/ SetStatus("Unhealthy")
  /\ UNCHANGED <<signal, serving, collecting>>

\* go collector.Run
StartCollector ==
  /\ At("collector", "createHealthy")
  /\ tel' = [tel EXCEPT !.phase = "due"]
  /\ UNCHANGED <<files, lost, signal, serving, cancelled, telemetry>>

CreateHealthy == WriteOrExit("createHealthy", "unload", [files EXCEPT !.healthy = TRUE])

\* A removal that fails is only logged, and Running follows beside loading.
RemoveLoading ==
  /\ At("unload", "running")
  /\ Unlink([files EXCEPT !.loading = FALSE])
  /\ UNCHANGED <<signal, serving, collecting>>

SetRunning ==
  /\ At("running", "degrade")
  /\ SetStatus("Running")
  /\ UNCHANGED <<signal, serving, collecting>>

\* Mutant of SetDegraded: the name of a canonical state.
SetDegradedCanonical ==
  /\ At("degrade", "notify")
  /\ IF modes = {} THEN UNCHANGED <<files, lost>> ELSE SetStatus("DEGRADED")
  /\ UNCHANGED <<signal, serving, collecting>>

\* With the OOM trigger the allocation starts here; its end is a Crash.
SetDegraded ==
  /\ At("degrade", "notify")
  /\ IF modes = {} THEN UNCHANGED <<files, lost>> ELSE SetStatus("Degraded")
  /\ UNCHANGED <<signal, serving, collecting>>

Notify ==
  /\ At("notify", "listen")
  /\ handling' = TRUE
  /\ UNCHANGED <<files, lost, signalled, serving, collecting>>

\* go ListenAndServe
StartListener ==
  /\ At("listen", "wait")
  /\ listener' = "binding"
  /\ UNCHANGED <<files, lost, signal, count, req, collecting>>

\* In its goroutine ListenAndServe binds the address or finds it taken.
Bind ==
  /\ listener = "binding"
  /\ listener' \in {"listening", "failed"}
  /\ UNCHANGED <<main, files, lost, signal, count, req, collecting>>

-----------------------------------------------------------------------------
(* Shutdown. *)

\* The select: a signal in sigCh or an error in serverErr.
StopWaiting ==
  /\ At("wait", "announce")
  /\ signalled \/ listener = "failed"
  /\ signalled' \in {FALSE, signalled /\ listener = "failed"}
  /\ UNCHANGED <<files, lost, handling, serving, collecting>>

\* Mutant of AnnounceShutdown: the marker is removed first.
AnnounceWithoutStatus ==
  /\ At("announce", "unhealthy")
  /\ files' = [files EXCEPT !.healthy = FALSE]
  /\ FilesOnly

AnnounceShutdown ==
  /\ At("announce", "unhealthy")
  /\ SetStatus("ShuttingDown")
  /\ UNCHANGED <<signal, serving, collecting>>

RemoveHealthy ==
  /\ At("unhealthy", "cancel")
  /\ Unlink([files EXCEPT !.healthy = FALSE])
  /\ UNCHANGED <<signal, serving, collecting>>

\* telCancel does not wait for the collector.
CancelCollector ==
  /\ At("cancel", "reset")
  /\ cancelled' = TRUE
  /\ UNCHANGED <<files, lost, signal, serving, tel, telemetry>>

ResetSignals ==
  /\ At("reset", "close")
  /\ handling' = FALSE
  /\ UNCHANGED <<files, lost, signalled, serving, collecting>>

\* http.Server.Shutdown closes the listener first, or keeps it from binding.
CloseListener ==
  /\ At("close", "drain")
  /\ listener' = "closed"
  /\ UNCHANGED <<files, lost, signal, count, req, collecting>>

\* Mutant of EndDrain: a context without the timeout.
EndDrainWhenIdle ==
  /\ At("drain", "unlinkPid")
  /\ \A r \in Requests : req[r] \notin InFlight
  /\ UNCHANGED files /\ FilesOnly

\* Shutdown returns when nothing is in flight, or after ShutdownGrace.
EndDrain == At("drain", "unlinkPid") /\ UNCHANGED files /\ FilesOnly

\* Mutant of RemovePid: dropped.
KeepPid == At("unlinkPid", "return") /\ UNCHANGED files /\ FilesOnly

RemovePid ==
  /\ At("unlinkPid", "return")
  /\ Unlink([files EXCEPT !.pid = 0])
  /\ UNCHANGED <<signal, serving, collecting>>

Return == pc = "return" /\ Gone("clean") /\ UNCHANGED files

-----------------------------------------------------------------------------
(* Requests: the chaos middleware, then the handler of the route. *)

Proceed(r, from, to) == req[r] \in from /\ req' = [req EXCEPT ![r] = to]

HandlerOnly == UNCHANGED <<main, signal, listener, collecting>>

\* The connection is accepted and ServeHTTP begins.
Arrive(r) ==
  /\ listener = "listening"
  /\ \E route \in Routes : Proceed(r, {"idle"}, route)
  /\ UNCHANGED <<files, lost, count>> /\ HandlerOnly

\* Mutant of Drop: a dropped request is not counted as a request.
DropUncounted(r) ==
  /\ "drop" \in modes
  /\ Proceed(r, Routes \ {"/health"}, "dropping")
  /\ UNCHANGED <<files, lost, count>> /\ HandlerOnly

\* The middleware drops the request: reqCounter, then errCounter and 503.
Drop(r) ==
  /\ "drop" \in modes
  /\ Proceed(r, Routes \ {"/health"}, "dropping")
  /\ count' = [count EXCEPT !.requests = @ + 1]
  /\ UNCHANGED <<files, lost>> /\ HandlerOnly

CountDrop(r) ==
  /\ Proceed(r, {"dropping"}, "503")
  /\ count' = [count EXCEPT !.errors = @ + 1]
  /\ UNCHANGED <<files, lost>> /\ HandlerOnly

\* Every handler counts the request first; only that of / uses the disk.
Handle(r) ==
  /\ Proceed(r, {"/"}, "touching") \/ Proceed(r, Routes \ {"/"}, "counted")
  /\ count' = [count EXCEPT !.requests = @ + 1]
  /\ UNCHANGED <<files, lost>> /\ HandlerOnly

\* touchStatePath
Touch(r) ==
  /\ Proceed(r, {"touching"}, "counted")
  /\ UNCHANGED <<files, lost, count>> /\ HandlerOnly

TouchFails(r) ==
  /\ Proceed(r, {"touching"}, "failed")
  /\ count' = [count EXCEPT !.errors = @ + 1]
  /\ UNCHANGED <<files, lost>> /\ HandlerOnly

\* Mutant of ReportFailure: the response goes out before the status.
ReportAfterReply(r) ==
  /\ Proceed(r, {"failed"}, "500")
  /\ UNCHANGED <<files, lost, count>> /\ HandlerOnly

ReportFailure(r) ==
  /\ Proceed(r, {"failed"}, "reported")
  /\ SetStatus("Unhealthy")
  /\ UNCHANGED count /\ HandlerOnly

\* WriteHeader; /slow gets here after SlowHandlerDelay.  /reset has a 500 for a
\* writer that is no Hijacker, which that of an HTTP/1 server always is.
Reply(r) ==
  /\ Proceed(r, {"reported"}, "500") \/ Proceed(r, {"counted"}, "200")
  /\ UNCHANGED <<files, lost, count>> /\ HandlerOnly

Serve(r) ==
  \/ Drop(r) \/ CountDrop(r) \/ Handle(r) \/ Touch(r) \/ TouchFails(r)
  \/ ReportFailure(r) \/ Reply(r)

-----------------------------------------------------------------------------
(* The collector. *)

Collect(from, to) == tel.phase = from /\ tel' = [tel EXCEPT !.phase = to]

CollectorOnly == UNCHANGED <<main, files, lost, signal, serving, cancelled>>

LoadRequests ==
  /\ tel.phase = "due"
  /\ tel' = [tel EXCEPT !.phase = "half", !.requests = count.requests]
  /\ UNCHANGED telemetry /\ CollectorOnly

\* Mutant of LoadErrors: the errors since the last snapshot.
LoadErrorsDelta ==
  /\ tel.phase = "half"
  /\ tel' = [tel EXCEPT !.phase = "loaded",
                        !.errors = IF telemetry.pid = pid /\ count.errors >= telemetry.errors
                                   THEN count.errors - telemetry.errors ELSE count.errors]
  /\ UNCHANGED telemetry /\ CollectorOnly

LoadErrors ==
  /\ tel.phase = "half"
  /\ tel' = [tel EXCEPT !.phase = "loaded", !.errors = count.errors]
  /\ UNCHANGED telemetry /\ CollectorOnly

WriteSnapshot ==
  /\ tel.phase = "loaded"
  /\ tel' = [NoCollector EXCEPT !.phase = "select"]
  /\ telemetry' \in {telemetry,
                     [pid |-> pid, requests |-> tel.requests, errors |-> tel.errors]}
  /\ CollectorOnly

\* The select of Run picks the tick although ctx may be done too.
Tick == Collect("select", "due") /\ UNCHANGED telemetry /\ CollectorOnly

StopCollector ==
  /\ cancelled
  /\ Collect("select", "off")
  /\ UNCHANGED telemetry /\ CollectorOnly

Collector == LoadRequests \/ LoadErrors \/ WriteSnapshot \/ Tick \/ StopCollector

-----------------------------------------------------------------------------
(* The world. *)

\* SIGINT, or SIGTERM unless it is ignored, goes to sigCh, which holds one.
Catch ==
  /\ handling
  /\ signalled' = TRUE
  /\ UNCHANGED <<main, files, lost, handling, serving, collecting>>

\* SIGKILL, the OOM killer, a panic; SIGTERM or SIGINT while not handled.
Crash == Alive /\ Gone("killed") /\ UNCHANGED files

Start ==
  \/ RemoveStaleLoading \/ RemoveStaleHealthy \/ SetStarting \/ CreateLoading
  \/ LoadConfig \/ WritePid \/ ProbeStateDir \/ StartCollector \/ CreateHealthy
  \/ RemoveLoading \/ SetRunning \/ SetDegraded \/ Notify \/ StartListener
Stop ==
  \/ StopWaiting \/ AnnounceShutdown \/ RemoveHealthy \/ CancelCollector
  \/ ResetSignals \/ CloseListener \/ EndDrain \/ RemovePid \/ Return
World == Launch \/ Catch \/ Crash

Next ==
  \/ Start \/ Stop \/ Bind \/ Collector \/ World
  \/ \E r \in Requests : Arrive(r) \/ Serve(r)

Spec == Init /\ [][Next]_vars

\* The main goroutine is scheduled, its system calls return, and the timer of
\* ShutdownGrace fires.  Handlers, clients and the world owe nothing.
FairSpec == Spec /\ WF_vars(Start \/ Stop)

-----------------------------------------------------------------------------
(* Properties. *)

\* Past the removal of stale files the PID file names the process that the
\* healthy marker speaks of: a reader that finds healthy can trust app.pid
\* (Init, WritePID before CreateHealthy, BeginShutdown before RemovePID), unless
\* the removal of a marker failed.
HealthyIsIdentified ==
  files.healthy /\ pc \notin {"down", "removeLoading", "removeHealthy"}
    => files.pid = pid \/ "remove" \in lost

\* Once it has written Starting, a process whose status writes succeeded never
\* shows Running or Degraded without the healthy marker, the false crash signal
\* that BeginShutdown is ordered to avoid.
NoFalseCrashSignal ==
  pc \notin {"down", "removeLoading", "removeHealthy", "starting"}
    /\ files.status \in {"Running", "Degraded"} => files.healthy \/ "write" \in lost

\* While it serves, a client that got a 500 from / finds the status Unhealthy:
\* no later write of startup or of another handler hides the failure.
FailureIsReported ==
  pc = "wait" /\ (\E r \in Requests : req[r] = "500")
    => files.status = "Unhealthy" \/ "write" \in lost

\* Every 5xx answer is among the errors, every error among the requests, at any moment.
ErrorsAreRequests ==
  /\ Cardinality({r \in Requests : req[r] \in {"500", "503"}}) <= count.errors
  /\ count.errors <= count.requests

\* telemetry.json never goes back: not to an earlier process, except through
\* a new runtime directory, and not to lower counters of the same one.
SnapshotsAdvance ==
  [][telemetry' # telemetry /\ pc # "down" =>
       /\ telemetry'.pid = pid
       /\ telemetry.pid = pid => /\ telemetry'.requests >= telemetry.requests
                                 /\ telemetry'.errors >= telemetry.errors]_vars

\* A process that returned from main left no marker and no PID file, and a
\* status that says it was shutting down, or that a drained request failed; what
\* it failed to remove or to write is the exception.
GracefulExitIsClean ==
  pc = "down" /\ exit = "clean" =>
    /\ (~files.healthy /\ ~files.loading /\ files.pid = 0) \/ "remove" \in lost
    /\ files.status \in {"ShuttingDown", "Unhealthy"} \/ "write" \in lost

\* A caught signal or a listener that cannot bind ends the process, whatever
\* the requests in flight do.
ShutdownCompletes == pc = "wait" /\ (signalled \/ listener = "failed") ~> pc = "down"

-----------------------------------------------------------------------------
(* The promise to the readers of the signal files. *)

\* The phase of a process whose main goroutine is at a point.
PhaseAt(point) ==
  CASE point = "down" -> "down"
    [] point \in {"removeLoading", "removeHealthy", "starting"} -> "stale"
    [] point \in {"createLoading", "config", "writePid", "probe", "collector",
                  "createHealthy"} -> "starting"
    [] point \in {"unload", "running", "degrade", "notify", "listen"} -> "ready"
    [] point \in {"wait", "announce"} -> "serving"
    [] point = "unhealthy" -> "stopping"
    [] OTHER -> "leaving"

Signals == INSTANCE LabSignals WITH phase <- PhaseAt(pc), owner <- pid

\* Whatever startup, shutdown, handlers, crashes and removals that fail do, a
\* reader of /run/app sees the files change as LabSignals says: the stale markers
\* go before Starting, the PID comes before healthy, Running and Degraded only
\* between the end of loading and the first request, Unhealthy is then replaced
\* by ShuttingDown alone, the marker and the PID go last, and a process that gave
\* up leaves no healthy marker.
ImplementsSignals == Signals!SignalsSpec

-----------------------------------------------------------------------------
(* What the documents say and the code does not do. *)

\* The healthy marker appears only when the socket is bound (signals.go:149,
\* conformance-contract.md).  The code creates it before ListenAndServe starts.
BoundBeforeHealthy ==
  [][~files.healthy /\ files'.healthy => listener = "listening"]_vars

=============================================================================
