-------------------------- MODULE LabServiceProofs --------------------------
(***************************************************************************)
(* What the signal files and telemetry.json promise their readers, for any *)
(* number of processes, requests and chaos configurations.  FilesInv says  *)
(* what the files hold at each point of startup and shutdown; it does not  *)
(* depend on the requests, because a handler writes nothing but Unhealthy. *)
(***************************************************************************)
EXTENDS LabService, FiniteSetTheorems, TLAPS

\* Points between two writes of the main goroutine.
Identified == {"probe", "collector", "createHealthy", "unload", "running", "degrade",
               "notify", "listen", "wait", "announce", "unhealthy", "cancel", "reset",
               "close", "drain", "unlinkPid"}
Marked == {"unload", "running", "degrade", "notify", "listen", "wait", "announce", "unhealthy"}
Loading == {"config", "writePid", "probe", "collector", "createHealthy", "unload"}
Ending == Shutdown \ {"announce"}

FilesInv ==
  /\ pc \in Identified => files.pid = pid
  /\ pc \in Marked => files.healthy
  /\ pc \notin {"down", "removeLoading", "removeHealthy"} /\ files.healthy
       => pc \in Marked \/ "remove" \in lost
  /\ pc \notin {"down", "removeLoading"} /\ files.loading
       => pc \in Loading \/ "remove" \in lost
  /\ pc \in {"createLoading", "config", "writePid", "probe", "collector", "createHealthy"}
       => files.status \notin {"Running", "Degraded"}
  /\ pc \in Ending => files.status \in {"ShuttingDown", "Unhealthy"} \/ "write" \in lost
  /\ pc = "return" => files.pid = 0 \/ "remove" \in lost
  /\ GracefulExitIsClean

\* The collector never holds more than was counted, and telemetry.json never
\* more than the collector holds.
SnapshotInv ==
  /\ telemetry.pid <= pid
  /\ Alive => /\ tel.phase \in {"half", "loaded"} => tel.requests <= count.requests
              /\ tel.phase = "loaded" => tel.errors <= count.errors
  /\ Alive /\ telemetry.pid = pid =>
       /\ telemetry.requests <= count.requests
       /\ telemetry.errors <= count.errors
       /\ tel.phase \in {"half", "loaded"} => telemetry.requests <= tel.requests
       /\ tel.phase = "loaded" => telemetry.errors <= tel.errors
  /\ pc = "down" => tel = NoCollector

Handler(r) == Arrive(r) \/ Serve(r)

-----------------------------------------------------------------------------
LEMMA InitType == Init => TypeOK
<1> SUFFICES ASSUME Init PROVE TypeOK
  OBVIOUS
<1> USE DEF Init
<1>1. MainType
  BY DEF MainType
<1>2. FilesType
  BY DEF FilesType, NoFiles
<1>3. SignalType
  BY DEF SignalType
<1>4. ServingType
  BY DEF ServingType, NoRequests
<1>5. CollectingType
  BY DEF CollectingType, NoCollector
<1> QED BY <1>1, <1>2, <1>3, <1>4, <1>5 DEF TypeOK

\* What is left of a process that has ended is well typed.
LEMMA GoneType ==
  ASSUME TypeOK, NEW how \in {"clean", "failed", "killed"}, Gone(how)
  PROVE  MainType' /\ SignalType' /\ ServingType' /\ CollectingType'
<1>1. MainType'
  BY DEF Gone, TypeOK, MainType, Modes
<1>2. SignalType'
  BY DEF Gone, SignalType
<1>3. ServingType'
  BY DEF Gone, ServingType, NoRequests
<1>4. CollectingType'
  <2>1. UNCHANGED telemetry /\ tel' = NoCollector /\ cancelled' = FALSE
    BY DEF Gone
  <2> QED BY <2>1 DEF TypeOK, CollectingType, NoCollector
<1> QED BY <1>1, <1>2, <1>3, <1>4

\* What a step of the startup does beside pc, files and lost.
LEMMA StartFrame ==
  ASSUME Start
  PROVE  \/ Gone("failed") /\ UNCHANGED files
         \/ /\ Alive
            /\ pc' \in Startup \cup {"wait"} /\ UNCHANGED <<pid, modes, exit>>
            /\ UNCHANGED <<signalled, count, req, cancelled, telemetry>>
            /\ handling' = TRUE \/ UNCHANGED handling
            /\ listener' \in {"binding", listener}
            /\ tel' \in {tel, [tel EXCEPT !.phase = "due"]}
<1> USE DEF Alive, At, Startup, signal, serving, collecting
<1>1. CASE RemoveStaleLoading \/ RemoveStaleHealthy \/ RemoveLoading
  BY <1>1 DEF RemoveStaleLoading, RemoveStaleHealthy, RemoveLoading, Unlink
<1>2. CASE SetStarting \/ CreateLoading \/ LoadConfig \/ WritePid \/ CreateHealthy
  BY <1>2 DEF SetStarting, CreateLoading, LoadConfig, WritePid, CreateHealthy, WriteOrExit,
     ExitFailed, FilesOnly
<1>3. CASE ProbeStateDir \/ SetRunning \/ SetDegraded
  BY <1>3 DEF ProbeStateDir, SetRunning, SetDegraded
<1>4. CASE StartCollector
  BY <1>4 DEF StartCollector
<1>5. CASE Notify
  BY <1>5 DEF Notify
<1>6. CASE StartListener
  BY <1>6 DEF StartListener
<1> QED BY <1>1, <1>2, <1>3, <1>4, <1>5, <1>6 DEF Start

\* What a step of the shutdown does beside files and lost.
LEMMA StopFrame ==
  ASSUME SignalType, Stop
  PROVE  \/ Gone("clean") /\ UNCHANGED files
         \/ /\ Alive
            /\ pc' \in Shutdown /\ UNCHANGED <<pid, modes, exit>>
            /\ UNCHANGED <<count, req, tel, telemetry>>
            /\ handling' \in BOOLEAN /\ signalled' \in BOOLEAN
            /\ listener' \in {"closed", listener}
            /\ cancelled' = TRUE \/ UNCHANGED cancelled
<1> USE DEF SignalType, Alive, At, Shutdown, signal, serving, collecting
<1>1. CASE StopWaiting
  BY <1>1 DEF StopWaiting
<1>2. CASE AnnounceShutdown
  BY <1>2 DEF AnnounceShutdown
<1>3. CASE RemoveHealthy \/ EndDrain \/ RemovePid
  BY <1>3 DEF RemoveHealthy, Unlink, EndDrain, RemovePid, FilesOnly
<1>4. CASE CancelCollector
  BY <1>4 DEF CancelCollector
<1>5. CASE ResetSignals
  BY <1>5 DEF ResetSignals
<1>6. CASE CloseListener
  BY <1>6 DEF CloseListener
<1>7. CASE Return
  BY <1>7 DEF Return
<1> QED BY <1>1, <1>2, <1>3, <1>4, <1>5, <1>6, <1>7 DEF Stop

LEMMA StartType == TypeOK /\ Start => TypeOK'
<1> SUFFICES ASSUME TypeOK, Start PROVE TypeOK'
  OBVIOUS
<1>1. FilesType'
  BY DEF TypeOK, MainType, FilesType, Statuses, SetStatus, Start, RemoveStaleLoading,
     RemoveStaleHealthy, SetStarting, CreateLoading, LoadConfig, WritePid, ProbeStateDir,
     StartCollector, CreateHealthy, RemoveLoading, SetRunning, SetDegraded, Notify,
     StartListener, WriteOrExit, ExitFailed, Gone, At, FilesOnly, Unlink
<1>2. CASE Gone("failed")
  BY <1>1, <1>2, GoneType DEF TypeOK
<1>3. CASE ~Gone("failed")
  <2>1. MainType'
    BY <1>3, StartFrame DEF TypeOK, MainType
  <2>2. SignalType'
    BY <1>3, StartFrame DEF TypeOK, SignalType
  <2>3. ServingType'
    BY <1>3, StartFrame DEF TypeOK, ServingType
  <2>4. CollectingType'
    BY <1>3, StartFrame DEF TypeOK, CollectingType
  <2> QED BY <1>1, <2>1, <2>2, <2>3, <2>4 DEF TypeOK
<1> QED BY <1>2, <1>3

LEMMA StopType == TypeOK /\ Stop => TypeOK'
<1> SUFFICES ASSUME TypeOK, Stop PROVE TypeOK'
  OBVIOUS
<1>1. FilesType'
  <2> USE DEF TypeOK, FilesType
  <2>1. CASE AnnounceShutdown
    BY <2>1 DEF AnnounceShutdown, SetStatus, Statuses
  <2>2a. CASE RemoveHealthy
    BY <2>2a DEF RemoveHealthy, Unlink
  <2>2b. CASE RemovePid
    BY <2>2b DEF RemovePid, Unlink
  <2>3. CASE ~(AnnounceShutdown \/ RemoveHealthy \/ RemovePid)
    BY <2>3 DEF Stop, StopWaiting, CancelCollector, ResetSignals, CloseListener, EndDrain,
       Return, Gone, FilesOnly
  <2> QED BY <2>1, <2>2a, <2>2b, <2>3
<1>2. CASE Gone("clean")
  BY <1>1, <1>2, GoneType DEF TypeOK
<1>3. CASE ~Gone("clean")
  <2> SignalType
    BY DEF TypeOK
  <2>1. MainType'
    BY <1>3, StopFrame DEF TypeOK, MainType
  <2>2. SignalType'
    BY <1>3, StopFrame DEF TypeOK, SignalType
  <2>3. ServingType'
    BY <1>3, StopFrame DEF TypeOK, ServingType
  <2>4. CollectingType'
    BY <1>3, StopFrame DEF TypeOK, CollectingType
  <2> QED BY <1>1, <2>1, <2>2, <2>3, <2>4 DEF TypeOK
<1> QED BY <1>2, <1>3

LEMMA HandlerType ==
  ASSUME TypeOK, NEW r \in Requests, Handler(r)
  PROVE  TypeOK'
<1>1. UNCHANGED <<main, signal, collecting>>
  BY DEF Handler, Arrive, Serve, Drop, CountDrop, Handle, Touch, TouchFails, ReportFailure,
     Reply, HandlerOnly
<1>2. FilesType'
  BY DEF TypeOK, FilesType, Statuses, SetStatus, Handler, Arrive, Serve, Drop, CountDrop,
     Handle, Touch, TouchFails, ReportFailure, Reply
<1>3. ServingType'
  BY DEF TypeOK, ServingType, Proceed, Routes, InFlight, Answers, Handler, Arrive, Serve,
     Drop, CountDrop, Handle, Touch, TouchFails, ReportFailure, Reply, HandlerOnly
<1>4. MainType' /\ SignalType' /\ CollectingType'
  BY <1>1 DEF TypeOK, MainType, SignalType, CollectingType, main, signal,
     collecting
<1> QED BY <1>2, <1>3, <1>4 DEF TypeOK

LEMMA CollectorType == TypeOK /\ Collector => TypeOK'
<1> SUFFICES ASSUME TypeOK, Collector PROVE TypeOK'
  OBVIOUS
<1>1. UNCHANGED <<main, files, lost, signal, serving, cancelled>>
  BY DEF Collector, LoadRequests, LoadErrors, WriteSnapshot, Tick, StopCollector, CollectorOnly
<1>2. tel' \in [phase : {"off", "due", "half", "loaded", "select"}, requests : Nat, errors : Nat]
  <2> USE DEF TypeOK, CollectingType
  <2>1. CASE LoadRequests \/ LoadErrors
    BY <2>1 DEF ServingType, LoadRequests, LoadErrors
  <2>2. CASE WriteSnapshot
    BY <2>2 DEF WriteSnapshot, NoCollector
  <2>3. CASE Tick \/ StopCollector
    BY <2>3 DEF Tick, StopCollector, Collect
  <2> QED BY <2>1, <2>2, <2>3 DEF Collector
<1>3. telemetry' \in [pid : Nat, requests : Nat, errors : Nat]
  BY DEF TypeOK, MainType, CollectingType, Collector, LoadRequests, LoadErrors,
     WriteSnapshot, Tick, StopCollector
<1>4. MainType' /\ FilesType' /\ SignalType' /\ ServingType'
  BY <1>1 DEF TypeOK, MainType, FilesType, SignalType, ServingType, main, signal,
     serving
<1> QED BY <1>1, <1>2, <1>3, <1>4 DEF TypeOK, CollectingType

LEMMA WorldStepType == TypeOK /\ (World \/ Bind) => TypeOK'
<1> SUFFICES ASSUME TypeOK, World \/ Bind PROVE TypeOK'
  OBVIOUS
<1>1. CASE Launch
  <2>1. MainType'
    BY <1>1, ModeSetsAssumption DEF Launch, TypeOK, MainType, Startup
  <2>2. FilesType'
    <3>1. NoFiles \in [loading : BOOLEAN, healthy : BOOLEAN,
                       status : Statuses \cup {"none"}, pid : Nat]
      BY DEF NoFiles
    <3>2. files' \in {files, NoFiles} /\ lost' = {}
      BY <1>1 DEF Launch
    <3> QED BY <3>1, <3>2 DEF TypeOK, FilesType
  <2>3. telemetry' \in [pid : Nat, requests : Nat, errors : Nat]
    BY <1>1 DEF Launch, TypeOK, CollectingType
  <2>4. UNCHANGED <<signal, serving, tel, cancelled>>
    BY <1>1 DEF Launch
  <2>5. SignalType' /\ ServingType'
    BY <2>4 DEF TypeOK, SignalType, ServingType, signal, serving
  <2> QED BY <2>1, <2>2, <2>3, <2>4, <2>5 DEF TypeOK, CollectingType
<1>2. CASE Crash
  <2>1. FilesType'
    BY <1>2 DEF Crash, Gone, TypeOK, FilesType
  <2> QED BY <1>2, <2>1, GoneType DEF Crash, TypeOK
<1>3. CASE Catch \/ Bind
  <2>1. UNCHANGED <<main, files, lost, count, req, collecting>>
    BY <1>3 DEF Catch, Bind, serving
  <2>2. MainType' /\ FilesType' /\ CollectingType'
    BY <2>1 DEF TypeOK, MainType, FilesType, CollectingType, main, collecting
  <2>3. SignalType'
    BY <1>3 DEF Catch, Bind, TypeOK, SignalType, signal
  <2>4. listener' \in {"listening", "failed", listener}
    BY <1>3 DEF Catch, Bind, serving
  <2>5. ServingType'
    BY <2>1, <2>4 DEF TypeOK, ServingType
  <2> QED BY <2>2, <2>3, <2>5 DEF TypeOK
<1> QED BY <1>1, <1>2, <1>3 DEF World

\* Types are preserved: the record of the signal files, the counters and the
\* progress of every goroutine (TypeOK, all of service/).
THEOREM ServiceTypeInvariant == Spec => []TypeOK
<1>1. TypeOK /\ [Next]_vars => TypeOK'
  <2> SUFFICES ASSUME TypeOK, [Next]_vars PROVE TypeOK'
    OBVIOUS
  <2>1. CASE UNCHANGED vars
    BY <2>1 DEF TypeOK, MainType, FilesType, SignalType, ServingType, CollectingType,
       vars, main, signal, serving, collecting
  <2> QED BY <2>1, StartType, StopType, HandlerType, CollectorType, WorldStepType DEF Next, Handler
<1> QED BY <1>1, InitType, PTL DEF Spec

-----------------------------------------------------------------------------
LEMMA StartFiles == TypeOK /\ FilesInv /\ Start => FilesInv'
<1> SUFFICES ASSUME TypeOK, FilesInv, Start PROVE FilesInv'
  OBVIOUS
<1> USE DEF TypeOK, MainType, FilesType, FilesInv, GracefulExitIsClean, Identified, Marked, Loading, Ending, Shutdown, At
<1>1. CASE RemoveStaleLoading \/ RemoveStaleHealthy \/ RemoveLoading
  BY <1>1 DEF RemoveStaleLoading, RemoveStaleHealthy, RemoveLoading, Unlink
<1>2. CASE SetStarting
  BY <1>2 DEF SetStarting, WriteOrExit, ExitFailed, Gone, FilesOnly
<1>3. CASE CreateLoading
  BY <1>3 DEF CreateLoading, WriteOrExit, ExitFailed, Gone, FilesOnly
<1>4. CASE LoadConfig
  BY <1>4 DEF LoadConfig, ExitFailed, Gone, FilesOnly
<1>5. CASE WritePid
  BY <1>5 DEF WritePid, WriteOrExit, ExitFailed, Gone, FilesOnly
<1>6. CASE CreateHealthy
  BY <1>6 DEF CreateHealthy, WriteOrExit, ExitFailed, Gone, FilesOnly
<1>7. CASE ProbeStateDir
  BY <1>7 DEF ProbeStateDir, SetStatus
<1>8. CASE SetRunning
  BY <1>8 DEF SetRunning, SetStatus
<1>9. CASE SetDegraded
  BY <1>9 DEF SetDegraded, SetStatus
<1>10. CASE StartCollector \/ Notify \/ StartListener
  BY <1>10 DEF StartCollector, Notify, StartListener
<1> QED BY <1>1, <1>2, <1>3, <1>4, <1>5, <1>6, <1>7, <1>8, <1>9, <1>10 DEF Start

LEMMA StopFiles == TypeOK /\ FilesInv /\ (Stop \/ Bind) => FilesInv'
<1> SUFFICES ASSUME TypeOK, FilesInv, Stop \/ Bind PROVE FilesInv'
  OBVIOUS
<1> USE DEF TypeOK, MainType, FilesType, FilesInv, GracefulExitIsClean, Identified, Marked, Loading, Ending, Shutdown, At
<1>1. CASE StopWaiting \/ CancelCollector \/ ResetSignals \/ CloseListener
  BY <1>1 DEF StopWaiting, CancelCollector, ResetSignals, CloseListener
<1>2. CASE AnnounceShutdown
  BY <1>2 DEF AnnounceShutdown, SetStatus
<1>3. CASE RemoveHealthy \/ EndDrain
  BY <1>3 DEF RemoveHealthy, Unlink, EndDrain, FilesOnly
<1>4. CASE RemovePid
  BY <1>4 DEF RemovePid, Unlink
<1>5. CASE Return
  BY <1>5 DEF Return, Gone
<1>6. CASE Bind
  BY <1>6 DEF Bind, main
<1> QED BY <1>1, <1>2, <1>3, <1>4, <1>5, <1>6 DEF Stop

\* A handler leaves the files alone or writes Unhealthy into status.
LEMMA HandlerFiles ==
  ASSUME TypeOK, FilesInv, NEW r \in Requests, Handler(r)
  PROVE  FilesInv'
<1>1. UNCHANGED main
  BY DEF Handler, Arrive, Serve, Drop, CountDrop, Handle, Touch, TouchFails, ReportFailure,
     Reply, HandlerOnly
<1>2. \/ UNCHANGED <<files, lost>>
      \/ SetStatus("Unhealthy")
  BY DEF Handler, Arrive, Serve, Drop, CountDrop, Handle, Touch, TouchFails, ReportFailure, Reply
<1> QED
  BY <1>1, <1>2 DEF TypeOK, FilesType, FilesInv, GracefulExitIsClean, Identified, Marked, Loading, Ending,
     Shutdown, SetStatus, main

LEMMA WorldFiles == TypeOK /\ FilesInv /\ (Collector \/ World) => FilesInv'
<1> SUFFICES ASSUME TypeOK, FilesInv, Collector \/ World PROVE FilesInv'
  OBVIOUS
<1> USE DEF TypeOK, MainType, FilesType, FilesInv, GracefulExitIsClean, Identified, Marked, Loading, Ending, Shutdown
<1>1. CASE Collector
  BY <1>1 DEF Collector, LoadRequests, LoadErrors, WriteSnapshot, Tick, StopCollector,
     CollectorOnly, main
<1>2. CASE Launch
  BY <1>2 DEF Launch
<1>3. CASE Crash
  BY <1>3 DEF Crash, Gone
<1>4. CASE Catch
  BY <1>4 DEF Catch, main
<1> QED BY <1>1, <1>2, <1>3, <1>4 DEF World

LEMMA FilesInvariant == Spec => []FilesInv
<1>1. Init => FilesInv
  BY DEF Init, FilesInv, GracefulExitIsClean, Identified, Marked, Loading, Ending, Shutdown
<1>2. TypeOK /\ FilesInv /\ [Next]_vars => FilesInv'
  <2> SUFFICES ASSUME TypeOK, FilesInv, [Next]_vars PROVE FilesInv'
    OBVIOUS
  <2>1. CASE UNCHANGED vars
    BY <2>1 DEF FilesInv, GracefulExitIsClean, vars, main
  <2> QED BY <2>1, StartFiles, StopFiles, HandlerFiles, WorldFiles DEF Next, Handler
<1> QED BY <1>1, <1>2, ServiceTypeInvariant, PTL DEF Spec

\* A reader that finds the healthy marker of a process that has cleaned up
\* finds its PID in app.pid (signals.Init, WritePID, CreateHealthy, RemovePID).
THEOREM ServiceHealthyIsIdentified == Spec => []HealthyIsIdentified
<1>1. FilesInv => HealthyIsIdentified
  BY DEF FilesInv, HealthyIsIdentified, Identified, Marked
<1> QED BY <1>1, FilesInvariant, PTL

\* No startup or shutdown shows Running or Degraded without the marker, unless
\* a status write failed (signals.BeginShutdown and the order of main).
THEOREM ServiceNoFalseCrashSignal == Spec => []NoFalseCrashSignal
<1>1. TypeOK /\ FilesInv => NoFalseCrashSignal
  BY DEF TypeOK, MainType, Startup, FilesInv, NoFalseCrashSignal, Marked, Ending, Shutdown
<1> QED BY <1>1, ServiceTypeInvariant, FilesInvariant, PTL

\* Whatever requests, signals and the collector do during the shutdown, a
\* process that returns from main leaves clean files (the end of main).
THEOREM ServiceGracefulExitIsClean == Spec => []GracefulExitIsClean
<1>1. FilesInv => GracefulExitIsClean
  BY DEF FilesInv
<1> QED BY <1>1, FilesInvariant, PTL

-----------------------------------------------------------------------------
LEMMA CountersGrow ==
  ASSUME TypeOK, NEW r \in Requests, Handler(r)
  PROVE  /\ count'.requests >= count.requests
         /\ count'.errors >= count.errors
         /\ UNCHANGED <<main, tel, telemetry>>
  BY DEF TypeOK, ServingType, Handler, Arrive, Serve, Drop, CountDrop, Handle, Touch, TouchFails,
     ReportFailure, Reply, HandlerOnly, collecting

LEMMA SnapshotStep == TypeOK /\ SnapshotInv /\ [Next]_vars => SnapshotInv'
<1> SUFFICES ASSUME TypeOK, SnapshotInv, [Next]_vars PROVE SnapshotInv'
  OBVIOUS
<1> USE DEF TypeOK, MainType, ServingType, CollectingType, SnapshotInv, Alive
<1>1. CASE \E how \in {"clean", "failed", "killed"} : Gone(how)
  BY <1>1 DEF Gone
<1>2. CASE Start /\ ~Gone("failed")
  BY <1>2, StartFrame DEF Startup
<1>3. CASE Stop /\ ~Gone("clean")
  BY <1>3, StopFrame DEF Shutdown
<1>4. CASE Collector
  <2>1. CASE LoadRequests
    <3>1. UNCHANGED <<pc, pid, count, telemetry>> /\ pc # "down"
      BY <2>1 DEF LoadRequests, NoCollector, CollectorOnly, main, serving
    <3>2. tel'.phase = "half" /\ tel'.requests = count.requests
      BY <2>1 DEF LoadRequests
    <3> QED BY <3>1, <3>2
  <2>2. CASE LoadErrors
    <3>1. UNCHANGED <<pc, pid, count, telemetry>> /\ pc # "down"
      BY <2>2 DEF LoadErrors, NoCollector, CollectorOnly, main, serving
    <3>2. /\ tel.phase = "half" /\ tel'.phase = "loaded"
          /\ tel'.requests = tel.requests /\ tel'.errors = count.errors
      BY <2>2 DEF LoadErrors
    <3> QED BY <3>1, <3>2
  <2>3. CASE WriteSnapshot
    BY <2>3 DEF WriteSnapshot, NoCollector, CollectorOnly, main, serving
  <2>4. CASE Tick \/ StopCollector
    BY <2>4 DEF Tick, StopCollector, Collect, NoCollector, CollectorOnly, main, serving
  <2> QED BY <1>4, <2>1, <2>2, <2>3, <2>4 DEF Collector
<1>5. CASE Launch
  BY <1>5 DEF Launch, NoCollector, serving
<1>6. ASSUME NEW r \in Requests, Handler(r) PROVE SnapshotInv'
  <2>1. UNCHANGED <<pc, pid, tel, telemetry>>
    BY <1>6, CountersGrow DEF main
  <2>2. count' \in [requests : Nat, errors : Nat]
    BY <1>6, HandlerType
  <2>3. count'.requests >= count.requests /\ count'.errors >= count.errors
    BY <1>6, CountersGrow
  <2> QED BY <2>1, <2>2, <2>3
<1>7. CASE Bind \/ Catch \/ UNCHANGED vars
  BY <1>7 DEF Bind, Catch, vars, main, serving, collecting
<1> QED BY <1>1, <1>2, <1>3, <1>4, <1>5, <1>6, <1>7 DEF Next, Handler, World, Crash

\* No reader of telemetry.json sees counters go back within a process, nor a
\* snapshot of an earlier process after one of a later (telemetry.Collector).
THEOREM ServiceSnapshotsAdvance == Spec => SnapshotsAdvance
<1> DEFINE Advances ==
      telemetry' # telemetry /\ pc # "down" =>
        /\ telemetry'.pid = pid
        /\ telemetry.pid = pid => /\ telemetry'.requests >= telemetry.requests
                                  /\ telemetry'.errors >= telemetry.errors
<1>1. Init => SnapshotInv
  BY DEF Init, SnapshotInv, Alive, NoCollector
<1>2. TypeOK /\ SnapshotInv /\ [Next]_vars => [Advances]_vars
  <2> SUFFICES ASSUME TypeOK, SnapshotInv, Next PROVE Advances
    BY DEF vars
  <2>1. CASE WriteSnapshot
    BY <2>1 DEF WriteSnapshot, TypeOK, MainType, CollectingType, SnapshotInv, Alive
  <2>2. CASE Launch
    BY <2>2 DEF Launch
  <2>3. CASE ~WriteSnapshot /\ ~Launch
    <3>1. ASSUME NEW r \in Requests, Handler(r) PROVE UNCHANGED telemetry
      BY <3>1, CountersGrow
    <3>2. ASSUME Start \/ Stop PROVE UNCHANGED telemetry
      BY <3>2, StartFrame, StopFrame DEF TypeOK, Gone
    <3>3. ASSUME Bind \/ Collector \/ World PROVE UNCHANGED telemetry
      BY <2>3, <3>3 DEF Bind, Collector, LoadRequests, LoadErrors, Tick, StopCollector, World,
         Catch, Crash, Gone, collecting
    <3> QED BY <3>1, <3>2, <3>3 DEF Next, Handler
  <2> QED BY <2>1, <2>2, <2>3
<1> QED BY <1>1, <1>2, SnapshotStep, ServiceTypeInvariant, PTL DEF Spec, SnapshotsAdvance

-----------------------------------------------------------------------------
(* What a client is promised, for any number of requests: the counters      *)
(* count, and a failure shows in the status.                                *)

\* The requests that have been counted, and those counted as errors.
Seen == {r \in Requests : req[r] \notin {"idle"} \cup Routes}
Erring == {r \in Requests : req[r] \in {"failed", "reported"} \cup (Answers \ {"200"})}

\* The counters are exact at every moment: a handler counts a request in the
\* step that takes it among those.
CountInv ==
  /\ IsFiniteSet(Seen)
  /\ count.requests = Cardinality(Seen)
  /\ count.errors = Cardinality(Erring)

\* Before the service listens there is no request; once a handler has reported
\* its failure nobody but main's shutdown writes another status.
ReportInv ==
  /\ pc \in Startup \cup {"down"} => listener = "none" /\ req = NoRequests
  /\ pc = "wait" /\ (\E r \in Requests : req[r] \in {"reported", "500"})
       => files.status = "Unhealthy" \/ "write" \in lost

-----------------------------------------------------------------------------
\* Apart from the handlers, nothing touches requests and counters but the end of
\* the process.
LEMMA QuietStep ==
  ASSUME TypeOK, [Next]_vars, \A r \in Requests : ~Handler(r)
  PROVE  \/ UNCHANGED <<req, count>>
         \/ req' = NoRequests /\ count' = [requests |-> 0, errors |-> 0]
<1>1. CASE Start
  BY <1>1, StartFrame DEF Gone
<1>2. CASE Stop
  BY <1>2, StopFrame DEF TypeOK, Gone
<1>3. CASE Collector
  BY <1>3 DEF Collector, LoadRequests, LoadErrors, WriteSnapshot, Tick, StopCollector,
     CollectorOnly, serving
<1>4. CASE World \/ Bind \/ UNCHANGED vars
  BY <1>4 DEF World, Launch, Catch, Crash, Gone, Bind, vars, serving
<1> QED BY <1>1, <1>2, <1>3, <1>4 DEF Next, Handler

\* One more element, and the number that counts them goes up with it.
LEMMA OneMoreElement ==
  ASSUME NEW S, IsFiniteSet(S), NEW e, e \notin S
  PROVE  IsFiniteSet(S \cup {e}) /\ Cardinality(S \cup {e}) = Cardinality(S) + 1
  BY FS_AddElement

\* Where a handler may take its request, with what it counts.
LEMMA HandlerMoves ==
  ASSUME TypeOK, NEW r \in Requests, Handler(r)
  PROVE  \E to : /\ req' = [req EXCEPT ![r] = to]
                 /\ \/ /\ UNCHANGED count
                       /\ \/ req[r] = "idle" /\ to \in Routes
                          \/ req[r] \in {"touching", "counted"} /\ to \in {"counted", "200"}
                          \/ req[r] \in {"failed", "reported"} /\ to \in {"reported", "500"}
                    \/ /\ req[r] \in Routes /\ to \in {"dropping", "touching", "counted"}
                       /\ count' = [count EXCEPT !.requests = @ + 1]
                    \/ /\ req[r] \in {"dropping", "touching"} /\ to \in {"failed", "503"}
                       /\ count' = [count EXCEPT !.errors = @ + 1]
<1>1. CASE Arrive(r)
  BY <1>1 DEF Arrive, Proceed
<1>2. CASE Drop(r) \/ Handle(r)
  BY <1>2 DEF Drop, Handle, Proceed, Routes
<1>3. CASE CountDrop(r) \/ TouchFails(r)
  BY <1>3 DEF CountDrop, TouchFails, Proceed
<1>4. CASE Touch(r) \/ ReportFailure(r) \/ Reply(r)
  BY <1>4 DEF Touch, ReportFailure, Reply, Proceed
<1> QED BY <1>1, <1>2, <1>3, <1>4 DEF Handler, Serve

LEMMA CountStep == TypeOK /\ CountInv /\ [Next]_vars => CountInv'
<1> SUFFICES ASSUME TypeOK, CountInv, [Next]_vars PROVE CountInv'
  OBVIOUS
<1>1. CASE \A r \in Requests : ~Handler(r)
  <2>1. CASE UNCHANGED <<req, count>>
    BY <2>1 DEF CountInv, Seen, Erring
  <2>2. CASE req' = NoRequests /\ count' = [requests |-> 0, errors |-> 0]
    <3>1. Seen' = {} /\ Erring' = {}
      BY <2>2 DEF Seen, Erring, NoRequests, Answers
    <3> QED BY <2>2, <3>1, FS_EmptySet DEF CountInv
  <2> QED BY <1>1, <2>1, <2>2, QuietStep
<1>2. ASSUME NEW r \in Requests, Handler(r) PROVE CountInv'
  <2>1. PICK to : /\ req' = [req EXCEPT ![r] = to]
                  /\ \/ /\ UNCHANGED count
                        /\ \/ req[r] = "idle" /\ to \in Routes
                           \/ req[r] \in {"touching", "counted"} /\ to \in {"counted", "200"}
                           \/ req[r] \in {"failed", "reported"} /\ to \in {"reported", "500"}
                     \/ /\ req[r] \in Routes /\ to \in {"dropping", "touching", "counted"}
                        /\ count' = [count EXCEPT !.requests = @ + 1]
                     \/ /\ req[r] \in {"dropping", "touching"} /\ to \in {"failed", "503"}
                        /\ count' = [count EXCEPT !.errors = @ + 1]
    BY <1>2, HandlerMoves
  <2>2. req \in [Requests -> {"idle"} \cup InFlight \cup Answers] /\ count \in [requests : Nat, errors : Nat]
    BY DEF TypeOK, ServingType
  <2>3. IsFiniteSet(Erring)
    BY FS_Subset DEF CountInv, Seen, Erring, Routes, Answers
  <2>4. CASE UNCHANGED count
    <3>1. Seen' = Seen /\ Erring' = Erring
      BY <2>1, <2>2, <2>4 DEF Seen, Erring, Routes, Answers
    <3> QED BY <2>4, <3>1 DEF CountInv
  <2>5. CASE count' = [count EXCEPT !.requests = @ + 1] /\ req[r] \in Routes
    <3>1. to \in {"dropping", "touching", "counted"}
      BY <2>1, <2>2, <2>5 DEF Routes
    <3>2. Seen' = Seen \cup {r} /\ r \notin Seen /\ Erring' = Erring
      BY <2>1, <2>2, <2>5, <3>1 DEF Seen, Erring, Routes, Answers
    <3> QED BY <2>2, <2>5, <3>2, OneMoreElement DEF CountInv
  <2>6. CASE count' = [count EXCEPT !.errors = @ + 1] /\ req[r] \in {"dropping", "touching"}
    <3>1. to \in {"failed", "503"}
      BY <2>1, <2>2, <2>6 DEF Routes
    <3>2. Seen' = Seen /\ Erring' = Erring \cup {r} /\ r \notin Erring
      BY <2>1, <2>2, <2>6, <3>1 DEF Seen, Erring, Routes, Answers
    <3> QED BY <2>2, <2>3, <2>6, <3>2, OneMoreElement DEF CountInv
  <2> QED BY <2>1, <2>4, <2>5, <2>6
<1> QED BY <1>1, <1>2

\* Every answer 500 or 503 has been counted as an error, and every error as a
\* request, whatever handlers run side by side and whenever one looks (the two
\* atomic counters of telemetry.go, server.go and chaos.go).
THEOREM ServiceErrorsAreRequests == Spec => []ErrorsAreRequests
<1>1. Init => CountInv
  <2> SUFFICES ASSUME Init PROVE CountInv
    OBVIOUS
  <2>1. Seen = {} /\ Erring = {}
    BY DEF Init, Seen, Erring, NoRequests, Answers
  <2> QED BY <2>1, FS_EmptySet DEF Init, CountInv
<1>2. TypeOK /\ CountInv => ErrorsAreRequests
  <2> SUFFICES ASSUME TypeOK, CountInv PROVE ErrorsAreRequests
    OBVIOUS
  <2> DEFINE Failed == {r \in Requests : req[r] \in {"500", "503"}}
  <2>1. Failed \subseteq Erring /\ Erring \subseteq Seen
    BY DEF Seen, Erring, Routes, Answers
  <2>2. /\ IsFiniteSet(Erring) /\ Cardinality(Erring) <= Cardinality(Seen)
    BY <2>1, FS_Subset DEF CountInv
  <2>3. Cardinality(Failed) <= Cardinality(Erring)
    BY <2>1, <2>2, FS_Subset
  <2> QED BY <2>2, <2>3 DEF CountInv, ErrorsAreRequests
<1> QED BY <1>1, <1>2, CountStep, ServiceTypeInvariant, PTL DEF Spec

-----------------------------------------------------------------------------
LEMMA ReportStep == TypeOK /\ ReportInv /\ [Next]_vars => ReportInv'
<1> SUFFICES ASSUME TypeOK, ReportInv, [Next]_vars PROVE ReportInv'
  OBVIOUS
<1> USE DEF ReportInv
<1>1. CASE \E how \in {"clean", "failed", "killed"} : Gone(how)
  BY <1>1 DEF Gone, Startup
<1>2. CASE Start /\ ~Gone("failed")
  <2>1. pc \in Startup
    BY <1>2 DEF Start, RemoveStaleLoading, RemoveStaleHealthy, SetStarting, CreateLoading,
       LoadConfig, WritePid, ProbeStateDir, StartCollector, CreateHealthy, RemoveLoading,
       SetRunning, SetDegraded, Notify, StartListener, WriteOrExit, ExitFailed, At, Startup
  <2>2. req' = NoRequests
    BY <1>2, <2>1, StartFrame
  <2>3. pc' \in Startup => listener' = "none"
    BY <1>2, <2>1 DEF Start, RemoveStaleLoading, RemoveStaleHealthy, SetStarting, CreateLoading,
       LoadConfig, WritePid, ProbeStateDir, StartCollector, CreateHealthy, RemoveLoading,
       SetRunning, SetDegraded, Notify, StartListener, WriteOrExit, ExitFailed, At, Startup,
       FilesOnly, Unlink, serving
  <2>4. pc' \in Startup \cup {"wait"}
    BY <1>2, StartFrame
  <2> QED BY <2>2, <2>3, <2>4 DEF NoRequests, Startup
<1>3. CASE Stop /\ ~Gone("clean")
  BY <1>3, StopFrame DEF TypeOK, Startup, Shutdown
<1>4. ASSUME NEW r \in Requests, Handler(r) PROVE ReportInv'
  <2>1. UNCHANGED <<pc, listener>>
    BY <1>4 DEF Handler, Arrive, Serve, Drop, CountDrop, Handle, Touch, TouchFails, ReportFailure,
       Reply, HandlerOnly, main
  <2>2. pc \notin Startup \cup {"down"}
    BY <1>4 DEF Handler, Arrive, Serve, Drop, CountDrop, Handle, Touch, TouchFails, ReportFailure,
       Reply, Proceed, NoRequests, Routes
  <2>3. CASE ReportFailure(r)
    BY <2>1, <2>2, <2>3 DEF ReportFailure, SetStatus, TypeOK, FilesType
  <2>4. CASE ~ReportFailure(r)
    <3>1. UNCHANGED <<files, lost>>
      BY <1>4, <2>4 DEF Handler, Arrive, Serve, Drop, CountDrop, Handle, Touch, TouchFails, Reply
    <3>2. \A q \in Requests : req'[q] \in {"reported", "500"} => req[q] \in {"reported", "500"}
      BY <1>4, <2>4 DEF TypeOK, ServingType, Handler, Arrive, Serve, Drop, CountDrop, Handle, Touch,
         TouchFails, Reply, Proceed, Routes
    <3> QED BY <2>1, <2>2, <3>1, <3>2
  <2> QED BY <2>3, <2>4
<1>5. CASE Collector
  BY <1>5 DEF Collector, LoadRequests, LoadErrors, WriteSnapshot, Tick, StopCollector,
     CollectorOnly, main, serving
<1>6. CASE Launch
  BY <1>6 DEF Launch, NoRequests, serving
<1>7. CASE Bind
  BY <1>7 DEF Bind, main
<1>8. CASE Catch \/ UNCHANGED vars
  BY <1>8 DEF Catch, vars, main, serving
<1> QED BY <1>1, <1>2, <1>3, <1>4, <1>5, <1>6, <1>7, <1>8 DEF Next, Handler, World, Crash

\* A client that has its 500 finds Unhealthy in the status file as long as the
\* process serves (server.go handleRoot writes it before the answer), unless the
\* write failed.
THEOREM ServiceFailureIsReported == Spec => []FailureIsReported
<1>1. Init => ReportInv
  BY DEF Init, ReportInv
<1>2. ReportInv => FailureIsReported
  BY DEF ReportInv, FailureIsReported
<1> QED BY <1>1, <1>2, ReportStep, ServiceTypeInvariant, PTL DEF Spec

-----------------------------------------------------------------------------
(* The signal files as their readers see them: LabService implements          *)
(* LabSignals.  Each step that touches the files, or ends the process, is one *)
(* step of the promise; everything else the process does is a stutter.       *)

\* The phases, without the case distinction.
LEMMA Phases ==
  ASSUME NEW point
  PROVE  /\ PhaseAt(point) = "down" <=> point = "down"
         /\ point \in {"removeLoading", "removeHealthy", "starting"} => PhaseAt(point) = "stale"
         /\ point \in {"createLoading", "config", "writePid", "probe", "collector", "createHealthy"}
              => PhaseAt(point) = "starting"
         /\ point \in {"unload", "running", "degrade", "notify", "listen"}
              => PhaseAt(point) = "ready"
         /\ point \in {"wait", "announce"} => PhaseAt(point) = "serving"
         /\ point = "unhealthy" => PhaseAt(point) = "stopping"
         /\ point \in {"cancel", "reset", "close", "drain", "unlinkPid", "return"}
              => PhaseAt(point) = "leaving"
  BY DEF PhaseAt

\* A step that stays in its phase and leaves the files alone.
LEMMA SignalStutter ==
  ASSUME PhaseAt(pc') = PhaseAt(pc), UNCHANGED <<pid, exit, files, lost>>
  PROVE  UNCHANGED Signals!signalVars
  BY DEF Signals!signalVars

\* A process that is gone has ended in the way its exit says.
LEMMA SignalEnd ==
  ASSUME TypeOK, pc # "down", UNCHANGED files, NEW how, Gone(how),
         \/ /\ how = "failed" /\ PhaseAt(pc) \in {"stale", "starting"}
            /\ ~files.healthy \/ "remove" \in lost
         \/ /\ how = "clean" /\ PhaseAt(pc) = "leaving"
            /\ (~files.healthy /\ files.pid = 0) \/ "remove" \in lost
         \/ how = "killed"
  PROVE  Signals!SignalsNext
<1>1. PhaseAt(pc) # "down" /\ PhaseAt(pc') = "down"
  BY Phases DEF Gone
<1>2. Signals!End
  BY <1>1 DEF Gone, Signals!End
<1> QED BY <1>2 DEF Signals!SignalsNext

\* SetStatus writes the status or is remembered as lost.
LEMMA SetStatusShows ==
  ASSUME NEW status, SetStatus(status)
  PROVE  Signals!Show(status)
  BY DEF SetStatus, Signals!Show

LEMMA StartSignals ==
  ASSUME TypeOK, FilesInv, Start
  PROVE  [Signals!SignalsNext]_(Signals!signalVars)
<1> USE DEF At
<1>1. CASE RemoveStaleLoading \/ RemoveStaleHealthy
  <2>1. Signals!RemoveStale
    BY <1>1, Phases DEF RemoveStaleLoading, RemoveStaleHealthy, Unlink, Signals!Discard, Signals!RemoveStale,
       Signals!Move
  <2> QED BY <2>1 DEF Signals!SignalsNext
<1>2. CASE SetStarting
  <2>1. pc = "starting" /\ ((~files.healthy /\ ~files.loading) \/ "remove" \in lost)
    BY <1>2 DEF SetStarting, WriteOrExit, ExitFailed, FilesInv, Marked, Loading
  <2>2. CASE ExitFailed("starting")
    BY <2>1, <2>2, Phases, SignalEnd DEF ExitFailed
  <2>3. CASE ~ExitFailed("starting")
    <3>1. Signals!Claim
      BY <1>2, <2>1, <2>3, Phases DEF SetStarting, WriteOrExit, FilesOnly, Signals!Claim, Signals!Move
    <3> QED BY <3>1 DEF Signals!SignalsNext
  <2> QED BY <2>2, <2>3
<1>3. CASE CreateLoading
  <2>1. pc = "createLoading" /\ (~files.healthy \/ "remove" \in lost)
    BY <1>3 DEF CreateLoading, WriteOrExit, ExitFailed, FilesInv, Marked
  <2>2. CASE ExitFailed("createLoading")
    BY <2>1, <2>2, Phases, SignalEnd DEF ExitFailed
  <2>3. CASE ~ExitFailed("createLoading")
    <3>1. Signals!Prepare
      BY <1>3, <2>1, <2>3, Phases DEF CreateLoading, WriteOrExit, FilesOnly, Signals!Prepare, Signals!Move
    <3> QED BY <3>1 DEF Signals!SignalsNext
  <2> QED BY <2>2, <2>3
<1>4. CASE LoadConfig
  <2>1. pc = "config" /\ (~files.healthy \/ "remove" \in lost)
    BY <1>4 DEF LoadConfig, ExitFailed, FilesInv, Marked
  <2>2. CASE ExitFailed("config")
    BY <1>4, <2>1, <2>2, Phases, SignalEnd DEF ExitFailed
  <2>3. CASE ~ExitFailed("config")
    BY <1>4, <2>3, Phases, SignalStutter DEF LoadConfig, FilesOnly
  <2> QED BY <2>2, <2>3
<1>5. CASE WritePid
  <2>1. pc = "writePid" /\ (~files.healthy \/ "remove" \in lost)
    BY <1>5 DEF WritePid, WriteOrExit, ExitFailed, FilesInv, Marked
  <2>2. CASE ExitFailed("writePid")
    BY <2>1, <2>2, Phases, SignalEnd DEF ExitFailed
  <2>3. CASE ~ExitFailed("writePid")
    <3>1. Signals!Prepare
      BY <1>5, <2>1, <2>3, Phases DEF WritePid, WriteOrExit, FilesOnly, Signals!Prepare, Signals!Move
    <3> QED BY <3>1 DEF Signals!SignalsNext
  <2> QED BY <2>2, <2>3
<1>6. CASE ProbeStateDir
  <2>1. CASE UNCHANGED <<files, lost>>
    BY <1>6, <2>1, Phases, SignalStutter DEF ProbeStateDir
  <2>2. CASE SetStatus("Unhealthy")
    <3>1. Signals!Complain
      BY <1>6, <2>2, Phases, SetStatusShows DEF ProbeStateDir, Signals!Complain, Signals!Move
    <3> QED BY <3>1 DEF Signals!SignalsNext
  <2> QED BY <1>6, <2>1, <2>2 DEF ProbeStateDir
<1>7. CASE StartCollector \/ Notify
  BY <1>7, Phases, SignalStutter DEF StartCollector, Notify
<1>8. CASE CreateHealthy
  <2>1. pc = "createHealthy" /\ files.pid = pid /\ (~files.healthy \/ "remove" \in lost)
    BY <1>8 DEF CreateHealthy, WriteOrExit, ExitFailed, FilesInv, Marked, Loading, Identified
  <2>2. CASE ExitFailed("createHealthy")
    BY <2>1, <2>2, Phases, SignalEnd DEF ExitFailed
  <2>3. CASE ~ExitFailed("createHealthy")
    <3>1. Signals!BecomeReady
      BY <1>8, <2>1, <2>3, Phases DEF CreateHealthy, WriteOrExit, FilesOnly, Signals!BecomeReady,
         Signals!Move
    <3> QED BY <3>1 DEF Signals!SignalsNext
  <2> QED BY <2>2, <2>3
<1>9. CASE RemoveLoading
  <2>1. Signals!EndLoading
    BY <1>9, Phases DEF RemoveLoading, Unlink, Signals!EndLoading, Signals!Discard, Signals!Move
  <2> QED BY <2>1 DEF Signals!SignalsNext
<1>10. CASE SetRunning
  <2>1. ~files.loading \/ "remove" \in lost
    BY <1>10 DEF SetRunning, FilesInv, Loading
  <2>2. Signals!SayServing
    BY <1>10, <2>1, Phases, SetStatusShows DEF SetRunning, Signals!SayServing, Signals!Move
  <2> QED BY <2>2 DEF Signals!SignalsNext, Signals!Serve, Signals!OverrideUnhealthy
<1>11. CASE SetDegraded
  <2>1. CASE modes = {}
    BY <1>11, <2>1, Phases, SignalStutter DEF SetDegraded
  <2>2. CASE modes # {}
    <3>1. ~files.loading \/ "remove" \in lost
      BY <1>11 DEF SetDegraded, FilesInv, Loading
    <3>2. Signals!SayServing
      BY <1>11, <2>2, <3>1, Phases, SetStatusShows DEF SetDegraded, Signals!SayServing, Signals!Move
    <3> QED BY <3>2 DEF Signals!SignalsNext, Signals!Serve, Signals!OverrideUnhealthy
  <2> QED BY <2>1, <2>2
<1>12. CASE StartListener
  <2>1. Signals!Open
    BY <1>12, Phases DEF StartListener, Signals!Open, Signals!Move
  <2> QED BY <2>1 DEF Signals!SignalsNext
<1> QED
  BY <1>1, <1>2, <1>3, <1>4, <1>5, <1>6, <1>7, <1>8, <1>9, <1>10, <1>11, <1>12 DEF Start

LEMMA StopSignals ==
  ASSUME TypeOK, FilesInv, Stop
  PROVE  [Signals!SignalsNext]_(Signals!signalVars)
<1> USE DEF At
<1>1. CASE StopWaiting \/ CancelCollector \/ ResetSignals \/ CloseListener
  <2>1. UNCHANGED <<pid, exit, files, lost>>
    BY <1>1 DEF StopWaiting, CancelCollector, ResetSignals, CloseListener
  <2>2. \/ pc = "wait" /\ pc' = "announce"
        \/ pc \in {"cancel", "reset", "close"} /\ pc' \in {"reset", "close", "drain"}
    BY <1>1 DEF StopWaiting, CancelCollector, ResetSignals, CloseListener
  <2>3. PhaseAt(pc') = PhaseAt(pc)
    BY <2>2, Phases
  <2> QED BY <2>1, <2>3, SignalStutter
<1>2. CASE AnnounceShutdown
  <2>1. Signals!Announce
    BY <1>2, Phases, SetStatusShows DEF AnnounceShutdown, Signals!Announce, Signals!Move
  <2> QED BY <2>1 DEF Signals!SignalsNext
<1>3. CASE RemoveHealthy
  <2>1. Signals!Withdraw
    BY <1>3, Phases DEF RemoveHealthy, Unlink, Signals!Withdraw, Signals!Discard, Signals!Move
  <2> QED BY <2>1 DEF Signals!SignalsNext
<1>4. CASE EndDrain
  BY <1>4, Phases, SignalStutter DEF EndDrain, FilesOnly
<1>5. CASE RemovePid
  <2>1. Signals!DropPid
    BY <1>5, Phases DEF RemovePid, Unlink, Signals!DropPid, Signals!Discard, Signals!Move
  <2> QED BY <2>1 DEF Signals!SignalsNext
<1>6. CASE Return
  BY <1>6, Phases, SignalEnd DEF Return, FilesInv, Marked
<1> QED BY <1>1, <1>2, <1>3, <1>4, <1>5, <1>6 DEF Stop

\* A handler runs while the process is up, and says nothing but Unhealthy.
LEMMA HandlerSignals ==
  ASSUME TypeOK, ReportInv, NEW r \in Requests, Handler(r)
  PROVE  [Signals!SignalsNext]_(Signals!signalVars)
<1>1. UNCHANGED <<pc, pid, exit>>
  BY DEF Handler, Arrive, Serve, Drop, CountDrop, Handle, Touch, TouchFails, ReportFailure,
     Reply, HandlerOnly, main
<1>2. CASE ReportFailure(r)
  <2>1. pc \notin Startup \cup {"down"}
    BY <1>2 DEF ReportInv, ReportFailure, Proceed, NoRequests
  <2>2. PhaseAt(pc) \notin {"down", "stale"}
    BY <2>1, Phases DEF TypeOK, MainType, Startup, Shutdown
  <2>3. Signals!Complain
    BY <1>1, <1>2, <2>2, SetStatusShows DEF ReportFailure, Signals!Complain, Signals!Move
  <2> QED BY <2>3 DEF Signals!SignalsNext
<1>3. CASE ~ReportFailure(r)
  <2>1. UNCHANGED <<files, lost>>
    BY <1>3 DEF Handler, Arrive, Serve, Drop, CountDrop, Handle, Touch, TouchFails, Reply
  <2> QED BY <1>1, <2>1, SignalStutter
<1> QED BY <1>2, <1>3

LEMMA WorldSignals ==
  ASSUME TypeOK, World \/ Bind \/ Collector \/ UNCHANGED vars
  PROVE  [Signals!SignalsNext]_(Signals!signalVars)
<1>1. CASE Launch
  <2>1. Signals!Begin
    BY <1>1, Phases DEF Launch, NoFiles, Signals!Begin, Signals!NoSignals
  <2> QED BY <2>1 DEF Signals!SignalsNext
<1>2. CASE Crash
  BY <1>2, SignalEnd DEF Crash, Alive
<1>3. CASE Catch \/ Bind \/ Collector \/ UNCHANGED vars
  <2>1. UNCHANGED <<pc, pid, exit, files, lost>>
    BY <1>3 DEF Catch, Bind, Collector, LoadRequests, LoadErrors,
       WriteSnapshot, Tick, StopCollector, CollectorOnly, vars, main
  <2> QED BY <2>1, SignalStutter
<1> QED BY <1>1, <1>2, <1>3 DEF World

\* What any process, of any number, does to the files in /run/app, and what it
\* fails to do, is a step that LabSignals allows: the promises of signals.go with
\* the exceptions named there (main.go, server.go).
THEOREM ServiceRefinesSignals == Spec => ImplementsSignals
<1>1. Init => Signals!SignalsInit
  BY Phases DEF Init, NoFiles, Signals!SignalsInit, Signals!NoSignals
<1>2. TypeOK /\ FilesInv /\ ReportInv /\ [Next]_vars => [Signals!SignalsNext]_(Signals!signalVars)
  BY StartSignals, StopSignals, HandlerSignals, WorldSignals DEF Next, Handler
<1>3. Spec => []ReportInv
  <2>1. Init => ReportInv
    BY DEF Init, ReportInv
  <2> QED BY <2>1, ReportStep, ServiceTypeInvariant, PTL DEF Spec
<1> QED
  BY <1>1, <1>2, <1>3, ServiceTypeInvariant, FilesInvariant, PTL DEF Spec, ImplementsSignals,
     Signals!SignalsSpec
=============================================================================
