----------------------------- MODULE LabSignals -----------------------------
(***************************************************************************)
(* What the readers of /run/app may rely on (signals.go:1-47, application- *)
(* runtime-contract 3): what each signal file says, in which phase of the  *)
(* life of a process it may change, and what must have been written or     *)
(* removed before.  Within a phase the order is left open, and so is       *)
(* everything else the service does.                                       *)
(*                                                                         *)
(* It is weaker than the comments of signals.go in three places where the  *)
(* code does otherwise: the socket is not bound when healthy appears       *)
(* (signals.go:149), loading and healthy do coexist (BecomeReady), and     *)
(* until requests are served Running or Degraded may replace Unhealthy     *)
(* (OverrideUnhealthy).  After a removal that failed less is promised      *)
(* (lost).                                                                 *)
(***************************************************************************)
EXTENDS Naturals

VARIABLES
  phase,   \* "down", "stale", "starting", "ready", "serving", "stopping" or "leaving"
  owner,   \* the PID of the process, or of the last one
  exit,    \* how the last process ended
  files,   \* the signal files
  lost     \* the process failed to "write" a status, to "remove" a file

signalVars == <<phase, owner, exit, files, lost>>

NoSignals == [loading |-> FALSE, healthy |-> FALSE, status |-> "none", pid |-> 0]

SignalsInit ==
  /\ phase = "down" /\ owner = 0 /\ exit = "none"
  /\ files = NoSignals /\ lost = {}

Move(from, to) == phase = from /\ phase' = to /\ UNCHANGED <<owner, exit>>

Show(status) ==
  \/ files' = [files EXCEPT !.status = status] /\ UNCHANGED lost
  \/ UNCHANGED files /\ lost' = lost \cup {"write"}

Discard(rest) ==
  \/ files' = rest /\ UNCHANGED lost
  \/ UNCHANGED files /\ lost' = lost \cup {"remove"}

\* A later process finds what the last one left, or nothing.
Begin ==
  /\ phase = "down" /\ phase' = "stale"
  /\ owner' = owner + 1 /\ exit' = "none"
  /\ files' \in {files, NoSignals} /\ lost' = {}

RemoveStale ==
  /\ Move("stale", "stale")
  /\ Discard([files EXCEPT !.loading = FALSE]) \/ Discard([files EXCEPT !.healthy = FALSE])

\* Starting appears only when the markers of the last process are gone.
Claim ==
  /\ Move("stale", "starting")
  /\ (~files.loading /\ ~files.healthy) \/ "remove" \in lost
  /\ files' = [files EXCEPT !.status = "Starting"]
  /\ UNCHANGED lost

Prepare ==
  /\ Move("starting", "starting")
  /\ files' \in {[files EXCEPT !.loading = TRUE], [files EXCEPT !.pid = owner]}
  /\ UNCHANGED lost

\* When the marker appears, app.pid already names this process.  Whether loading
\* has gone is left open: signals.go:156 says that the two must not coexist, but
\* signals.go:32-33 and main.go:173-180 create one and then delete the other.
BecomeReady ==
  /\ Move("starting", "ready")
  /\ files.pid = owner
  /\ files' = [files EXCEPT !.healthy = TRUE]
  /\ UNCHANGED lost

EndLoading ==
  /\ Move("ready", "ready")
  /\ Discard([files EXCEPT !.loading = FALSE])

\* Running and Degraded are said by a process that is ready, after loading.
SayServing ==
  /\ Move("ready", "ready")
  /\ ~files.loading \/ "remove" \in lost
  /\ \E status \in {"Running", "Degraded"} : Show(status)

\* Not over Unhealthy, which takes precedence (signals.go:171-174) ...
Serve == files.status # "Unhealthy" /\ SayServing

\* ... except that main.go:181 and 207 do not look at what the probe wrote.
OverrideUnhealthy == files.status = "Unhealthy" /\ SayServing

\* From here on no status but Unhealthy and ShuttingDown is written.
Open == Move("ready", "serving") /\ UNCHANGED <<files, lost>>

\* Unhealthy may be said whenever the process is up.
Complain ==
  /\ phase \notin {"down", "stale"}
  /\ Move(phase, phase)
  /\ Show("Unhealthy")

\* ShuttingDown is said before the marker goes.
Announce == Move("serving", "stopping") /\ Show("ShuttingDown")

Withdraw == Move("stopping", "leaving") /\ Discard([files EXCEPT !.healthy = FALSE])

DropPid == Move("leaving", "leaving") /\ Discard([files EXCEPT !.pid = 0])

\* A process that gives up was never ready, one that ends in order has removed
\* its marker and its PID; one that is killed may leave anything.
End ==
  /\ phase # "down" /\ phase' = "down"
  /\ \/ /\ exit' = "failed" /\ phase \in {"stale", "starting"}
        /\ ~files.healthy \/ "remove" \in lost
     \/ /\ exit' = "clean" /\ phase = "leaving"
        /\ (~files.healthy /\ files.pid = 0) \/ "remove" \in lost
     \/ exit' = "killed"
  /\ UNCHANGED <<owner, files, lost>>

SignalsNext ==
  \/ Begin \/ RemoveStale \/ Claim \/ Prepare \/ BecomeReady \/ EndLoading
  \/ Serve \/ OverrideUnhealthy \/ Open \/ Complain \/ Announce \/ Withdraw
  \/ DropPid \/ End

SignalsSpec == SignalsInit /\ [][SignalsNext]_signalVars
=============================================================================
