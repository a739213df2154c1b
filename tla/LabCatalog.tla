----------------------------- MODULE LabCatalog -----------------------------
(***************************************************************************)
(* The fault catalog, the reset tiers and the conformance checks over one  *)
(* concrete machine: what Apply, Recover and a tier do to it operation by  *)
(* operation, what of that the 25 checks can see, and what lab fault       *)
(* apply, lab reset and lab status record from it.                         *)
(*                                                                         *)
(* host holds every fact a fault or a tier changes, and the process of     *)
(* app.service.  Commands come one after the other (LabControl has their   *)
(* concurrency), but systemd and the service act between any two           *)
(* operations of a command, and an operation may fail.                     *)
(***************************************************************************)
EXTENDS Naturals, Sequences, SequencesExt

CONSTANTS
  Faults,      \* the faults that may be applied
  MaxTrouble   \* bound: forced applications, drifts and failing operations

VARIABLES
  host,      \* the machine
  record,    \* state and active_fault of state.json
  cmd,       \* the command under way: its kind and its fault
  todo,      \* the executor operations it still has to do
  dirt,      \* ghost: what happened that no recorded fault accounts for
  trouble    \* how much of MaxTrouble is used

vars == <<host, record, cmd, todo, dirt, trouble>>

-----------------------------------------------------------------------------
(* The machine.  config.yaml is the sequence of the addresses in its text:  *)
(* the one in a comment, then server.addr.  A unit or nginx file is the set *)
(* of edits made to its canonical content; a mode is whether it is right.   *)
Loopback == "127.0.0.1:8080"
Wildcard == "0.0.0.0:8080"
Port9090 == "127.0.0.1:9090"
Addresses == {Loopback, Wildcard, Port9090}
CanonicalConfig == <<Loopback, Loopback>>
Absent == <<>>

Installed ==
  [config |-> CanonicalConfig, configMode |-> TRUE, binaryMode |-> TRUE,
   stateMode |-> TRUE, volume |-> "free", log |-> "kept",
   unit |-> {}, loadedUnit |-> {}, nginx |-> {}, loadedNginx |-> {},
   chaos |-> "none", emptyEnv |-> FALSE, dropRule |-> FALSE, outside |-> {}]

\* h with some of its facts changed
With(h, facts) ==
  [x \in DOMAIN h |-> IF x \in DOMAIN facts THEN facts[x] ELSE h[x]]

Outside == {"app disabled", "nginx down", "nginx disabled",
            "certificate expired", "hosts wrong"}

Canonical(h) == \A x \in DOMAIN Installed : h[x] = Installed[x]

\* What main.go needs before it can listen; APP_ENV is not among it
Executable(h) == h.binaryMode /\ "badexec" \notin h.loadedUnit
Startable(h) == /\ Executable(h)
                /\ h.stateMode
                /\ h.config # Absent /\ h.configMode
                /\ h.log # "denied"

\* Mutant of Become: what the old process held survives it
BecomeCarryingOver(h, proc) == [h EXCEPT !.proc = proc]
\* app.service enters a state without a listener
Become(h, proc) == [h EXCEPT !.proc = proc, !.addr = "none", !.deaf = FALSE]

\* From OpenFile of the log, which creates it, to ListenAndServe
ComeUp(h) == [Become(h, "up") EXCEPT !.addr = h.config[2], !.log = "kept",
                                     !.deaf = (h.chaos = "nosigterm")]
Settle(h) == IF h.proc = "starting" /\ Startable(h) THEN ComeUp(h) ELSE h

-----------------------------------------------------------------------------
(* The checks, each as the facts on which its Execute succeeds.             *)
Unless(c, p) == IF p THEN {} ELSE {c}

NginxUp(h) == "nginx down" \notin h.outside
NginxTest(h) == "invalid" \notin h.nginx

\* The upstream of nginx reaches the listener (lo is not filtered by F-021)
Proxied(h) ==
  /\ NginxUp(h)
  /\ h.addr \in IF "port9090" \in h.loadedNginx THEN {Port9090}
                ELSE {Loopback, Wildcard}

\* touchStatePath: state exists, so it needs a block and no inode
Touchable(h) == h.stateMode /\ h.volume # "full"

SystemFailing(h) ==
  Unless("S-001", h.proc \in {"starting", "up"})
  \cup Unless("S-002", "app disabled" \notin h.outside)
  \cup Unless("S-003", NginxUp(h))
  \cup Unless("S-004", "nginx disabled" \notin h.outside)

\* CheckPort looks for a substring: 0.0.0.0:8080 contains 0.0.0.0:80
ProcessFailing(h) ==
  Unless("P-001", h.proc = "up" \/ (h.proc = "starting" /\ Executable(h)))
  \cup Unless("P-002", h.addr = Loopback)
  \cup Unless("P-003", NginxUp(h) \/ h.addr = Wildcard)
  \cup Unless("P-004", NginxUp(h))

\* nginx adds X-Proxy to its own 502, too; H-002 takes any answer but 200
EndpointFailing(h) ==
  Unless("E-001", Proxied(h))
  \cup Unless("E-002", Proxied(h) /\ Touchable(h))
  \cup Unless("E-003", Proxied(h))
  \cup Unless("E-004", NginxUp(h))
  \cup Unless("E-005", Proxied(h) /\ "hosts wrong" \notin h.outside)
  \cup Unless("H-001", Proxied(h))

FileFailing(h) ==
  Unless("F-001", h.binaryMode)
  \cup Unless("F-002", h.config # Absent /\ h.configMode)
  \cup Unless("F-004", h.stateMode)
  \cup Unless("F-005", NginxTest(h))
  \cup Unless("F-006", "certificate expired" \notin h.outside)
  \cup Unless("F-007", "hosts wrong" \notin h.outside)

\* Read as root, so a mode does not matter
LogFailing(h) == IF h.log = "removed" THEN {"L-001", "L-002", "L-003"} ELSE {}

Failing(h) == SystemFailing(h) \cup ProcessFailing(h) \cup EndpointFailing(h)
              \cup FileFailing(h) \cup LogFailing(h)

Endpoints == {"E-001", "E-002", "E-003", "E-004", "E-005", "H-001", "H-002"}
Degrading == {"F-006", "L-001", "L-002", "L-003"}
Lightweight == {"P-001", "P-002", "S-003", "E-001"}

\* Endpoint failures depend on S-001 and are skipped once it has failed
Dependent(failing) == IF "S-001" \in failing THEN Endpoints ELSE {}
IsConformant(h) ==
  LET failing == Failing(h)
  IN (failing \ Dependent(failing)) \subseteq Degrading
\* status adds a failed E-002 when GET / is answered by anything but 200
LooksHealthy(h) == Failing(h) \cap (Lightweight \cup {"E-002"}) \subseteq Degrading

-----------------------------------------------------------------------------
(* Executor operations: records with their kind, and the paths and values   *)
(* they are about.  optional: the caller goes on when it fails.             *)
Put(facts) == [kind |-> "put", facts |-> facts]
Chmod(path, facts) == [kind |-> "chmod", path |-> path, facts |-> facts]
Unlink(path, gone) == [kind |-> "remove", path |-> path, gone |-> gone]
Readdress(new) == [kind |-> "readdress", new |-> new]
Edit(path, edit) == [kind |-> "edit", path |-> path, edit |-> edit]
Overfill(volume) == [kind |-> "overfill", facts |-> [volume |-> volume]]
InstallConfig == [kind |-> "installConfig"]
Restart == [kind |-> "restart"]
StartApp == [kind |-> "start"]
Repair(drift) == [kind |-> "repair", drift |-> drift]
DaemonReload == [kind |-> "daemonReload"]
ResetFailed == [kind |-> "resetFailed", optional |-> TRUE]
NginxReload == [kind |-> "nginxReload"]
TryNginxReload == [kind |-> "nginxReload", optional |-> TRUE]
RestartNginx == [kind |-> "restartNginx"]
AwaitHealthy == [kind |-> "awaitHealthy"]
ValidateSh == [kind |-> "validateSh"]

RestoreConfig == Put([config |-> CanonicalConfig, configMode |-> TRUE])
RestoreUnit == Put([unit |-> {}])
RestoreNginx == Put([nginx |-> {}])
RestoreBinary == Put([binaryMode |-> TRUE])
RestoreState == Put([stateMode |-> TRUE])
RestoreConfigMode == Chmod("config", [configMode |-> TRUE])
WriteChaos(mode) == Put([chaos |-> mode])

Optional(op) == "optional" \in DOMAIN op
Gone(path, h) == CASE path = "config" -> h.config = Absent
                   [] path = "log" -> h.log = "removed"
                   [] OTHER -> FALSE

Succeeds(op, h) ==
  CASE op.kind \in {"chmod", "remove"} -> ~Gone(op.path, h)
    [] op.kind = "readdress" -> h.config # Absent
    [] op.kind = "overfill" -> FALSE
    [] op.kind \in {"restart", "start"} -> ~h.limited
    [] op.kind = "nginxReload" -> NginxTest(h) /\ NginxUp(h)
    [] op.kind = "restartNginx" -> NginxTest(h)
    [] op.kind = "awaitHealthy" -> h.proc = "up"
    [] op.kind = "validateSh" -> Failing(h) \subseteq Degrading
    [] OTHER -> TRUE

\* strings.Replace(data, AppBindAddr, new, 1): the first occurrence only
ReplaceFirstAddr(addrs, new) ==
  LET i == SelectInSeq(addrs, LAMBDA a : a = Loopback)
  IN IF i = 0 THEN addrs ELSE ReplaceAt(addrs, i, new)

Effect(op, h) ==
  CASE op.kind \in {"put", "chmod", "overfill"} -> With(h, op.facts)
    [] op.kind = "remove" -> [h EXCEPT ![op.path] = op.gone]
    [] op.kind = "readdress" ->
         [h EXCEPT !.config = ReplaceFirstAddr(h.config, op.new),
                   !.configMode = TRUE]
    [] op.kind = "edit" -> [h EXCEPT ![op.path] = @ \cup {op.edit}]
    [] op.kind = "installConfig" ->
         IF h.config = Absent THEN With(h, RestoreConfig.facts) ELSE h
    [] op.kind = "restart" \/ (op.kind = "start" /\ h.proc # "up") ->
         Become(h, "starting")
    [] op.kind = "daemonReload" -> [h EXCEPT !.loadedUnit = h.unit]
    [] op.kind = "resetFailed" -> [h EXCEPT !.limited = FALSE]
    [] op.kind = "nginxReload" -> [h EXCEPT !.loadedNginx = h.nginx]
    [] op.kind = "restartNginx" ->
         [h EXCEPT !.loadedNginx = h.nginx, !.outside = @ \ {"nginx down"}]
    [] op.kind = "repair" -> [h EXCEPT !.outside = @ \ {op.drift}]
    [] OTHER -> h

-----------------------------------------------------------------------------
(* The catalog.  failing and passing are the lists of its Postcondition.    *)
Proxies == {"E-001", "E-002", "E-003", "E-004", "E-005"}
Unreachable == {"S-001"} \cup Proxies

FaultF001 == [apply |-> <<Unlink("config", Absent)>>,
              recover |-> <<RestoreConfig>>,
              tier |-> "R2",
              failing |-> Unreachable,
              passing |-> {"F-003", "F-007"}]
FaultF002 == [apply |-> <<Readdress(Port9090), Restart>>,
              recover |-> <<RestoreConfig, Restart>>,
              tier |-> "R2",
              failing |-> {"P-002"} \cup Proxies,
              passing |-> {"S-001", "P-001", "F-002"}]
FaultF003 == [apply |-> <<Chmod("config", [configMode |-> FALSE])>>,
              recover |-> <<RestoreConfigMode, ResetFailed, Restart>>,
              tier |-> "R2",
              failing |-> Unreachable,
              passing |-> {"F-002", "F-007"}]
FaultF004 == [apply |-> <<Chmod("state", [stateMode |-> FALSE])>>,
              recover |-> <<Chmod("state", [stateMode |-> TRUE])>>,
              tier |-> "R2",
              failing |-> {"E-002", "F-004"},
              passing |-> {"S-001", "E-001", "E-003"}]
FaultF005 == [apply |-> <<Chmod("binary", [binaryMode |-> FALSE])>>,
              recover |-> <<Chmod("binary", [binaryMode |-> TRUE]), Restart>>,
              tier |-> "R2",
              failing |-> Unreachable \cup {"F-001"},
              passing |-> {"F-002", "F-007"}]
FaultF006 == [apply |-> <<Edit("unit", "noenv"), DaemonReload, Restart>>,
              recover |-> <<RestoreUnit, DaemonReload, Restart>>,
              tier |-> "R2",
              failing |-> Unreachable,
              passing |-> {"F-002"}]
FaultF007 == [apply |-> <<Edit("nginx", "port9090"), NginxReload>>,
              recover |-> <<RestoreNginx, NginxReload>>,
              tier |-> "R2",
              failing |-> Proxies,
              passing |-> {"S-001", "P-001", "P-002"}]
FaultF008 == [apply |-> <<WriteChaos("nosigterm"), Restart>>,
              recover |-> <<WriteChaos("none"), Restart>>,
              tier |-> "R3",
              failing |-> {},
              passing |-> {"S-001", "E-001", "E-002"}]
FaultF009 == [apply |-> <<Chmod("log", [log |-> "denied"])>>,
              recover |-> <<Chmod("log", [log |-> "kept"]), Restart>>,
              tier |-> "R2",
              failing |-> Unreachable \cup {"L-001", "L-002", "L-003", "F-003"},
              passing |-> {"F-002"}]
FaultF010 == [apply |-> <<Unlink("log", "removed")>>,
              recover |-> <<Restart>>,
              tier |-> "R1",
              failing |-> {"L-001", "L-002", "L-003"},
              passing |-> {"S-001", "P-001", "P-002", "E-001", "E-002"}]
\* Mutant of FaultF013: systemd is not told of the edited unit
FaultF013NotReloaded == [apply |-> <<Edit("unit", "badexec")>>,
                         recover |-> <<RestoreUnit, DaemonReload, StartApp>>,
                         tier |-> "R2",
                         failing |-> Unreachable,
                         passing |-> {"S-002"}]
FaultF013 == [apply |-> <<Edit("unit", "badexec"), DaemonReload>>,
              recover |-> <<RestoreUnit, DaemonReload, StartApp>>,
              tier |-> "R2",
              failing |-> Unreachable,
              passing |-> {"S-002"}]
FaultF014 == [apply |-> <<WriteChaos("zombies"), Restart>>,
              recover |-> <<WriteChaos("none"), Restart>>,
              tier |-> "R3",
              failing |-> {},
              passing |-> {}]
\* Mutant of FaultF015: the edit of F-007, which nginx accepts and loads
FaultF015Accepted == [apply |-> <<Edit("nginx", "port9090"), TryNginxReload>>,
                      recover |-> <<RestoreNginx, NginxReload>>,
                      tier |-> "R2",
                      failing |-> {"F-005"},
                      passing |-> {"S-003", "P-003", "P-004", "E-001", "E-002"}]
FaultF015 == [apply |-> <<Edit("nginx", "invalid"), TryNginxReload>>,
              recover |-> <<RestoreNginx, NginxReload>>,
              tier |-> "R2",
              failing |-> {"F-005"},
              passing |-> {"S-003", "P-003", "P-004", "E-001", "E-002"}]
FaultF016 == [apply |-> <<Readdress(Wildcard), Restart>>,
              recover |-> <<RestoreConfig, Restart>>,
              tier |-> "R2",
              failing |-> {"P-002"},
              passing |-> {"S-001", "E-001", "E-002", "E-003", "E-004"}]
FaultF017 == [apply |-> <<Put([emptyEnv |-> TRUE]), Restart>>,
              recover |-> <<Put([emptyEnv |-> FALSE]), Restart>>,
              tier |-> "R2",
              failing |-> Unreachable,
              passing |-> {"F-001", "F-002"}]
\* 100000 files and 100 MiB exceed the 50 MiB volume: both Apply fail half way
FaultF018 == [apply |-> <<Overfill("inodes")>>,
              recover |-> <<Put([volume |-> "free"])>>,
              tier |-> "R2",
              failing |-> {"E-002", "F-004"},
              passing |-> {"S-001", "E-001", "E-003"}]
FaultF019 == [apply |-> <<Overfill("full")>>,
              recover |-> <<Put([volume |-> "free"])>>,
              tier |-> "R2",
              failing |-> {"E-002", "F-004"},
              passing |-> {"S-001", "E-001", "E-003"}]
FaultF020 == [apply |-> <<WriteChaos("latency"), Restart>>,
              recover |-> <<WriteChaos("none"), Restart>>,
              tier |-> "R2",
              failing |-> {},
              passing |-> {"S-001", "E-001", "E-003"}]
\* Mutant of FaultF021: Recover does not flush the chain
FaultF021Unflushed == [apply |-> <<Put([dropRule |-> TRUE])>>,
                       recover |-> <<>>,
                       tier |-> "R2",
                       failing |-> Proxies,
                       passing |-> {"S-001", "P-001", "P-002"}]
FaultF021 == [apply |-> <<Put([dropRule |-> TRUE])>>,
              recover |-> <<Put([dropRule |-> FALSE])>>,
              tier |-> "R2",
              failing |-> Proxies,
              passing |-> {"S-001", "P-001", "P-002"}]

FaultIds == {"F-001", "F-002", "F-003", "F-004", "F-005", "F-006", "F-007",
             "F-008", "F-009", "F-010", "F-013", "F-014", "F-015", "F-016",
             "F-017", "F-018", "F-019", "F-020", "F-021"}

Catalog ==
  [f \in FaultIds |->
     CASE f = "F-001" -> FaultF001
       [] f = "F-002" -> FaultF002
       [] f = "F-003" -> FaultF003
       [] f = "F-004" -> FaultF004
       [] f = "F-005" -> FaultF005
       [] f = "F-006" -> FaultF006
       [] f = "F-007" -> FaultF007
       [] f = "F-008" -> FaultF008
       [] f = "F-009" -> FaultF009
       [] f = "F-010" -> FaultF010
       [] f = "F-013" -> FaultF013
       [] f = "F-014" -> FaultF014
       [] f = "F-015" -> FaultF015
       [] f = "F-016" -> FaultF016
       [] f = "F-017" -> FaultF017
       [] f = "F-018" -> FaultF018
       [] f = "F-019" -> FaultF019
       [] f = "F-020" -> FaultF020
       [] f = "F-021" -> FaultF021]

ASSUME FaultsAssumption == Faults \subseteq FaultIds
ASSUME MaxTroubleAssumption == MaxTrouble \in Nat

NoneActive == "none"
Irreversible == {"F-008", "F-014"}
PreconditionChecks(f) == IF f = "F-010" THEN {"P-001"} ELSE {}

-----------------------------------------------------------------------------
(* The tiers.  R3 is bootstrap.sh, by its steps that change what is here.   *)
Tiers == {"R1", "R2", "R3"}

TierR1 == <<ResetFailed, Restart, NginxReload>>
TierR2 == <<RestoreConfig, RestoreUnit, RestoreNginx,
            RestoreBinary, RestoreConfigMode, RestoreState,
            DaemonReload, ResetFailed, Restart, NginxReload>>
\* A wrong entry in /etc/hosts stays (step 11 adds a missing one), and so does
\* a config.yaml that exists (step 07).
BootstrapFiles == <<RestoreBinary, RestoreUnit, DaemonReload,
                    Repair("certificate expired"), RestoreNginx>>
BootstrapServices == <<Repair("app disabled"), Repair("nginx disabled"),
                       RestartNginx, Restart, AwaitHealthy, ValidateSh>>

\* Mutant of TierR3: chaos.env is installed only if it is missing
TierR3KeepsChaos == <<RestoreState, InstallConfig>>
                    \o BootstrapFiles \o BootstrapServices
TierR3 == <<RestoreState, InstallConfig, WriteChaos("none")>>
          \o BootstrapFiles \o BootstrapServices

TierOps(t) == CASE t = "R1" -> TierR1 [] t = "R2" -> TierR2 [] OTHER -> TierR3

\* executeTier: Recover of a reversible recorded fault comes first
ResetOps(f, t) ==
  (IF f = NoneActive \/ f \in Irreversible THEN <<>> ELSE Catalog[f].recover)
  \o TierOps(t)

-----------------------------------------------------------------------------
Idle == cmd.kind = "none"
NoCmd == [kind |-> "none", fault |-> NoneActive]

Serving == [proc |-> "up", addr |-> Loopback, deaf |-> FALSE, limited |-> FALSE]

Init ==
  /\ host = [x \in DOMAIN Installed \cup DOMAIN Serving |->
               IF x \in DOMAIN Serving THEN Serving[x] ELSE Installed[x]]
  /\ record = [state |-> "CONFORMANT", fault |-> NoneActive]
  /\ cmd = NoCmd
  /\ todo = <<>>
  /\ dirt = {}
  /\ trouble = 0

\* The history is one of unforced faults and of resets deep enough; resets
\* that failed half way are part of it.
Accounted == dirt \subseteq {"reset failed"}

Worry == trouble < MaxTrouble /\ trouble' = trouble + 1

\* Preconditions 2 to 5 of lab fault apply, which --force skips
Applicable(f) == /\ record = [state |-> "CONFORMANT", fault |-> NoneActive]
                 /\ Failing(host) \cap PreconditionChecks(f) = {}

\* Bound: no fault is applied to a machine with an unaccounted change; every
\* property but the type invariant is about accounted histories only.
BeginApply(f) == /\ Idle /\ Accounted
                 /\ cmd' = [kind |-> "apply", fault |-> f]
                 /\ todo' = Catalog[f].apply
                 /\ UNCHANGED <<host, record>>

Apply(f) == Applicable(f) /\ BeginApply(f) /\ UNCHANGED <<dirt, trouble>>

ForceApply(f) == /\ ~Applicable(f)
                 /\ BeginApply(f)
                 /\ Worry
                 /\ dirt' = dirt \cup {"forced"}

\* lab reset --tier t; without --tier, t is the fault's own tier or R2
Reset(t) ==
  /\ Idle
  /\ ~(record = [state |-> "CONFORMANT", fault |-> NoneActive]
       /\ IsConformant(host))
  /\ cmd' = [kind |-> "reset", fault |-> record.fault]
  /\ todo' = ResetOps(record.fault, t)
  /\ dirt' = IF record.fault \in Irreversible /\ t # "R3"
             THEN dirt \cup {"shallow reset"} ELSE dirt
  /\ UNCHANGED <<host, record, trouble>>

StepDone ==
  /\ todo # <<>>
  /\ Succeeds(Head(todo), host)
  /\ host' = Effect(Head(todo), host)
  /\ todo' = Tail(todo)
  /\ UNCHANGED <<record, cmd, dirt, trouble>>

Failed == [apply |-> "apply failed", reset |-> "reset failed"]

\* The command ends with the error, or goes on when it ignores it
GiveUpOn(op) ==
  IF Optional(op)
  THEN todo' = Tail(todo) /\ UNCHANGED <<cmd, dirt>>
  ELSE /\ todo' = <<>>
       /\ cmd' = NoCmd
       /\ dirt' = dirt \cup {Failed[cmd.kind]}

\* It fails by the state of the machine, half done if it fills the volume
StepImpossible ==
  /\ todo # <<>>
  /\ LET op == Head(todo)
     IN /\ ~Succeeds(op, host)
        /\ host' = IF op.kind = "overfill" THEN Effect(op, host) ELSE host
        /\ GiveUpOn(op)
  /\ UNCHANGED <<record, trouble>>

\* The 10 s timeout of runRaw, which equals TimeoutStopSec of a deaf process
StepTimesOut ==
  /\ todo # <<>>
  /\ Head(todo).kind = "restart" /\ host.deaf
  /\ host' = Effect(Head(todo), host)
  /\ GiveUpOn(Head(todo))
  /\ UNCHANGED <<record, trouble>>

\* Any other failure, before or after it took effect
StepFails ==
  /\ todo # <<>>
  /\ Worry
  /\ Succeeds(Head(todo), host)
  /\ host' \in {host, Effect(Head(todo), host)}
  /\ GiveUpOn(Head(todo))
  /\ UNCHANGED record

Applied ==
  /\ cmd.kind = "apply" /\ todo = <<>>
  /\ record' = [state |-> "DEGRADED", fault |-> cmd.fault]
  /\ cmd' = NoCmd
  /\ UNCHANGED <<host, todo, dirt, trouble>>

Restored ==
  /\ cmd.kind = "reset" /\ todo = <<>>
  /\ record' = [state |-> IF IsConformant(host) THEN "CONFORMANT" ELSE "BROKEN",
                fault |-> NoneActive]
  /\ cmd' = NoCmd
  /\ UNCHANGED <<host, todo, dirt, trouble>>

\* lab status: the four lightweight checks and GET / decide
Status ==
  /\ Idle
  /\ record' = [record EXCEPT !.state =
                  IF record.fault # NoneActive THEN "DEGRADED"
                  ELSE IF LooksHealthy(host) THEN "CONFORMANT" ELSE "BROKEN"]
  /\ UNCHANGED <<host, cmd, todo, dirt, trouble>>

-----------------------------------------------------------------------------
Unrecorded == UNCHANGED <<record, cmd, todo, dirt, trouble>>

Ready == /\ host.proc = "starting" /\ Startable(host)
         /\ host' = ComeUp(host)
         /\ Unrecorded

\* The process dies: a crash, or a startup that cannot succeed
AppExits == /\ host.proc = "up" \/ (host.proc = "starting" /\ ~Startable(host))
            /\ host' = Become(host, "retrying")
            /\ Unrecorded

\* Restart=on-failure, until StartLimitBurst is hit
Retry == /\ host.proc = "retrying"
         /\ host' = Become(host, "starting")
         /\ Unrecorded

HitStartLimit == /\ host.proc = "retrying"
                 /\ host' = Become([host EXCEPT !.limited = TRUE], "failed")
                 /\ Unrecorded

StartLimitPasses == /\ host.limited
                    /\ host' = [host EXCEPT !.limited = FALSE]
                    /\ Unrecorded

Drift(d) == /\ Worry
            /\ d \notin host.outside
            /\ host' = [host EXCEPT !.outside = @ \cup {d}]
            /\ dirt' = dirt \cup {"drift"}
            /\ UNCHANGED <<record, cmd, todo>>

Command == \/ \E f \in Faults : Apply(f) \/ ForceApply(f)
           \/ \E t \in Tiers : Reset(t)
           \/ StepDone \/ StepImpossible \/ StepTimesOut \/ StepFails
           \/ Applied \/ Restored \/ Status

World == \/ Ready \/ AppExits \/ Retry \/ HitStartLimit \/ StartLimitPasses
         \/ \E d \in Outside : Drift(d)

Next == Command \/ World
Spec == Init /\ [][Next]_vars

-----------------------------------------------------------------------------
(* Properties.                                                              *)
Values ==
  [config |-> {Absent} \cup (Addresses \X Addresses), configMode |-> BOOLEAN,
   binaryMode |-> BOOLEAN, stateMode |-> BOOLEAN,
   volume |-> {"free", "inodes", "full"}, log |-> {"kept", "denied", "removed"},
   unit |-> SUBSET {"noenv", "badexec"}, loadedUnit |-> SUBSET {"noenv", "badexec"},
   nginx |-> SUBSET {"port9090", "invalid"},
   loadedNginx |-> SUBSET {"port9090", "invalid"},
   chaos |-> {"none", "nosigterm", "zombies", "latency"},
   emptyEnv |-> BOOLEAN, dropRule |-> BOOLEAN, outside |-> SUBSET Outside,
   proc |-> {"starting", "up", "retrying", "failed"},
   addr |-> Addresses \cup {"none"}, deaf |-> BOOLEAN, limited |-> BOOLEAN]

HostType(h) ==
  /\ DOMAIN h = DOMAIN Values
  /\ \A x \in DOMAIN Values : h[x] \in Values[x]
  /\ (h.addr # "none") <=> (h.proc = "up")
  /\ h.deaf => h.proc = "up"

\* Every variable has its type; only a process that is up listens or ignores
\* SIGTERM, and operations are pending only while a command runs.
TypeOK ==
  /\ HostType(host)
  /\ record.state \in {"CONFORMANT", "DEGRADED", "BROKEN"}
  /\ record.fault \in Faults \cup {NoneActive}
  /\ cmd.kind \in {"none", "apply", "reset"}
  /\ cmd.fault \in Faults \cup {NoneActive}
  /\ Idle => todo = <<>>
  /\ trouble \in 0..MaxTrouble

\* Nothing a fault changed is left, but for the log the next start creates
Traceless(h) == Canonical([h EXCEPT !.log = IF @ = "removed" THEN "kept" ELSE @])

\* fault-model.md 6.1, of Recover and executeTier: when state.json names no
\* fault, no trace of one is left on the machine, in a file, in what systemd
\* and nginx have loaded, in the manager's environment or in nftables,
\* whichever tiers were run and however many resets failed on the way.
NoFaultNoTrace ==
  (Idle /\ record.fault = NoneActive /\ Accounted) => Traceless(host)

\* hosts is the machine, or {} once an operation could not succeed; the
\* service comes up as soon as it can.
Carry(op, hosts) ==
  {Settle(IF Succeeds(op, h) THEN Effect(op, h) ELSE h) :
     h \in {g \in hosts : Succeeds(op, g) \/ Optional(op)}}

\* The machine after a reset to which nothing happens from outside
Replay(f, t, h) ==
  LET ops == ResetOps(f, t)
      run[i \in 0..Len(ops)] ==
        IF i = 0 THEN {h} ELSE Carry(ops[i], run[i - 1])
  IN run[Len(ops)]

\* fault-model.md 3.1: Recover is idempotent and a reset can be run again.
\* Wherever earlier resets of the recorded fault stopped, and whatever the
\* service did meanwhile, running one again is not in its own way: no step of
\* it is refused for what an earlier attempt did or left undone, and the
\* machine is canonical and passes the suite at the end.  The start limit has
\* passed, and an irreversible fault is reset with R3.
RetrySucceeds ==
  (Idle /\ record.fault # NoneActive /\ Accounted) =>
    \A t \in IF record.fault \in Irreversible THEN {"R3"} ELSE Tiers :
      LET end == Replay(record.fault, t, [host EXCEPT !.limited = FALSE])
      IN end # {} /\ \A h \in end : Canonical(h) /\ IsConformant(h)

\* Declared by F-003, whose chmod 000 is what check F-002 tests
MisdeclaredPassing(f) == IF f = "F-003" THEN {"F-002"} ELSE {}

\* Postcondition.PassingChecks of the catalog: while an unforced fault is
\* recorded and the service is up, every check the fault declares untouched
\* passes, which is what tells it from the faults with the same symptoms.
DeclaredPassingHolds ==
  (Idle /\ record.fault # NoneActive /\ dirt = {} /\ host.proc = "up") =>
    Catalog[record.fault].passing \cap Failing(host)
      \subseteq MisdeclaredPassing(record.fault)

\* Apply changes what only the next start of the service reads
Latent == {"F-001", "F-003", "F-005", "F-009", "F-013"}

\* The service does not validate APP_ENV (F-006, F-017), the edit meets a comment
\* (F-002, F-016), the rule another interface (F-021); the next start creates
\* the log that F-010 removed.
WithoutEffect == {"F-002", "F-006", "F-010", "F-016", "F-017", "F-021"}

\* nginx adds its header to a 502, root reads a log of any mode, and the log
\* directory is untouched
MisdeclaredFailing(f) ==
  {"E-004"} \cup IF f = "F-009" THEN {"L-001", "L-002", "L-003", "F-003"} ELSE {}

\* The machine when the service has been started once more
Restarted(h) == IF Startable(h) THEN ComeUp(h) ELSE Become(h, "failed")

\* Postcondition.FailingChecks of the catalog: while an unforced fault is
\* recorded, whatever the service has done since, the checks it declares fail,
\* for the latent ones from the next start on, and a restart does not heal it.
DeclaredFailingShows ==
  LET f == record.fault
  IN (Idle /\ f \notin {NoneActive} \cup WithoutEffect /\ dirt = {}) =>
       LET declared == Catalog[f].failing \ MisdeclaredFailing(f)
       IN /\ f \notin Latent => declared \subseteq Failing(host)
          /\ declared \subseteq Failing(Restarted(host))

\* config.yaml:6, of F-002 and F-016: once the fault is recorded and the
\* restarted service is up, it no longer listens on 127.0.0.1:8080.
AddressFaultTakesEffect ==
  (Idle /\ record.fault \in {"F-002", "F-016"} /\ dirt = {}
   /\ host.proc = "up") => "P-002" \in Failing(host)
=============================================================================
