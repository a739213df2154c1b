-------------------------- MODULE LabCatalogProofs --------------------------
(***************************************************************************)
(* What is true of the fault catalog however many operations fail, resets  *)
(* are cut off, faults are forced and things drift: MaxTrouble is any      *)
(* natural number here.                                                    *)
(***************************************************************************)
EXTENDS LabCatalog, WellFoundedInduction, TLAPS

Facts == DOMAIN Installed
Overlays == {"put", "chmod", "overfill"}
NginxLoads == {"nginxReload", "restartNginx"}

\* A canonical machine once f has been applied
Trace(f) ==
  CASE f = "F-001" -> [Installed EXCEPT !.config = Absent]
    [] f = "F-002" -> [Installed EXCEPT !.config = <<Port9090, Loopback>>]
    [] f = "F-003" -> [Installed EXCEPT !.configMode = FALSE]
    [] f = "F-004" -> [Installed EXCEPT !.stateMode = FALSE]
    [] f = "F-005" -> [Installed EXCEPT !.binaryMode = FALSE]
    [] f = "F-006" -> [Installed EXCEPT !.unit = {"noenv"},
                                     !.loadedUnit = {"noenv"}]
    [] f = "F-007" -> [Installed EXCEPT !.nginx = {"port9090"},
                                     !.loadedNginx = {"port9090"}]
    [] f = "F-008" -> [Installed EXCEPT !.chaos = "nosigterm"]
    [] f = "F-009" -> [Installed EXCEPT !.log = "denied"]
    [] f = "F-010" -> [Installed EXCEPT !.log = "removed"]
    [] f = "F-013" -> [Installed EXCEPT !.unit = {"badexec"},
                                     !.loadedUnit = {"badexec"}]
    [] f = "F-014" -> [Installed EXCEPT !.chaos = "zombies"]
    [] f = "F-015" -> [Installed EXCEPT !.nginx = {"invalid"}]
    [] f = "F-016" -> [Installed EXCEPT !.config = <<Wildcard, Loopback>>]
    [] f = "F-017" -> [Installed EXCEPT !.emptyEnv = TRUE]
    [] f = "F-018" -> [Installed EXCEPT !.volume = "inodes"]
    [] f = "F-019" -> [Installed EXCEPT !.volume = "full"]
    [] f = "F-020" -> [Installed EXCEPT !.chaos = "latency"]
    [] f = "F-021" -> [Installed EXCEPT !.dropRule = TRUE]
    [] OTHER -> Installed

-----------------------------------------------------------------------------
(* Operations on their way to a target, a machine t with the facts they are *)
(* to leave.                                                                *)

\* What the operation changes, it changes to what the target has.
Fits(op, t) ==
  /\ op.kind \in Overlays =>
       \A x \in DOMAIN op.facts : x \in Facts /\ op.facts[x] = t[x]
  /\ op.kind = "remove" => op.path \in Facts /\ op.gone = t[op.path]
  /\ op.kind = "readdress" => /\ t.config = ReplaceFirstAddr(CanonicalConfig, op.new)
                              /\ t.configMode = TRUE
  /\ op.kind = "edit" => op.path \in {"unit", "nginx"} /\ t[op.path] = {op.edit}
  /\ op.kind = "installConfig" => t.config = CanonicalConfig /\ t.configMode = TRUE
  /\ op.kind = "daemonReload" => t.loadedUnit = t.unit
  /\ op.kind \in NginxLoads /\ NginxTest(t) => t.loadedNginx = t.nginx
  /\ op.kind \in {"repair", "restartNginx"} => t.outside = {}
  /\ Optional(op) => \/ op.kind = "resetFailed"
                     \/ op.kind = "nginxReload" /\ ~NginxTest(t)

\* When it succeeds, fact x is the target's.
Brings(op, x, t) ==
  \/ op.kind \in Overlays /\ x \in DOMAIN op.facts
  \/ op.kind \in {"remove", "edit"} /\ x = op.path
  \/ op.kind = "readdress" /\ x = "config"
  \/ op.kind = "daemonReload" /\ x = "loadedUnit"
  \/ op.kind \in NginxLoads /\ NginxTest(t) /\ x = "loadedNginx"

\* Any start of the service creates a log that is missing.
Near(x, h, t) ==
  \/ h[x] = t[x]
  \/ x = "log" /\ {h[x], t[x]} \subseteq {"kept", "removed"}

\* What an operation reads is the target's by the time it is carried out.
InOrder(ops, i, h, t) ==
  LET Settled(x) == h[x] = t[x] \/ \E j \in 1..(i - 1) : Brings(ops[j], x, t)
  IN /\ ops[i].kind = "daemonReload" => Settled("unit")
     /\ ops[i].kind \in NginxLoads => Settled("nginx")
     /\ ops[i].kind = "readdress" => i = 1 /\ h.config = CanonicalConfig
     /\ ops[i].kind = "edit" => h[ops[i].path] \subseteq {ops[i].edit}

Pending(ops, h, t) ==
  /\ \A i \in DOMAIN ops : Fits(ops[i], t) /\ InOrder(ops, i, h, t)
  /\ \A x \in Facts : Near(x, h, t) \/ \E i \in DOMAIN ops : Brings(ops[i], x, t)

\* The fields of a machine; its values are not needed
Shaped(h) == DOMAIN h = DOMAIN Values

\* The facts of the machine, and the fields it has besides.
LEMMA Fields ==
  /\ Facts = {"config", "configMode", "binaryMode", "stateMode", "volume", "log",
              "unit", "loadedUnit", "nginx", "loadedNginx", "chaos", "emptyEnv",
              "dropRule", "outside"}
  /\ DOMAIN Values = Facts \cup {"proc", "addr", "deaf", "limited"}
BY DEF Facts, Installed, Values

\* What systemd does with the process leaves the facts alone.
LEMMA BecomeFacts ==
  ASSUME NEW h, Shaped(h), NEW proc
  PROVE  /\ Shaped(Become(h, proc))
         /\ \A x \in Facts : Become(h, proc)[x] = h[x]
BY Fields DEF Shaped, Become

\* An operation that succeeds and fits the target leaves each fact alone or sets
\* it to the target's, and leaves none alone that it brings.
LEMMA EffectToward ==
  ASSUME NEW h, Shaped(h), h.outside = {}, NEW t, NEW op, Fits(op, t),
         Succeeds(op, h) \/ op.kind \in {"overfill", "restart"},
         op.kind = "daemonReload" => h.unit = t.unit,
         op.kind \in NginxLoads => h.nginx = t.nginx,
         op.kind = "readdress" => h.config = CanonicalConfig,
         op.kind = "edit" => h[op.path] \subseteq {op.edit}
  PROVE  /\ Shaped(Effect(op, h))
         /\ \A x \in Facts : \/ Effect(op, h)[x] = t[x]
                             \/ Effect(op, h)[x] = h[x] /\ ~Brings(op, x, t)
<1> USE Fields DEF Shaped, Fits, Brings, Overlays, NginxLoads
<1>1. CASE op.kind \in Overlays
  BY <1>1 DEF Effect, With
<1>2. CASE op.kind = "remove"
  BY <1>2 DEF Effect
<1>3. CASE op.kind = "readdress"
  <2>1. ReplaceFirstAddr(h.config, op.new) = t.config /\ t.configMode = TRUE
    BY <1>3
  <2>2. Effect(op, h) = [h EXCEPT !.config = t.config, !.configMode = t.configMode]
    BY <1>3, <2>1 DEF Effect
  <2> QED BY <1>3, <2>2
<1>4. CASE op.kind = "edit"
  <2>1. op.path \in {"unit", "nginx"} /\ h[op.path] \cup {op.edit} = t[op.path]
    BY <1>4
  <2>2. Effect(op, h) = [h EXCEPT ![op.path] = t[op.path]]
    BY <1>4, <2>1 DEF Effect
  <2> QED BY <1>4, <2>1, <2>2
<1>5. CASE op.kind = "installConfig"
  <2>1. /\ DOMAIN RestoreConfig.facts = {"config", "configMode"}
        /\ RestoreConfig.facts.config = CanonicalConfig
        /\ RestoreConfig.facts.configMode = TRUE
    BY DEF RestoreConfig, Put
  <2>2. Effect(op, h) = IF h.config = Absent THEN With(h, RestoreConfig.facts) ELSE h
    BY <1>5 DEF Effect
  <2>3. \A x \in DOMAIN RestoreConfig.facts : RestoreConfig.facts[x] = t[x]
    BY <1>5, <2>1
  <2>4. ASSUME NEW x \in Facts
        PROVE  With(h, RestoreConfig.facts)[x] \in {h[x], t[x]}
    BY <2>3 DEF With
  <2>5. Shaped(With(h, RestoreConfig.facts))
    BY DEF With
  <2> QED BY <1>5, <2>2, <2>4, <2>5
<1>6. CASE op.kind \in {"restart", "start"}
  <2>1. Effect(op, h) \in {h, Become(h, "starting")}
    BY <1>6 DEF Effect
  <2> QED BY <1>6, <2>1, BecomeFacts
<1>7. CASE op.kind = "daemonReload"
  BY <1>7 DEF Effect
<1>8. CASE op.kind = "resetFailed"
  BY <1>8 DEF Effect
<1>9. CASE op.kind = "nginxReload"
  <2>1. h.nginx = t.loadedNginx
    BY <1>9 DEF Succeeds, NginxTest
  <2>2. Effect(op, h) = [h EXCEPT !.loadedNginx = t.loadedNginx]
    BY <1>9, <2>1 DEF Effect
  <2> QED BY <1>9, <2>2
<1>10. CASE op.kind = "restartNginx"
  <2>1. h.nginx = t.loadedNginx /\ t.outside = {}
    BY <1>10 DEF Succeeds, NginxTest
  <2>2. h.outside \ {"nginx down"} = {}
    OBVIOUS
  <2>3. Effect(op, h) = [h EXCEPT !.loadedNginx = t.loadedNginx, !.outside = t.outside]
    BY <1>10, <2>1, <2>2 DEF Effect
  <2> QED BY <1>10, <2>3
<1>11. CASE op.kind = "repair"
  BY <1>11 DEF Effect
<1>12. CASE op.kind \notin Overlays \cup NginxLoads \cup
         {"remove", "readdress", "edit", "installConfig", "restart", "start",
          "daemonReload", "resetFailed", "repair"}
  BY <1>12 DEF Effect
<1> QED BY <1>1, <1>2, <1>3, <1>4, <1>5, <1>6, <1>7, <1>8, <1>9, <1>10, <1>11, <1>12

\* Carrying out the first operation keeps the rest a plan for the same target.
LEMMA StepKeepsPending ==
  ASSUME NEW S, NEW ops \in Seq(S), ops # <<>>, NEW h, Shaped(h), h.outside = {},
         NEW t, Pending(ops, h, t),
         Succeeds(Head(ops), h) \/ Head(ops).kind \in {"overfill", "restart"}
  PROVE  /\ Shaped(Effect(Head(ops), h))
         /\ \A x \in Facts : Effect(Head(ops), h)[x] \in {h[x], t[x]}
         /\ Pending(Tail(ops), Effect(Head(ops), h), t)
<1> DEFINE op == Head(ops)
           g == Effect(op, h)
<1>0. Succeeds(op, h) \/ op.kind \in {"overfill", "restart"}
  OBVIOUS
<1>1. /\ op = ops[1] /\ 1 \in DOMAIN ops
      /\ \A i \in DOMAIN Tail(ops) : Tail(ops)[i] = ops[i + 1] /\ i + 1 \in DOMAIN ops
      /\ \A i \in DOMAIN ops : i \in Nat /\ (i = 1 \/ i - 1 \in DOMAIN Tail(ops))
      /\ DOMAIN ops = 1..Len(ops) /\ DOMAIN Tail(ops) = 1..(Len(ops) - 1) /\ Len(ops) \in Nat
  OBVIOUS
<1>2. Fits(op, t) /\ InOrder(ops, 1, h, t)
  BY <1>1 DEF Pending
<1>3. /\ op.kind = "daemonReload" => h.unit = t.unit
      /\ op.kind \in NginxLoads => h.nginx = t.nginx
      /\ op.kind = "readdress" => h.config = CanonicalConfig
      /\ op.kind = "edit" => h[op.path] \subseteq {op.edit}
  BY <1>1, <1>2 DEF InOrder
<1> HIDE DEF op
<1>4. /\ Shaped(g)
      /\ \A x \in Facts : g[x] = t[x] \/ (g[x] = h[x] /\ ~Brings(op, x, t))
  BY <1>2, <1>3, <1>0, EffectToward
<1> HIDE DEF g
<1>5. ASSUME NEW x \in Facts
      PROVE  Near(x, g, t) \/ \E i \in DOMAIN Tail(ops) : Brings(Tail(ops)[i], x, t)
  <2>1. CASE Near(x, h, t)
    BY <1>4, <2>1 DEF Near
  <2>2. CASE Brings(op, x, t)
    BY <1>4, <2>2 DEF Near
  <2>3. ASSUME NEW i \in DOMAIN ops, i # 1, Brings(ops[i], x, t)
        PROVE  \E j \in DOMAIN Tail(ops) : Brings(Tail(ops)[j], x, t)
    <3>1. i - 1 \in DOMAIN Tail(ops) /\ Tail(ops)[i - 1] = ops[i]
      BY <1>1, <2>3
    <3> QED BY <2>3, <3>1
  <2> QED BY <1>1, <2>1, <2>2, <2>3 DEF Pending
<1>6. ASSUME NEW i \in DOMAIN Tail(ops)
      PROVE  Fits(Tail(ops)[i], t) /\ InOrder(Tail(ops), i, g, t)
  <2>1. i + 1 \in DOMAIN ops /\ Tail(ops)[i] = ops[i + 1] /\ i + 1 # 1
    BY <1>1
  <2>2. Fits(ops[i + 1], t) /\ InOrder(ops, i + 1, h, t)
    BY <2>1 DEF Pending
  <2>3. ASSUME NEW x \in Facts, h[x] = t[x] \/ \E j \in 1..i : Brings(ops[j], x, t)
        PROVE  g[x] = t[x] \/ \E j \in 1..(i - 1) : Brings(Tail(ops)[j], x, t)
    <3>1. CASE h[x] = t[x] \/ Brings(op, x, t)
      BY <1>4, <3>1
    <3>2. ASSUME NEW j \in 1..i, j # 1, Brings(ops[j], x, t)
          PROVE  \E k \in 1..(i - 1) : Brings(Tail(ops)[k], x, t)
      <4>1. j - 1 \in 1..(i - 1) /\ Tail(ops)[j - 1] = ops[j]
        BY <1>1, <3>2
      <4> QED BY <3>2, <4>1
    <3> QED BY <1>1, <2>3, <3>1, <3>2
  <2>4. "unit" \in Facts /\ "nginx" \in Facts
    BY Fields
  <2>5. ops[i + 1].kind # "readdress"
    BY <2>1, <2>2, <1>1 DEF InOrder
  <2>6. ops[i + 1].kind = "edit" => g[ops[i + 1].path] \subseteq {ops[i + 1].edit}
    BY <2>2, <1>4, Fields DEF InOrder, Fits
  <2>7. (i + 1) - 1 = i
    BY <1>1
  <2> QED BY <2>1, <2>2, <2>3, <2>4, <2>5, <2>6, <2>7 DEF InOrder
<1> QED BY <1>4, <1>5, <1>6 DEF Pending, op, g

\* So does skipping it, if the command may.
LEMMA SkipKeepsPending ==
  ASSUME NEW S, NEW ops \in Seq(S), ops # <<>>, NEW h, NEW t, Pending(ops, h, t),
         Optional(Head(ops))
  PROVE  Pending(Tail(ops), h, t)
<1>1. /\ Head(ops) = ops[1] /\ 1 \in DOMAIN ops
      /\ \A i \in DOMAIN Tail(ops) : Tail(ops)[i] = ops[i + 1] /\ i + 1 \in DOMAIN ops
      /\ \A i \in DOMAIN ops : i \in Nat /\ (i = 1 \/ i - 1 \in DOMAIN Tail(ops))
      /\ DOMAIN ops = 1..Len(ops) /\ DOMAIN Tail(ops) = 1..(Len(ops) - 1) /\ Len(ops) \in Nat
  OBVIOUS
<1>2. Fits(ops[1], t) /\ Optional(ops[1])
  BY <1>1 DEF Pending
<1>3. \A x : ~Brings(ops[1], x, t)
  BY <1>2 DEF Fits, Brings, Overlays, NginxLoads
<1>4. ASSUME NEW x, NEW i \in DOMAIN ops, Brings(ops[i], x, t)
      PROVE  i - 1 \in DOMAIN Tail(ops) /\ Brings(Tail(ops)[i - 1], x, t)
  BY <1>1, <1>3, <1>4
<1>5. ASSUME NEW i \in DOMAIN Tail(ops)
      PROVE  Fits(Tail(ops)[i], t) /\ InOrder(Tail(ops), i, h, t)
  <2>1. i + 1 \in DOMAIN ops /\ Tail(ops)[i] = ops[i + 1] /\ i + 1 # 1 /\ (i + 1) - 1 = i
    BY <1>1
  <2>2. Fits(ops[i + 1], t) /\ InOrder(ops, i + 1, h, t)
    BY <2>1 DEF Pending
  <2>3. ASSUME NEW x, h[x] = t[x] \/ \E j \in 1..i : Brings(ops[j], x, t)
        PROVE  h[x] = t[x] \/ \E j \in 1..(i - 1) : Brings(Tail(ops)[j], x, t)
    <3>1. ASSUME NEW j \in 1..i, Brings(ops[j], x, t)
          PROVE  j - 1 \in 1..(i - 1) /\ Tail(ops)[j - 1] = ops[j]
      BY <1>1, <1>3, <3>1
    <3> QED BY <2>3, <3>1
  <2>4. Tail(ops)[i].kind # "readdress"
    BY <2>1, <2>2 DEF InOrder
  <2> QED BY <2>1, <2>2, <2>3, <2>4 DEF InOrder
<1> QED BY <1>4, <1>5 DEF Pending

\* The service coming up may create the log, and nothing else the world does
\* touches what a fault is about.
LEMMA LogKeepsPending ==
  ASSUME NEW ops, NEW h, NEW g, NEW t, Pending(ops, h, t),
         \A x \in Facts \ {"log"} : g[x] = h[x],
         g.log = h.log \/ (h.log = "removed" /\ g.log = "kept")
  PROVE  Pending(ops, g, t)
<1>1. Near("log", h, t) => Near("log", g, t)
  BY DEF Near
<1>2. \A x \in Facts : Near(x, h, t) => Near(x, g, t)
  BY <1>1 DEF Near
<1>3. \A i \in DOMAIN ops : InOrder(ops, i, h, t) => InOrder(ops, i, g, t)
  BY Fields DEF InOrder, Pending, Fits
<1> QED BY <1>2, <1>3 DEF Pending

-----------------------------------------------------------------------------
(* The operations of the catalog and of the tiers.                          *)
LEMMA Constructors ==
  /\ \A F : /\ Put(F).kind = "put" /\ Put(F).facts = F /\ ~Optional(Put(F))
  /\ \A p, F : /\ Chmod(p, F).kind = "chmod" /\ Chmod(p, F).facts = F
               /\ Chmod(p, F).path = p /\ ~Optional(Chmod(p, F))
  /\ \A p, v : /\ Unlink(p, v).kind = "remove" /\ Unlink(p, v).path = p
               /\ Unlink(p, v).gone = v /\ ~Optional(Unlink(p, v))
  /\ \A a : Readdress(a).kind = "readdress" /\ Readdress(a).new = a /\ ~Optional(Readdress(a))
  /\ \A p, e : /\ Edit(p, e).kind = "edit" /\ Edit(p, e).path = p
               /\ Edit(p, e).edit = e /\ ~Optional(Edit(p, e))
  /\ \A d : Repair(d).kind = "repair" /\ Repair(d).drift = d /\ ~Optional(Repair(d))
  /\ Restart.kind = "restart" /\ ~Optional(Restart)
  /\ StartApp.kind = "start" /\ ~Optional(StartApp)
  /\ DaemonReload.kind = "daemonReload" /\ ~Optional(DaemonReload)
  /\ NginxReload.kind = "nginxReload" /\ ~Optional(NginxReload)
  /\ TryNginxReload.kind = "nginxReload" /\ Optional(TryNginxReload)
  /\ ResetFailed.kind = "resetFailed" /\ Optional(ResetFailed)
  /\ RestartNginx.kind = "restartNginx" /\ ~Optional(RestartNginx)
  /\ InstallConfig.kind = "installConfig" /\ ~Optional(InstallConfig)
  /\ AwaitHealthy.kind = "awaitHealthy" /\ ~Optional(AwaitHealthy)
  /\ ValidateSh.kind = "validateSh" /\ ~Optional(ValidateSh)
BY DEF Put, Chmod, Unlink, Readdress, Edit, Repair, Restart, StartApp, DaemonReload,
   NginxReload, TryNginxReload, ResetFailed, RestartNginx, InstallConfig,
   AwaitHealthy, ValidateSh, Optional

\* What the operations that restore a file set.
LEMMA RestoreFacts ==
  /\ DOMAIN RestoreConfig.facts = {"config", "configMode"}
  /\ RestoreConfig.facts.config = CanonicalConfig /\ RestoreConfig.facts.configMode = TRUE
  /\ DOMAIN RestoreUnit.facts = {"unit"} /\ RestoreUnit.facts.unit = {}
  /\ DOMAIN RestoreNginx.facts = {"nginx"} /\ RestoreNginx.facts.nginx = {}
  /\ DOMAIN WriteChaos("none").facts = {"chaos"} /\ WriteChaos("none").facts.chaos = "none"
  /\ \A op \in {RestoreConfig, RestoreUnit, RestoreNginx, WriteChaos("none")} :
       op.kind = "put" /\ ~Optional(op)
BY DEF RestoreConfig, RestoreUnit, RestoreNginx, WriteChaos, Put, Optional

\* The entries of the catalog by name.
LEMMA CatalogOf ==
  /\ Catalog["F-001"] = FaultF001
  /\ Catalog["F-002"] = FaultF002
  /\ Catalog["F-003"] = FaultF003
  /\ Catalog["F-004"] = FaultF004
  /\ Catalog["F-005"] = FaultF005
  /\ Catalog["F-006"] = FaultF006
  /\ Catalog["F-007"] = FaultF007
  /\ Catalog["F-008"] = FaultF008
  /\ Catalog["F-009"] = FaultF009
  /\ Catalog["F-010"] = FaultF010
  /\ Catalog["F-013"] = FaultF013
  /\ Catalog["F-014"] = FaultF014
  /\ Catalog["F-015"] = FaultF015
  /\ Catalog["F-016"] = FaultF016
  /\ Catalog["F-017"] = FaultF017
  /\ Catalog["F-018"] = FaultF018
  /\ Catalog["F-019"] = FaultF019
  /\ Catalog["F-020"] = FaultF020
  /\ Catalog["F-021"] = FaultF021
BY DEF Catalog, FaultIds

\* The facts of the machine as installed.
LEMMA CanonicalFacts ==
  /\ Installed.config = CanonicalConfig /\ Installed.configMode = TRUE
  /\ Installed.unit = {} /\ Installed.loadedUnit = {}
  /\ Installed.nginx = {} /\ Installed.loadedNginx = {}
  /\ Installed.outside = {} /\ Installed.log = "kept" /\ DOMAIN Installed = Facts
  /\ Installed.chaos = "none" /\ Installed.volume = "free"
  /\ Installed.binaryMode = TRUE /\ Installed.stateMode = TRUE
  /\ Installed.emptyEnv = FALSE /\ Installed.dropRule = FALSE
BY DEF Installed, Facts

\* t differs from the canonical machine in the facts xs only.
OnlyIn(t, xs) == \A x \in Facts \ xs : t[x] = Installed[x]

\* What each fault changes, and that it changes nothing else.
LEMMA TraceOf ==
  /\ LET t == Trace("F-001") IN t.config = Absent /\ OnlyIn(t, {"config"})
  /\ LET t == Trace("F-002") IN t.config = <<Port9090, Loopback>> /\ OnlyIn(t, {"config"})
  /\ LET t == Trace("F-003") IN t.configMode = FALSE /\ OnlyIn(t, {"configMode"})
  /\ LET t == Trace("F-004") IN t.stateMode = FALSE /\ OnlyIn(t, {"stateMode"})
  /\ LET t == Trace("F-005") IN t.binaryMode = FALSE /\ OnlyIn(t, {"binaryMode"})
  /\ LET t == Trace("F-006")
     IN t.unit = {"noenv"} /\ t.loadedUnit = {"noenv"} /\ OnlyIn(t, {"unit", "loadedUnit"})
  /\ LET t == Trace("F-007")
     IN t.nginx = {"port9090"} /\ t.loadedNginx = {"port9090"}
     /\ OnlyIn(t, {"nginx", "loadedNginx"})
  /\ LET t == Trace("F-008") IN t.chaos = "nosigterm" /\ OnlyIn(t, {"chaos"})
  /\ LET t == Trace("F-009") IN t.log = "denied" /\ OnlyIn(t, {"log"})
  /\ LET t == Trace("F-010") IN t.log = "removed" /\ OnlyIn(t, {"log"})
  /\ LET t == Trace("F-013")
     IN t.unit = {"badexec"} /\ t.loadedUnit = {"badexec"} /\ OnlyIn(t, {"unit", "loadedUnit"})
  /\ LET t == Trace("F-014") IN t.chaos = "zombies" /\ OnlyIn(t, {"chaos"})
  /\ LET t == Trace("F-015") IN t.nginx = {"invalid"} /\ OnlyIn(t, {"nginx"})
  /\ LET t == Trace("F-016") IN t.config = <<Wildcard, Loopback>> /\ OnlyIn(t, {"config"})
  /\ LET t == Trace("F-017") IN t.emptyEnv = TRUE /\ OnlyIn(t, {"emptyEnv"})
  /\ LET t == Trace("F-018") IN t.volume = "inodes" /\ OnlyIn(t, {"volume"})
  /\ LET t == Trace("F-019") IN t.volume = "full" /\ OnlyIn(t, {"volume"})
  /\ LET t == Trace("F-020") IN t.chaos = "latency" /\ OnlyIn(t, {"chaos"})
  /\ LET t == Trace("F-021") IN t.dropRule = TRUE /\ OnlyIn(t, {"dropRule"})
  /\ Trace(NoneActive) = Installed
<1>1. LET t == Trace("F-001") IN t.config = Absent /\ OnlyIn(t, {"config"})
  <2>1. Trace("F-001") = [Installed EXCEPT !.config = Absent]
    BY DEF Trace
  <2> QED BY <2>1, Fields DEF Installed, Facts, OnlyIn
<1>2. LET t == Trace("F-002") IN t.config = <<Port9090, Loopback>> /\ OnlyIn(t, {"config"})
  <2>1. Trace("F-002") = [Installed EXCEPT !.config = <<Port9090, Loopback>>]
    BY DEF Trace
  <2> QED BY <2>1, Fields DEF Installed, Facts, OnlyIn
<1>3. LET t == Trace("F-003") IN t.configMode = FALSE /\ OnlyIn(t, {"configMode"})
  <2>1. Trace("F-003") = [Installed EXCEPT !.configMode = FALSE]
    BY DEF Trace
  <2> QED BY <2>1, Fields DEF Installed, Facts, OnlyIn
<1>4. LET t == Trace("F-004") IN t.stateMode = FALSE /\ OnlyIn(t, {"stateMode"})
  <2>1. Trace("F-004") = [Installed EXCEPT !.stateMode = FALSE]
    BY DEF Trace
  <2> QED BY <2>1, Fields DEF Installed, Facts, OnlyIn
<1>5. LET t == Trace("F-005") IN t.binaryMode = FALSE /\ OnlyIn(t, {"binaryMode"})
  <2>1. Trace("F-005") = [Installed EXCEPT !.binaryMode = FALSE]
    BY DEF Trace
  <2> QED BY <2>1, Fields DEF Installed, Facts, OnlyIn
<1>6. LET t == Trace("F-006")
      IN t.unit = {"noenv"} /\ t.loadedUnit = {"noenv"} /\ OnlyIn(t, {"unit", "loadedUnit"})
  <2>1. Trace("F-006") = [Installed EXCEPT !.unit = {"noenv"}, !.loadedUnit = {"noenv"}]
    BY DEF Trace
  <2> QED BY <2>1, Fields DEF Installed, Facts, OnlyIn
<1>7. LET t == Trace("F-007")
      IN t.nginx = {"port9090"} /\ t.loadedNginx = {"port9090"}
      /\ OnlyIn(t, {"nginx", "loadedNginx"})
  <2>1. Trace("F-007") = [Installed EXCEPT !.nginx = {"port9090"}, !.loadedNginx = {"port9090"}]
    BY DEF Trace
  <2> QED BY <2>1, Fields DEF Installed, Facts, OnlyIn
<1>8. LET t == Trace("F-008") IN t.chaos = "nosigterm" /\ OnlyIn(t, {"chaos"})
  <2>1. Trace("F-008") = [Installed EXCEPT !.chaos = "nosigterm"]
    BY DEF Trace
  <2> QED BY <2>1, Fields DEF Installed, Facts, OnlyIn
<1>9. LET t == Trace("F-009") IN t.log = "denied" /\ OnlyIn(t, {"log"})
  <2>1. Trace("F-009") = [Installed EXCEPT !.log = "denied"]
    BY DEF Trace
  <2> QED BY <2>1, Fields DEF Installed, Facts, OnlyIn
<1>10. LET t == Trace("F-010") IN t.log = "removed" /\ OnlyIn(t, {"log"})
  <2>1. Trace("F-010") = [Installed EXCEPT !.log = "removed"]
    BY DEF Trace
  <2> QED BY <2>1, Fields DEF Installed, Facts, OnlyIn
<1>11. LET t == Trace("F-013")
      IN t.unit = {"badexec"} /\ t.loadedUnit = {"badexec"} /\ OnlyIn(t, {"unit", "loadedUnit"})
  <2>1. Trace("F-013") = [Installed EXCEPT !.unit = {"badexec"}, !.loadedUnit = {"badexec"}]
    BY DEF Trace
  <2> QED BY <2>1, Fields DEF Installed, Facts, OnlyIn
<1>12. LET t == Trace("F-014") IN t.chaos = "zombies" /\ OnlyIn(t, {"chaos"})
  <2>1. Trace("F-014") = [Installed EXCEPT !.chaos = "zombies"]
    BY DEF Trace
  <2> QED BY <2>1, Fields DEF Installed, Facts, OnlyIn
<1>13. LET t == Trace("F-015") IN t.nginx = {"invalid"} /\ OnlyIn(t, {"nginx"})
  <2>1. Trace("F-015") = [Installed EXCEPT !.nginx = {"invalid"}]
    BY DEF Trace
  <2> QED BY <2>1, Fields DEF Installed, Facts, OnlyIn
<1>14. LET t == Trace("F-016") IN t.config = <<Wildcard, Loopback>> /\ OnlyIn(t, {"config"})
  <2>1. Trace("F-016") = [Installed EXCEPT !.config = <<Wildcard, Loopback>>]
    BY DEF Trace
  <2> QED BY <2>1, Fields DEF Installed, Facts, OnlyIn
<1>15. LET t == Trace("F-017") IN t.emptyEnv = TRUE /\ OnlyIn(t, {"emptyEnv"})
  <2>1. Trace("F-017") = [Installed EXCEPT !.emptyEnv = TRUE]
    BY DEF Trace
  <2> QED BY <2>1, Fields DEF Installed, Facts, OnlyIn
<1>16. LET t == Trace("F-018") IN t.volume = "inodes" /\ OnlyIn(t, {"volume"})
  <2>1. Trace("F-018") = [Installed EXCEPT !.volume = "inodes"]
    BY DEF Trace
  <2> QED BY <2>1, Fields DEF Installed, Facts, OnlyIn
<1>17. LET t == Trace("F-019") IN t.volume = "full" /\ OnlyIn(t, {"volume"})
  <2>1. Trace("F-019") = [Installed EXCEPT !.volume = "full"]
    BY DEF Trace
  <2> QED BY <2>1, Fields DEF Installed, Facts, OnlyIn
<1>18. LET t == Trace("F-020") IN t.chaos = "latency" /\ OnlyIn(t, {"chaos"})
  <2>1. Trace("F-020") = [Installed EXCEPT !.chaos = "latency"]
    BY DEF Trace
  <2> QED BY <2>1, Fields DEF Installed, Facts, OnlyIn
<1>19. LET t == Trace("F-021") IN t.dropRule = TRUE /\ OnlyIn(t, {"dropRule"})
  <2>1. Trace("F-021") = [Installed EXCEPT !.dropRule = TRUE]
    BY DEF Trace
  <2> QED BY <2>1, Fields DEF Installed, Facts, OnlyIn
<1>20. Trace(NoneActive) = Installed
  BY DEF Trace, NoneActive
<1> QED BY <1>1, <1>2, <1>3, <1>4, <1>5, <1>6, <1>7, <1>8, <1>9, <1>10, <1>11, <1>12, <1>13,
            <1>14, <1>15, <1>16, <1>17, <1>18, <1>19, <1>20

\* replaceInBytes edits the address in the comment.
LEMMA Readdressed ==
  ASSUME NEW a PROVE ReplaceFirstAddr(CanonicalConfig, a) = <<a, Loopback>>
BY DEF ReplaceFirstAddr, CanonicalConfig, SelectInSeq, ReplaceAt, Min, Loopback

\* An operation that sets some facts, alone or with the restart after it
Overlaid(op) == {<<op>>, <<op, Restart>>, <<op, ResetFailed, Restart>>}

\* Setting some facts is a plan for a target that differs in those facts only.
LEMMA OverlayPlan ==
  ASSUME NEW op, op.kind \in Overlays, ~Optional(op), NEW h, NEW t,
         \A x \in DOMAIN op.facts : x \in Facts /\ op.facts[x] = t[x],
         \A x \in Facts \ DOMAIN op.facts : Near(x, h, t)
  PROVE  \A ops \in Overlaid(op) : Pending(ops, h, t)
<1>1. Fits(op, t) /\ Fits(Restart, t) /\ Fits(ResetFailed, t)
  BY Constructors DEF Fits, Overlays, NginxLoads
<1>2. \A x \in DOMAIN op.facts : Brings(op, x, t)
  BY DEF Brings
<1>3. ASSUME NEW ops \in Overlaid(op)
      PROVE  Pending(ops, h, t)
  <2>1. 1 \in DOMAIN ops /\ ops[1] = op
    BY DEF Overlaid
  <2>2. \A i \in DOMAIN ops : ops[i] \in {op, Restart, ResetFailed}
    BY DEF Overlaid
  <2>3. \A i \in DOMAIN ops : ops[i].kind \in Overlays \cup {"restart", "resetFailed"}
    BY <2>2, Constructors
  <2>4. \A i \in DOMAIN ops : InOrder(ops, i, h, t)
    BY <2>3 DEF InOrder, Overlays, NginxLoads
  <2> QED BY <1>1, <1>2, <2>1, <2>2, <2>4 DEF Pending
<1> QED BY <1>3

\* A plan of one operation.
LEMMA ShortPlan ==
  ASSUME NEW op, NEW h, NEW t, Fits(op, t), InOrder(<<op>>, 1, h, t),
         \A x \in Facts : Near(x, h, t) \/ Brings(op, x, t)
  PROVE  Pending(<<op>>, h, t)
<1> DEFINE ops == <<op>>
<1>1. DOMAIN ops = {1} /\ ops[1] = op
  OBVIOUS
<1> HIDE DEF ops
<1>2. InOrder(ops, 1, h, t)
  BY DEF ops
<1>3. Pending(ops, h, t)
  BY <1>1, <1>2 DEF Pending
<1> QED BY <1>3 DEF ops

\* Editing the address,
LEMMA ReaddressPlan ==
  ASSUME NEW a, NEW h, \A x \in Facts : Near(x, h, Installed),
         NEW t, t.config = <<a, Loopback>>, OnlyIn(t, {"config"})
  PROVE  Pending(<<Readdress(a), Restart>>, h, t)
<1> DEFINE op == Readdress(a)
           ops == <<op, Restart>>
<1>1. op.kind = "readdress" /\ op.new = a /\ ~Optional(op)
  BY Constructors
<1> HIDE DEF op
<1>2. DOMAIN ops = {1, 2} /\ ops[1] = op /\ ops[2] = Restart
  OBVIOUS
<1> HIDE DEF ops
<1>3. t.configMode = TRUE /\ h.config = CanonicalConfig
  BY Fields, CanonicalFacts DEF OnlyIn, Near
<1>4. Fits(op, t)
  BY <1>1, <1>3, Readdressed DEF Fits, Overlays, NginxLoads
<1>5. Fits(Restart, t)
  BY Constructors DEF Fits, Overlays, NginxLoads
<1>6. \A i \in {1, 2} : InOrder(ops, i, h, t)
  BY <1>1, <1>2, <1>3, Constructors DEF InOrder, NginxLoads
<1>7. \A x \in Facts : Near(x, h, t) \/ Brings(op, x, t)
  BY <1>1 DEF OnlyIn, Near, Brings
<1>8. Pending(ops, h, t)
  BY <1>2, <1>4, <1>5, <1>6, <1>7 DEF Pending
<1> QED BY <1>8 DEF ops, op

\* the unit, which systemd then reads,
LEMMA EditUnitPlan ==
  ASSUME NEW e, NEW h, \A x \in Facts : Near(x, h, Installed),
         NEW t, t.unit = {e}, t.loadedUnit = {e}, OnlyIn(t, {"unit", "loadedUnit"}),
         NEW ops \in {<<Edit("unit", e), DaemonReload>>,
                      <<Edit("unit", e), DaemonReload, Restart>>}
  PROVE  Pending(ops, h, t)
<1> DEFINE op == Edit("unit", e)
<1>1. op.kind = "edit" /\ op.path = "unit" /\ op.edit = e /\ ~Optional(op)
  BY Constructors
<1> HIDE DEF op
<1>2. /\ {1, 2} \subseteq DOMAIN ops /\ DOMAIN ops \subseteq {1, 2, 3}
      /\ ops[1] = op /\ ops[2] = DaemonReload
      /\ 3 \in DOMAIN ops => ops[3] = Restart
  BY DEF op
<1>3. h.unit = {}
  BY Fields, CanonicalFacts DEF Near
<1>4. Fits(op, t)
  BY <1>1 DEF Fits, Overlays, NginxLoads
<1>5. Fits(DaemonReload, t)
  BY Constructors DEF Fits, Overlays, NginxLoads
<1>6. Fits(Restart, t)
  BY Constructors DEF Fits, Overlays, NginxLoads
<1>7. InOrder(ops, 1, h, t)
  BY <1>1, <1>2, <1>3 DEF InOrder, NginxLoads
<1>8. InOrder(ops, 2, h, t)
  <2>1. Brings(ops[1], "unit", t) /\ 1 \in 1..(2 - 1)
    BY <1>1, <1>2 DEF Brings
  <2>2. ops[2].kind = "daemonReload"
    BY <1>2, Constructors
  <2> QED BY <2>1, <2>2 DEF InOrder, NginxLoads
<1>9. 3 \in DOMAIN ops => InOrder(ops, 3, h, t)
  BY <1>2, Constructors DEF InOrder, NginxLoads
<1>10. Brings(op, "unit", t) /\ Brings(DaemonReload, "loadedUnit", t)
  BY <1>1, Constructors DEF Brings
<1>11. \A x \in Facts \ {"unit", "loadedUnit"} : Near(x, h, t)
  BY DEF OnlyIn, Near
<1> QED BY <1>2, <1>4, <1>5, <1>6, <1>7, <1>8, <1>9, <1>10, <1>11 DEF Pending

\* and the site, with a reload of nginx that may have to fail.
LEMMA EditNginxPlan ==
  ASSUME NEW e, NEW h, \A x \in Facts : Near(x, h, Installed),
         NEW t, t.nginx = {e}, NEW load, load.kind = "nginxReload", Fits(load, t),
         \A x \in Facts \ {"nginx"} : Near(x, h, t) \/ Brings(load, x, t)
  PROVE  Pending(<<Edit("nginx", e), load>>, h, t)
<1> DEFINE op == Edit("nginx", e)
           ops == <<op, load>>
<1>1. op.kind = "edit" /\ op.path = "nginx" /\ op.edit = e /\ ~Optional(op)
  BY Constructors
<1> HIDE DEF op
<1>2. DOMAIN ops = {1, 2} /\ ops[1] = op /\ ops[2] = load
  OBVIOUS
<1> HIDE DEF ops
<1>3. h.nginx = {}
  BY Fields, CanonicalFacts DEF Near
<1>4. Fits(op, t)
  BY <1>1 DEF Fits, Overlays, NginxLoads
<1>5. Brings(op, "nginx", t)
  BY <1>1 DEF Brings
<1>6. InOrder(ops, 1, h, t)
  BY <1>1, <1>2, <1>3 DEF InOrder, NginxLoads
<1>7. InOrder(ops, 2, h, t)
  <2>1. 1 \in 1..(2 - 1)
    OBVIOUS
  <2> QED BY <1>2, <1>5, <2>1 DEF InOrder
<1>8. Pending(ops, h, t)
  BY <1>2, <1>4, <1>5, <1>6, <1>7 DEF Pending
<1> QED BY <1>8 DEF ops, op

\* What is to be done to a canonical machine leaves the trace of the fault.
LEMMA ApplyPlan ==
  ASSUME NEW f \in FaultIds, NEW h, \A x \in Facts : Near(x, h, Installed)
  PROVE  Pending(Catalog[f].apply, h, Trace(f))
<1>1. Pending(FaultF001.apply, h, Trace("F-001"))
  <2> DEFINE t == Trace("F-001")
  <2>1. t.config = Absent /\ OnlyIn(t, {"config"})
    BY TraceOf
  <2> HIDE DEF t
  <2> DEFINE op == Unlink("config", Absent)
  <2>2. op.kind = "remove" /\ op.path = "config" /\ op.gone = Absent /\ ~Optional(op)
    BY Constructors
  <2> HIDE DEF op
  <2>3. Fits(op, t)
    BY <2>1, <2>2, Fields DEF Fits, Overlays, NginxLoads
  <2>4. InOrder(<<op>>, 1, h, t)
    BY <2>2 DEF InOrder, NginxLoads
  <2>5. \A x \in Facts : Near(x, h, t) \/ Brings(op, x, t)
    BY <2>1, <2>2 DEF OnlyIn, Near, Brings
  <2>6. Pending(<<op>>, h, t)
    BY <2>3, <2>4, <2>5, ShortPlan
  <2>7. Pending(<<Unlink("config", Absent)>>, h, t)
    BY <2>6 DEF op
  <2> QED BY <2>7 DEF FaultF001, t
<1>2. Pending(FaultF002.apply, h, Trace("F-002"))
  <2> DEFINE t == Trace("F-002")
  <2>1. t.config = <<Port9090, Loopback>> /\ OnlyIn(t, {"config"})
    BY TraceOf
  <2> HIDE DEF t
  <2>2. Pending(<<Readdress(Port9090), Restart>>, h, t)
    BY <2>1, ReaddressPlan
  <2> QED BY <2>2 DEF FaultF002, t
<1>3. Pending(FaultF003.apply, h, Trace("F-003"))
  <2> DEFINE t == Trace("F-003")
  <2>1. t.configMode = FALSE /\ OnlyIn(t, {"configMode"})
    BY TraceOf
  <2> HIDE DEF t
  <2> DEFINE op == Chmod("config", [configMode |-> FALSE])
  <2>2. FaultF003.apply \in Overlaid(op)
    BY DEF FaultF003, Overlaid
  <2>3. /\ op.kind \in Overlays /\ ~Optional(op)
        /\ DOMAIN op.facts = {"configMode"} /\ op.facts.configMode = FALSE
    BY DEF Overlays, Put, Chmod, Overfill, WriteChaos, Optional
  <2> HIDE DEF op
  <2>4. \A x \in DOMAIN op.facts : x \in Facts /\ op.facts[x] = t[x]
    BY <2>1, <2>3, Fields
  <2>5. \A x \in Facts \ DOMAIN op.facts : Near(x, h, t)
    BY <2>1, <2>3 DEF OnlyIn, Near
  <2>6. Pending(FaultF003.apply, h, t)
    BY <2>2, <2>3, <2>4, <2>5, OverlayPlan
  <2> QED BY <2>6 DEF t
<1>4. Pending(FaultF004.apply, h, Trace("F-004"))
  <2> DEFINE t == Trace("F-004")
  <2>1. t.stateMode = FALSE /\ OnlyIn(t, {"stateMode"})
    BY TraceOf
  <2> HIDE DEF t
  <2> DEFINE op == Chmod("state", [stateMode |-> FALSE])
  <2>2. FaultF004.apply \in Overlaid(op)
    BY DEF FaultF004, Overlaid
  <2>3. /\ op.kind \in Overlays /\ ~Optional(op)
        /\ DOMAIN op.facts = {"stateMode"} /\ op.facts.stateMode = FALSE
    BY DEF Overlays, Put, Chmod, Overfill, WriteChaos, Optional
  <2> HIDE DEF op
  <2>4. \A x \in DOMAIN op.facts : x \in Facts /\ op.facts[x] = t[x]
    BY <2>1, <2>3, Fields
  <2>5. \A x \in Facts \ DOMAIN op.facts : Near(x, h, t)
    BY <2>1, <2>3 DEF OnlyIn, Near
  <2>6. Pending(FaultF004.apply, h, t)
    BY <2>2, <2>3, <2>4, <2>5, OverlayPlan
  <2> QED BY <2>6 DEF t
<1>5. Pending(FaultF005.apply, h, Trace("F-005"))
  <2> DEFINE t == Trace("F-005")
  <2>1. t.binaryMode = FALSE /\ OnlyIn(t, {"binaryMode"})
    BY TraceOf
  <2> HIDE DEF t
  <2> DEFINE op == Chmod("binary", [binaryMode |-> FALSE])
  <2>2. FaultF005.apply \in Overlaid(op)
    BY DEF FaultF005, Overlaid
  <2>3. /\ op.kind \in Overlays /\ ~Optional(op)
        /\ DOMAIN op.facts = {"binaryMode"} /\ op.facts.binaryMode = FALSE
    BY DEF Overlays, Put, Chmod, Overfill, WriteChaos, Optional
  <2> HIDE DEF op
  <2>4. \A x \in DOMAIN op.facts : x \in Facts /\ op.facts[x] = t[x]
    BY <2>1, <2>3, Fields
  <2>5. \A x \in Facts \ DOMAIN op.facts : Near(x, h, t)
    BY <2>1, <2>3 DEF OnlyIn, Near
  <2>6. Pending(FaultF005.apply, h, t)
    BY <2>2, <2>3, <2>4, <2>5, OverlayPlan
  <2> QED BY <2>6 DEF t
<1>6. Pending(FaultF006.apply, h, Trace("F-006"))
  <2> DEFINE t == Trace("F-006")
  <2>1. t.unit = {"noenv"} /\ t.loadedUnit = {"noenv"} /\ OnlyIn(t, {"unit", "loadedUnit"})
    BY TraceOf
  <2> HIDE DEF t
  <2>2. Pending(<<Edit("unit", "noenv"), DaemonReload, Restart>>, h, t)
    BY <2>1, EditUnitPlan
  <2> QED BY <2>2 DEF FaultF006, t
<1>7. Pending(FaultF007.apply, h, Trace("F-007"))
  <2> DEFINE t == Trace("F-007")
  <2>1. t.nginx = {"port9090"} /\ t.loadedNginx = {"port9090"}
        /\ OnlyIn(t, {"nginx", "loadedNginx"})
    BY TraceOf
  <2> HIDE DEF t
  <2>2. /\ NginxReload.kind = "nginxReload" /\ Fits(NginxReload, t)
        /\ Brings(NginxReload, "loadedNginx", t)
    BY <2>1, Constructors DEF Fits, Brings, Overlays, NginxLoads, NginxTest
  <2>3. \A x \in Facts \ {"nginx"} : Near(x, h, t) \/ Brings(NginxReload, x, t)
    BY <2>1, <2>2 DEF OnlyIn, Near
  <2>4. Pending(<<Edit("nginx", "port9090"), NginxReload>>, h, t)
    BY <2>1, <2>2, <2>3, EditNginxPlan
  <2> QED BY <2>4 DEF FaultF007, t
<1>8. Pending(FaultF008.apply, h, Trace("F-008"))
  <2> DEFINE t == Trace("F-008")
  <2>1. t.chaos = "nosigterm" /\ OnlyIn(t, {"chaos"})
    BY TraceOf
  <2> HIDE DEF t
  <2> DEFINE op == WriteChaos("nosigterm")
  <2>2. FaultF008.apply \in Overlaid(op)
    BY DEF FaultF008, Overlaid
  <2>3. /\ op.kind \in Overlays /\ ~Optional(op)
        /\ DOMAIN op.facts = {"chaos"} /\ op.facts.chaos = "nosigterm"
    BY DEF Overlays, Put, Chmod, Overfill, WriteChaos, Optional
  <2> HIDE DEF op
  <2>4. \A x \in DOMAIN op.facts : x \in Facts /\ op.facts[x] = t[x]
    BY <2>1, <2>3, Fields
  <2>5. \A x \in Facts \ DOMAIN op.facts : Near(x, h, t)
    BY <2>1, <2>3 DEF OnlyIn, Near
  <2>6. Pending(FaultF008.apply, h, t)
    BY <2>2, <2>3, <2>4, <2>5, OverlayPlan
  <2> QED BY <2>6 DEF t
<1>9. Pending(FaultF009.apply, h, Trace("F-009"))
  <2> DEFINE t == Trace("F-009")
  <2>1. t.log = "denied" /\ OnlyIn(t, {"log"})
    BY TraceOf
  <2> HIDE DEF t
  <2> DEFINE op == Chmod("log", [log |-> "denied"])
  <2>2. FaultF009.apply \in Overlaid(op)
    BY DEF FaultF009, Overlaid
  <2>3. /\ op.kind \in Overlays /\ ~Optional(op)
        /\ DOMAIN op.facts = {"log"} /\ op.facts.log = "denied"
    BY DEF Overlays, Put, Chmod, Overfill, WriteChaos, Optional
  <2> HIDE DEF op
  <2>4. \A x \in DOMAIN op.facts : x \in Facts /\ op.facts[x] = t[x]
    BY <2>1, <2>3, Fields
  <2>5. \A x \in Facts \ DOMAIN op.facts : Near(x, h, t)
    BY <2>1, <2>3 DEF OnlyIn, Near
  <2>6. Pending(FaultF009.apply, h, t)
    BY <2>2, <2>3, <2>4, <2>5, OverlayPlan
  <2> QED BY <2>6 DEF t
<1>10. Pending(FaultF010.apply, h, Trace("F-010"))
  <2> DEFINE t == Trace("F-010")
  <2>1. t.log = "removed" /\ OnlyIn(t, {"log"})
    BY TraceOf
  <2> HIDE DEF t
  <2> DEFINE op == Unlink("log", "removed")
  <2>2. op.kind = "remove" /\ op.path = "log" /\ op.gone = "removed" /\ ~Optional(op)
    BY Constructors
  <2> HIDE DEF op
  <2>3. Fits(op, t)
    BY <2>1, <2>2, Fields DEF Fits, Overlays, NginxLoads
  <2>4. InOrder(<<op>>, 1, h, t)
    BY <2>2 DEF InOrder, NginxLoads
  <2>5. \A x \in Facts : Near(x, h, t) \/ Brings(op, x, t)
    BY <2>1, <2>2 DEF OnlyIn, Near, Brings
  <2>6. Pending(<<op>>, h, t)
    BY <2>3, <2>4, <2>5, ShortPlan
  <2>7. Pending(<<Unlink("log", "removed")>>, h, t)
    BY <2>6 DEF op
  <2> QED BY <2>7 DEF FaultF010, t
<1>11. Pending(FaultF013.apply, h, Trace("F-013"))
  <2> DEFINE t == Trace("F-013")
  <2>1. t.unit = {"badexec"} /\ t.loadedUnit = {"badexec"} /\ OnlyIn(t, {"unit", "loadedUnit"})
    BY TraceOf
  <2> HIDE DEF t
  <2>2. Pending(<<Edit("unit", "badexec"), DaemonReload>>, h, t)
    BY <2>1, EditUnitPlan
  <2> QED BY <2>2 DEF FaultF013, t
<1>12. Pending(FaultF014.apply, h, Trace("F-014"))
  <2> DEFINE t == Trace("F-014")
  <2>1. t.chaos = "zombies" /\ OnlyIn(t, {"chaos"})
    BY TraceOf
  <2> HIDE DEF t
  <2> DEFINE op == WriteChaos("zombies")
  <2>2. FaultF014.apply \in Overlaid(op)
    BY DEF FaultF014, Overlaid
  <2>3. /\ op.kind \in Overlays /\ ~Optional(op)
        /\ DOMAIN op.facts = {"chaos"} /\ op.facts.chaos = "zombies"
    BY DEF Overlays, Put, Chmod, Overfill, WriteChaos, Optional
  <2> HIDE DEF op
  <2>4. \A x \in DOMAIN op.facts : x \in Facts /\ op.facts[x] = t[x]
    BY <2>1, <2>3, Fields
  <2>5. \A x \in Facts \ DOMAIN op.facts : Near(x, h, t)
    BY <2>1, <2>3 DEF OnlyIn, Near
  <2>6. Pending(FaultF014.apply, h, t)
    BY <2>2, <2>3, <2>4, <2>5, OverlayPlan
  <2> QED BY <2>6 DEF t
<1>13. Pending(FaultF015.apply, h, Trace("F-015"))
  <2> DEFINE t == Trace("F-015")
  <2>1. t.nginx = {"invalid"} /\ OnlyIn(t, {"nginx"})
    BY TraceOf
  <2> HIDE DEF t
  <2>2. TryNginxReload.kind = "nginxReload" /\ Fits(TryNginxReload, t)
    BY <2>1, Constructors DEF Fits, Overlays, NginxLoads, NginxTest
  <2>3. \A x \in Facts \ {"nginx"} : Near(x, h, t)
    BY <2>1 DEF OnlyIn, Near
  <2>4. Pending(<<Edit("nginx", "invalid"), TryNginxReload>>, h, t)
    BY <2>1, <2>2, <2>3, EditNginxPlan
  <2> QED BY <2>4 DEF FaultF015, t
<1>14. Pending(FaultF016.apply, h, Trace("F-016"))
  <2> DEFINE t == Trace("F-016")
  <2>1. t.config = <<Wildcard, Loopback>> /\ OnlyIn(t, {"config"})
    BY TraceOf
  <2> HIDE DEF t
  <2>2. Pending(<<Readdress(Wildcard), Restart>>, h, t)
    BY <2>1, ReaddressPlan
  <2> QED BY <2>2 DEF FaultF016, t
<1>15. Pending(FaultF017.apply, h, Trace("F-017"))
  <2> DEFINE t == Trace("F-017")
  <2>1. t.emptyEnv = TRUE /\ OnlyIn(t, {"emptyEnv"})
    BY TraceOf
  <2> HIDE DEF t
  <2> DEFINE op == Put([emptyEnv |-> TRUE])
  <2>2. FaultF017.apply \in Overlaid(op)
    BY DEF FaultF017, Overlaid
  <2>3. /\ op.kind \in Overlays /\ ~Optional(op)
        /\ DOMAIN op.facts = {"emptyEnv"} /\ op.facts.emptyEnv = TRUE
    BY DEF Overlays, Put, Chmod, Overfill, WriteChaos, Optional
  <2> HIDE DEF op
  <2>4. \A x \in DOMAIN op.facts : x \in Facts /\ op.facts[x] = t[x]
    BY <2>1, <2>3, Fields
  <2>5. \A x \in Facts \ DOMAIN op.facts : Near(x, h, t)
    BY <2>1, <2>3 DEF OnlyIn, Near
  <2>6. Pending(FaultF017.apply, h, t)
    BY <2>2, <2>3, <2>4, <2>5, OverlayPlan
  <2> QED BY <2>6 DEF t
<1>16. Pending(FaultF018.apply, h, Trace("F-018"))
  <2> DEFINE t == Trace("F-018")
  <2>1. t.volume = "inodes" /\ OnlyIn(t, {"volume"})
    BY TraceOf
  <2> HIDE DEF t
  <2> DEFINE op == Overfill("inodes")
  <2>2. FaultF018.apply \in Overlaid(op)
    BY DEF FaultF018, Overlaid
  <2>3. /\ op.kind \in Overlays /\ ~Optional(op)
        /\ DOMAIN op.facts = {"volume"} /\ op.facts.volume = "inodes"
    BY DEF Overlays, Put, Chmod, Overfill, WriteChaos, Optional
  <2> HIDE DEF op
  <2>4. \A x \in DOMAIN op.facts : x \in Facts /\ op.facts[x] = t[x]
    BY <2>1, <2>3, Fields
  <2>5. \A x \in Facts \ DOMAIN op.facts : Near(x, h, t)
    BY <2>1, <2>3 DEF OnlyIn, Near
  <2>6. Pending(FaultF018.apply, h, t)
    BY <2>2, <2>3, <2>4, <2>5, OverlayPlan
  <2> QED BY <2>6 DEF t
<1>17. Pending(FaultF019.apply, h, Trace("F-019"))
  <2> DEFINE t == Trace("F-019")
  <2>1. t.volume = "full" /\ OnlyIn(t, {"volume"})
    BY TraceOf
  <2> HIDE DEF t
  <2> DEFINE op == Overfill("full")
  <2>2. FaultF019.apply \in Overlaid(op)
    BY DEF FaultF019, Overlaid
  <2>3. /\ op.kind \in Overlays /\ ~Optional(op)
        /\ DOMAIN op.facts = {"volume"} /\ op.facts.volume = "full"
    BY DEF Overlays, Put, Chmod, Overfill, WriteChaos, Optional
  <2> HIDE DEF op
  <2>4. \A x \in DOMAIN op.facts : x \in Facts /\ op.facts[x] = t[x]
    BY <2>1, <2>3, Fields
  <2>5. \A x \in Facts \ DOMAIN op.facts : Near(x, h, t)
    BY <2>1, <2>3 DEF OnlyIn, Near
  <2>6. Pending(FaultF019.apply, h, t)
    BY <2>2, <2>3, <2>4, <2>5, OverlayPlan
  <2> QED BY <2>6 DEF t
<1>18. Pending(FaultF020.apply, h, Trace("F-020"))
  <2> DEFINE t == Trace("F-020")
  <2>1. t.chaos = "latency" /\ OnlyIn(t, {"chaos"})
    BY TraceOf
  <2> HIDE DEF t
  <2> DEFINE op == WriteChaos("latency")
  <2>2. FaultF020.apply \in Overlaid(op)
    BY DEF FaultF020, Overlaid
  <2>3. /\ op.kind \in Overlays /\ ~Optional(op)
        /\ DOMAIN op.facts = {"chaos"} /\ op.facts.chaos = "latency"
    BY DEF Overlays, Put, Chmod, Overfill, WriteChaos, Optional
  <2> HIDE DEF op
  <2>4. \A x \in DOMAIN op.facts : x \in Facts /\ op.facts[x] = t[x]
    BY <2>1, <2>3, Fields
  <2>5. \A x \in Facts \ DOMAIN op.facts : Near(x, h, t)
    BY <2>1, <2>3 DEF OnlyIn, Near
  <2>6. Pending(FaultF020.apply, h, t)
    BY <2>2, <2>3, <2>4, <2>5, OverlayPlan
  <2> QED BY <2>6 DEF t
<1>19. Pending(FaultF021.apply, h, Trace("F-021"))
  <2> DEFINE t == Trace("F-021")
  <2>1. t.dropRule = TRUE /\ OnlyIn(t, {"dropRule"})
    BY TraceOf
  <2> HIDE DEF t
  <2> DEFINE op == Put([dropRule |-> TRUE])
  <2>2. FaultF021.apply \in Overlaid(op)
    BY DEF FaultF021, Overlaid
  <2>3. /\ op.kind \in Overlays /\ ~Optional(op)
        /\ DOMAIN op.facts = {"dropRule"} /\ op.facts.dropRule = TRUE
    BY DEF Overlays, Put, Chmod, Overfill, WriteChaos, Optional
  <2> HIDE DEF op
  <2>4. \A x \in DOMAIN op.facts : x \in Facts /\ op.facts[x] = t[x]
    BY <2>1, <2>3, Fields
  <2>5. \A x \in Facts \ DOMAIN op.facts : Near(x, h, t)
    BY <2>1, <2>3 DEF OnlyIn, Near
  <2>6. Pending(FaultF021.apply, h, t)
    BY <2>2, <2>3, <2>4, <2>5, OverlayPlan
  <2> QED BY <2>6 DEF t
<1> DEFINE P(g) == Pending(Catalog[g].apply, h, Trace(g))
<1>20. P("F-001") /\ P("F-002") /\ P("F-003") /\ P("F-004") /\ P("F-005") /\ P("F-006")
       /\ P("F-007") /\ P("F-008") /\ P("F-009") /\ P("F-010") /\ P("F-013") /\ P("F-014")
       /\ P("F-015") /\ P("F-016") /\ P("F-017") /\ P("F-018") /\ P("F-019") /\ P("F-020")
       /\ P("F-021")
  BY CatalogOf, <1>1, <1>2, <1>3, <1>4, <1>5, <1>6, <1>7, <1>8, <1>9, <1>10, <1>11, <1>12,
      <1>13, <1>14, <1>15, <1>16, <1>17, <1>18, <1>19
<1> HIDE DEF P
<1>21. P(f)
  BY <1>20 DEF FaultIds
<1> QED BY <1>21 DEF P

-----------------------------------------------------------------------------
\* Each fact is as installed or as the fault left it, and a log whose mode the
\* fault changed is not missing.
Between(h, f) ==
  /\ \A x \in Facts : Near(x, h, Installed) \/ h[x] = Trace(f)[x]
  /\ Trace(f).log = "denied" => h.log # "removed"

\* Restoring the unit, telling systemd and starting is a plan from either trace.
LEMMA UnitPlan ==
  ASSUME NEW h, \A x \in Facts \ {"unit", "loadedUnit"} : Near(x, h, Installed),
         NEW last \in {Restart, StartApp}
  PROVE  Pending(<<RestoreUnit, DaemonReload, last>>, h, Installed)
<1> DEFINE ops == <<RestoreUnit, DaemonReload, last>>
<1>1. Fits(RestoreUnit, Installed) /\ Brings(RestoreUnit, "unit", Installed)
  BY RestoreFacts, CanonicalFacts, Fields DEF Fits, Brings, Overlays, NginxLoads
<1>2. Fits(DaemonReload, Installed) /\ Brings(DaemonReload, "loadedUnit", Installed)
  BY Constructors, CanonicalFacts DEF Fits, Brings, Overlays, NginxLoads
<1>3. Fits(last, Installed)
  BY Constructors DEF Fits, Overlays, NginxLoads
<1>4. DOMAIN ops = 1..3 /\ ops[1] = RestoreUnit /\ ops[2] = DaemonReload /\ ops[3] = last
  OBVIOUS
<1> HIDE DEF ops
<1>5. /\ ops[1].kind = "put" /\ ops[2].kind = "daemonReload"
      /\ ops[3].kind \in {"restart", "start"}
  BY <1>4, Constructors, RestoreFacts
<1>6. InOrder(ops, 1, h, Installed) /\ InOrder(ops, 3, h, Installed)
  BY <1>5 DEF InOrder, NginxLoads
<1>7. InOrder(ops, 2, h, Installed)
  BY <1>1, <1>4, <1>5 DEF InOrder, NginxLoads
<1> QED BY <1>1, <1>2, <1>3, <1>4, <1>6, <1>7 DEF Pending, ops

\* So is restoring the nginx file and reloading nginx.
LEMMA NginxPlan ==
  ASSUME NEW h, \A x \in Facts \ {"nginx", "loadedNginx"} : Near(x, h, Installed)
  PROVE  Pending(<<RestoreNginx, NginxReload>>, h, Installed)
<1> DEFINE ops == <<RestoreNginx, NginxReload>>
<1>1. Fits(RestoreNginx, Installed) /\ Brings(RestoreNginx, "nginx", Installed)
  BY RestoreFacts, CanonicalFacts, Fields DEF Fits, Brings, Overlays, NginxLoads
<1>2. Fits(NginxReload, Installed) /\ Brings(NginxReload, "loadedNginx", Installed)
  BY Constructors, CanonicalFacts DEF Fits, Brings, Overlays, NginxLoads, NginxTest
<1>3. DOMAIN ops = 1..2 /\ ops[1] = RestoreNginx /\ ops[2] = NginxReload
  OBVIOUS
<1> HIDE DEF ops
<1>4. ops[1].kind = "put" /\ ops[2].kind = "nginxReload"
  BY <1>3, Constructors, RestoreFacts
<1>5. InOrder(ops, 1, h, Installed)
  BY <1>4 DEF InOrder, NginxLoads
<1>6. InOrder(ops, 2, h, Installed)
  BY <1>1, <1>3, <1>4 DEF InOrder, NginxLoads
<1> QED BY <1>1, <1>2, <1>3, <1>5, <1>6 DEF Pending, ops

\* Recover undoes what it finds of the fault, whatever part of it is left.
LEMMA RecoverPlan ==
  ASSUME NEW f \in FaultIds \ Irreversible, NEW h, Between(h, f)
  PROVE  Pending(Catalog[f].recover, h, Installed)
<1>1. ASSUME f = "F-001" PROVE Pending(FaultF001.recover, h, Installed)
  <2>1. \A x \in Facts \ {"config"} : Near(x, h, Installed)
    <3>1. OnlyIn(Trace(f), {"config"})
      BY <1>1, TraceOf
    <3> QED BY <3>1 DEF Between, OnlyIn, Near
  <2> DEFINE op == RestoreConfig
  <2>2. FaultF001.recover \in Overlaid(op)
    BY DEF FaultF001, Overlaid
  <2>3. /\ op.kind \in Overlays /\ ~Optional(op)
        /\ DOMAIN op.facts = {"config", "configMode"}
        /\ op.facts.config = CanonicalConfig /\ op.facts.configMode = TRUE
    BY DEF Overlays, Put, Chmod, WriteChaos, RestoreConfig, RestoreConfigMode, Optional
  <2> HIDE DEF op
  <2>4. \A x \in DOMAIN op.facts : x \in Facts /\ op.facts[x] = Installed[x]
    BY <2>3, Fields, CanonicalFacts
  <2>5. \A x \in Facts \ DOMAIN op.facts : Near(x, h, Installed)
    BY <2>1, <2>3
  <2> QED BY <2>2, <2>3, <2>4, <2>5, OverlayPlan
<1>2. ASSUME f = "F-002" PROVE Pending(FaultF002.recover, h, Installed)
  <2>1. \A x \in Facts \ {"config"} : Near(x, h, Installed)
    <3>1. OnlyIn(Trace(f), {"config"})
      BY <1>2, TraceOf
    <3> QED BY <3>1 DEF Between, OnlyIn, Near
  <2> DEFINE op == RestoreConfig
  <2>2. FaultF002.recover \in Overlaid(op)
    BY DEF FaultF002, Overlaid
  <2>3. /\ op.kind \in Overlays /\ ~Optional(op)
        /\ DOMAIN op.facts = {"config", "configMode"}
        /\ op.facts.config = CanonicalConfig /\ op.facts.configMode = TRUE
    BY DEF Overlays, Put, Chmod, WriteChaos, RestoreConfig, RestoreConfigMode, Optional
  <2> HIDE DEF op
  <2>4. \A x \in DOMAIN op.facts : x \in Facts /\ op.facts[x] = Installed[x]
    BY <2>3, Fields, CanonicalFacts
  <2>5. \A x \in Facts \ DOMAIN op.facts : Near(x, h, Installed)
    BY <2>1, <2>3
  <2> QED BY <2>2, <2>3, <2>4, <2>5, OverlayPlan
<1>3. ASSUME f = "F-003" PROVE Pending(FaultF003.recover, h, Installed)
  <2>1. \A x \in Facts \ {"configMode"} : Near(x, h, Installed)
    <3>1. OnlyIn(Trace(f), {"configMode"})
      BY <1>3, TraceOf
    <3> QED BY <3>1 DEF Between, OnlyIn, Near
  <2> DEFINE op == RestoreConfigMode
  <2>2. FaultF003.recover \in Overlaid(op)
    BY DEF FaultF003, Overlaid
  <2>3. /\ op.kind \in Overlays /\ ~Optional(op)
        /\ DOMAIN op.facts = {"configMode"}
        /\ op.facts.configMode = TRUE
    BY DEF Overlays, Put, Chmod, WriteChaos, RestoreConfig, RestoreConfigMode, Optional
  <2> HIDE DEF op
  <2>4. \A x \in DOMAIN op.facts : x \in Facts /\ op.facts[x] = Installed[x]
    BY <2>3, Fields, CanonicalFacts
  <2>5. \A x \in Facts \ DOMAIN op.facts : Near(x, h, Installed)
    BY <2>1, <2>3
  <2> QED BY <2>2, <2>3, <2>4, <2>5, OverlayPlan
<1>4. ASSUME f = "F-004" PROVE Pending(FaultF004.recover, h, Installed)
  <2>1. \A x \in Facts \ {"stateMode"} : Near(x, h, Installed)
    <3>1. OnlyIn(Trace(f), {"stateMode"})
      BY <1>4, TraceOf
    <3> QED BY <3>1 DEF Between, OnlyIn, Near
  <2> DEFINE op == Chmod("state", [stateMode |-> TRUE])
  <2>2. FaultF004.recover \in Overlaid(op)
    BY DEF FaultF004, Overlaid
  <2>3. /\ op.kind \in Overlays /\ ~Optional(op)
        /\ DOMAIN op.facts = {"stateMode"}
        /\ op.facts.stateMode = TRUE
    BY DEF Overlays, Put, Chmod, WriteChaos, RestoreConfig, RestoreConfigMode, Optional
  <2> HIDE DEF op
  <2>4. \A x \in DOMAIN op.facts : x \in Facts /\ op.facts[x] = Installed[x]
    BY <2>3, Fields, CanonicalFacts
  <2>5. \A x \in Facts \ DOMAIN op.facts : Near(x, h, Installed)
    BY <2>1, <2>3
  <2> QED BY <2>2, <2>3, <2>4, <2>5, OverlayPlan
<1>5. ASSUME f = "F-005" PROVE Pending(FaultF005.recover, h, Installed)
  <2>1. \A x \in Facts \ {"binaryMode"} : Near(x, h, Installed)
    <3>1. OnlyIn(Trace(f), {"binaryMode"})
      BY <1>5, TraceOf
    <3> QED BY <3>1 DEF Between, OnlyIn, Near
  <2> DEFINE op == Chmod("binary", [binaryMode |-> TRUE])
  <2>2. FaultF005.recover \in Overlaid(op)
    BY DEF FaultF005, Overlaid
  <2>3. /\ op.kind \in Overlays /\ ~Optional(op)
        /\ DOMAIN op.facts = {"binaryMode"}
        /\ op.facts.binaryMode = TRUE
    BY DEF Overlays, Put, Chmod, WriteChaos, RestoreConfig, RestoreConfigMode, Optional
  <2> HIDE DEF op
  <2>4. \A x \in DOMAIN op.facts : x \in Facts /\ op.facts[x] = Installed[x]
    BY <2>3, Fields, CanonicalFacts
  <2>5. \A x \in Facts \ DOMAIN op.facts : Near(x, h, Installed)
    BY <2>1, <2>3
  <2> QED BY <2>2, <2>3, <2>4, <2>5, OverlayPlan
<1>6. ASSUME f = "F-006" PROVE Pending(FaultF006.recover, h, Installed)
  <2>1. \A x \in Facts \ {"unit", "loadedUnit"} : Near(x, h, Installed)
    <3>1. OnlyIn(Trace(f), {"unit", "loadedUnit"})
      BY <1>6, TraceOf
    <3> QED BY <3>1 DEF Between, OnlyIn, Near
  <2>2. Pending(<<RestoreUnit, DaemonReload, Restart>>, h, Installed)
    BY <2>1, UnitPlan
  <2> QED BY <2>2 DEF FaultF006
<1>7. ASSUME f = "F-007" PROVE Pending(FaultF007.recover, h, Installed)
  <2>1. \A x \in Facts \ {"nginx", "loadedNginx"} : Near(x, h, Installed)
    <3>1. OnlyIn(Trace(f), {"nginx", "loadedNginx"})
      BY <1>7, TraceOf
    <3> QED BY <3>1 DEF Between, OnlyIn, Near
  <2>2. Pending(<<RestoreNginx, NginxReload>>, h, Installed)
    BY <2>1, NginxPlan
  <2> QED BY <2>2 DEF FaultF007
<1>8. ASSUME f = "F-009" PROVE Pending(FaultF009.recover, h, Installed)
  <2>1. \A x \in Facts \ {"log"} : Near(x, h, Installed)
    <3>1. OnlyIn(Trace(f), {"log"})
      BY <1>8, TraceOf
    <3> QED BY <3>1 DEF Between, OnlyIn, Near
  <2> DEFINE op == Chmod("log", [log |-> "kept"])
  <2>2. FaultF009.recover \in Overlaid(op)
    BY DEF FaultF009, Overlaid
  <2>3. /\ op.kind \in Overlays /\ ~Optional(op)
        /\ DOMAIN op.facts = {"log"}
        /\ op.facts.log = "kept"
    BY DEF Overlays, Put, Chmod, WriteChaos, RestoreConfig, RestoreConfigMode, Optional
  <2> HIDE DEF op
  <2>4. \A x \in DOMAIN op.facts : x \in Facts /\ op.facts[x] = Installed[x]
    BY <2>3, Fields, CanonicalFacts
  <2>5. \A x \in Facts \ DOMAIN op.facts : Near(x, h, Installed)
    BY <2>1, <2>3
  <2> QED BY <2>2, <2>3, <2>4, <2>5, OverlayPlan
<1>9. ASSUME f = "F-010" PROVE Pending(FaultF010.recover, h, Installed)
  <2>1. \A x \in Facts : Near(x, h, Installed)
    <3>1. OnlyIn(Trace(f), {"log"}) /\ Trace(f).log = "removed"
      BY <1>9, TraceOf
    <3> QED BY <3>1, CanonicalFacts DEF Between, OnlyIn, Near
  <2>2. Fits(Restart, Installed) /\ InOrder(<<Restart>>, 1, h, Installed)
    BY Constructors DEF Fits, InOrder, Overlays, NginxLoads
  <2>3. Pending(<<Restart>>, h, Installed)
    BY <2>1, <2>2, ShortPlan
  <2> QED BY <2>3 DEF FaultF010
<1>10. ASSUME f = "F-013" PROVE Pending(FaultF013.recover, h, Installed)
  <2>1. \A x \in Facts \ {"unit", "loadedUnit"} : Near(x, h, Installed)
    <3>1. OnlyIn(Trace(f), {"unit", "loadedUnit"})
      BY <1>10, TraceOf
    <3> QED BY <3>1 DEF Between, OnlyIn, Near
  <2>2. Pending(<<RestoreUnit, DaemonReload, StartApp>>, h, Installed)
    BY <2>1, UnitPlan
  <2> QED BY <2>2 DEF FaultF013
<1>11. ASSUME f = "F-015" PROVE Pending(FaultF015.recover, h, Installed)
  <2>1. \A x \in Facts \ {"nginx"} : Near(x, h, Installed)
    <3>1. OnlyIn(Trace(f), {"nginx"})
      BY <1>11, TraceOf
    <3> QED BY <3>1 DEF Between, OnlyIn, Near
  <2>2. Pending(<<RestoreNginx, NginxReload>>, h, Installed)
    BY <2>1, NginxPlan
  <2> QED BY <2>2 DEF FaultF015
<1>12. ASSUME f = "F-016" PROVE Pending(FaultF016.recover, h, Installed)
  <2>1. \A x \in Facts \ {"config"} : Near(x, h, Installed)
    <3>1. OnlyIn(Trace(f), {"config"})
      BY <1>12, TraceOf
    <3> QED BY <3>1 DEF Between, OnlyIn, Near
  <2> DEFINE op == RestoreConfig
  <2>2. FaultF016.recover \in Overlaid(op)
    BY DEF FaultF016, Overlaid
  <2>3. /\ op.kind \in Overlays /\ ~Optional(op)
        /\ DOMAIN op.facts = {"config", "configMode"}
        /\ op.facts.config = CanonicalConfig /\ op.facts.configMode = TRUE
    BY DEF Overlays, Put, Chmod, WriteChaos, RestoreConfig, RestoreConfigMode, Optional
  <2> HIDE DEF op
  <2>4. \A x \in DOMAIN op.facts : x \in Facts /\ op.facts[x] = Installed[x]
    BY <2>3, Fields, CanonicalFacts
  <2>5. \A x \in Facts \ DOMAIN op.facts : Near(x, h, Installed)
    BY <2>1, <2>3
  <2> QED BY <2>2, <2>3, <2>4, <2>5, OverlayPlan
<1>13. ASSUME f = "F-017" PROVE Pending(FaultF017.recover, h, Installed)
  <2>1. \A x \in Facts \ {"emptyEnv"} : Near(x, h, Installed)
    <3>1. OnlyIn(Trace(f), {"emptyEnv"})
      BY <1>13, TraceOf
    <3> QED BY <3>1 DEF Between, OnlyIn, Near
  <2> DEFINE op == Put([emptyEnv |-> FALSE])
  <2>2. FaultF017.recover \in Overlaid(op)
    BY DEF FaultF017, Overlaid
  <2>3. /\ op.kind \in Overlays /\ ~Optional(op)
        /\ DOMAIN op.facts = {"emptyEnv"}
        /\ op.facts.emptyEnv = FALSE
    BY DEF Overlays, Put, Chmod, WriteChaos, RestoreConfig, RestoreConfigMode, Optional
  <2> HIDE DEF op
  <2>4. \A x \in DOMAIN op.facts : x \in Facts /\ op.facts[x] = Installed[x]
    BY <2>3, Fields, CanonicalFacts
  <2>5. \A x \in Facts \ DOMAIN op.facts : Near(x, h, Installed)
    BY <2>1, <2>3
  <2> QED BY <2>2, <2>3, <2>4, <2>5, OverlayPlan
<1>14. ASSUME f = "F-018" PROVE Pending(FaultF018.recover, h, Installed)
  <2>1. \A x \in Facts \ {"volume"} : Near(x, h, Installed)
    <3>1. OnlyIn(Trace(f), {"volume"})
      BY <1>14, TraceOf
    <3> QED BY <3>1 DEF Between, OnlyIn, Near
  <2> DEFINE op == Put([volume |-> "free"])
  <2>2. FaultF018.recover \in Overlaid(op)
    BY DEF FaultF018, Overlaid
  <2>3. /\ op.kind \in Overlays /\ ~Optional(op)
        /\ DOMAIN op.facts = {"volume"}
        /\ op.facts.volume = "free"
    BY DEF Overlays, Put, Chmod, WriteChaos, RestoreConfig, RestoreConfigMode, Optional
  <2> HIDE DEF op
  <2>4. \A x \in DOMAIN op.facts : x \in Facts /\ op.facts[x] = Installed[x]
    BY <2>3, Fields, CanonicalFacts
  <2>5. \A x \in Facts \ DOMAIN op.facts : Near(x, h, Installed)
    BY <2>1, <2>3
  <2> QED BY <2>2, <2>3, <2>4, <2>5, OverlayPlan
<1>15. ASSUME f = "F-019" PROVE Pending(FaultF019.recover, h, Installed)
  <2>1. \A x \in Facts \ {"volume"} : Near(x, h, Installed)
    <3>1. OnlyIn(Trace(f), {"volume"})
      BY <1>15, TraceOf
    <3> QED BY <3>1 DEF Between, OnlyIn, Near
  <2> DEFINE op == Put([volume |-> "free"])
  <2>2. FaultF019.recover \in Overlaid(op)
    BY DEF FaultF019, Overlaid
  <2>3. /\ op.kind \in Overlays /\ ~Optional(op)
        /\ DOMAIN op.facts = {"volume"}
        /\ op.facts.volume = "free"
    BY DEF Overlays, Put, Chmod, WriteChaos, RestoreConfig, RestoreConfigMode, Optional
  <2> HIDE DEF op
  <2>4. \A x \in DOMAIN op.facts : x \in Facts /\ op.facts[x] = Installed[x]
    BY <2>3, Fields, CanonicalFacts
  <2>5. \A x \in Facts \ DOMAIN op.facts : Near(x, h, Installed)
    BY <2>1, <2>3
  <2> QED BY <2>2, <2>3, <2>4, <2>5, OverlayPlan
<1>16. ASSUME f = "F-020" PROVE Pending(FaultF020.recover, h, Installed)
  <2>1. \A x \in Facts \ {"chaos"} : Near(x, h, Installed)
    <3>1. OnlyIn(Trace(f), {"chaos"})
      BY <1>16, TraceOf
    <3> QED BY <3>1 DEF Between, OnlyIn, Near
  <2> DEFINE op == WriteChaos("none")
  <2>2. FaultF020.recover \in Overlaid(op)
    BY DEF FaultF020, Overlaid
  <2>3. /\ op.kind \in Overlays /\ ~Optional(op)
        /\ DOMAIN op.facts = {"chaos"}
        /\ op.facts.chaos = "none"
    BY DEF Overlays, Put, Chmod, WriteChaos, RestoreConfig, RestoreConfigMode, Optional
  <2> HIDE DEF op
  <2>4. \A x \in DOMAIN op.facts : x \in Facts /\ op.facts[x] = Installed[x]
    BY <2>3, Fields, CanonicalFacts
  <2>5. \A x \in Facts \ DOMAIN op.facts : Near(x, h, Installed)
    BY <2>1, <2>3
  <2> QED BY <2>2, <2>3, <2>4, <2>5, OverlayPlan
<1>17. ASSUME f = "F-021" PROVE Pending(FaultF021.recover, h, Installed)
  <2>1. \A x \in Facts \ {"dropRule"} : Near(x, h, Installed)
    <3>1. OnlyIn(Trace(f), {"dropRule"})
      BY <1>17, TraceOf
    <3> QED BY <3>1 DEF Between, OnlyIn, Near
  <2> DEFINE op == Put([dropRule |-> FALSE])
  <2>2. FaultF021.recover \in Overlaid(op)
    BY DEF FaultF021, Overlaid
  <2>3. /\ op.kind \in Overlays /\ ~Optional(op)
        /\ DOMAIN op.facts = {"dropRule"}
        /\ op.facts.dropRule = FALSE
    BY DEF Overlays, Put, Chmod, WriteChaos, RestoreConfig, RestoreConfigMode, Optional
  <2> HIDE DEF op
  <2>4. \A x \in DOMAIN op.facts : x \in Facts /\ op.facts[x] = Installed[x]
    BY <2>3, Fields, CanonicalFacts
  <2>5. \A x \in Facts \ DOMAIN op.facts : Near(x, h, Installed)
    BY <2>1, <2>3
  <2> QED BY <2>2, <2>3, <2>4, <2>5, OverlayPlan
<1> DEFINE P(g) == f = g => Pending(Catalog[g].recover, h, Installed)
<1>20. P("F-001") /\ P("F-002") /\ P("F-003") /\ P("F-004") /\ P("F-005") /\ P("F-006")
       /\ P("F-007") /\ P("F-009") /\ P("F-010") /\ P("F-013") /\ P("F-015") /\ P("F-016")
       /\ P("F-017") /\ P("F-018") /\ P("F-019") /\ P("F-020") /\ P("F-021")
  BY CatalogOf, <1>1, <1>2, <1>3, <1>4, <1>5, <1>6, <1>7, <1>8, <1>9, <1>10, <1>11, <1>12,
      <1>13, <1>14, <1>15, <1>16, <1>17
<1>21. (\A g \in FaultIds \ Irreversible : P(g)) => Pending(Catalog[f].recover, h, Installed)
  OBVIOUS
<1> HIDE DEF P
<1>22. \A g \in FaultIds \ Irreversible : P(g)
  BY <1>20 DEF FaultIds, Irreversible
<1> QED BY <1>21, <1>22

-----------------------------------------------------------------------------
(* Sequences of operations, and the tiers.                                  *)
IsSeq(ops) == ops \in Seq({ops[i] : i \in DOMAIN ops})

\* A sequence is one over its own elements.
LEMMA OwnSeq ==
  ASSUME NEW S, NEW ops \in Seq(S)
  PROVE  IsSeq(ops) /\ \A i \in DOMAIN ops : ops[i] \in S
BY DEF IsSeq

\* Its tail is made of its own elements.
LEMMA TailIsSeq ==
  ASSUME NEW ops, IsSeq(ops), ops # <<>>
  PROVE  /\ IsSeq(Tail(ops)) /\ Head(ops) = ops[1] /\ 1 \in DOMAIN ops
         /\ \A i \in DOMAIN Tail(ops) : \E j \in DOMAIN ops : Tail(ops)[i] = ops[j]
<1>1. /\ Head(ops) = ops[1] /\ 1 \in DOMAIN ops
      /\ \A i \in DOMAIN Tail(ops) : Tail(ops)[i] = ops[i + 1] /\ i + 1 \in DOMAIN ops
      /\ Tail(ops) \in Seq({ops[i] : i \in DOMAIN ops})
  BY DEF IsSeq
<1> QED BY <1>1, OwnSeq

\* Where the elements of a concatenation come from.
LEMMA Joined ==
  ASSUME NEW a, NEW b, IsSeq(a), IsSeq(b)
  PROVE  /\ IsSeq(a \o b)
         /\ \A i \in DOMAIN a : i \in DOMAIN (a \o b) /\ (a \o b)[i] = a[i]
         /\ \A i \in DOMAIN b : Len(a) + i \in DOMAIN (a \o b) /\ (a \o b)[Len(a) + i] = b[i]
         /\ \A i \in DOMAIN (a \o b) :
              (i \in DOMAIN a) \/ (i - Len(a) \in DOMAIN b /\ i > Len(a))
<1> DEFINE S == {a[i] : i \in DOMAIN a} \cup {b[i] : i \in DOMAIN b}
<1>1. a \in Seq(S) /\ b \in Seq(S)
  BY DEF IsSeq
<1>2. a \o b \in Seq(S)
  BY <1>1
<1>3. IsSeq(a \o b)
  BY <1>2, OwnSeq
<1> HIDE DEF S
<1> QED BY <1>1, <1>3

TierOperations ==
  {ResetFailed, Restart, NginxReload, RestoreConfig, RestoreUnit, RestoreNginx,
   RestoreBinary, RestoreConfigMode,
   RestoreState, DaemonReload, InstallConfig, WriteChaos("none"),
   Repair("certificate expired"), Repair("app disabled"), Repair("nginx disabled"),
   RestartNginx, AwaitHealthy, ValidateSh}

\* No tier does anything but restore what is installed.
LEMMA TiersFit ==
  ASSUME NEW op \in TierOperations
  PROVE  Fits(op, Installed) /\ op.kind \notin {"readdress", "edit"}
<1>1. CASE op \in {ResetFailed, Restart, NginxReload, DaemonReload, InstallConfig,
                   Repair("certificate expired"), Repair("app disabled"),
                   Repair("nginx disabled"), RestartNginx, AwaitHealthy, ValidateSh}
  <2> DEFINE kinds == {"restart", "nginxReload", "daemonReload", "installConfig",
                       "repair", "restartNginx", "awaitHealthy", "validateSh"}
  <2>1. ResetFailed.kind = "resetFailed"
    BY Constructors
  <2>2. \A d : Repair(d).kind \in kinds /\ ~Optional(Repair(d))
    BY Constructors
  <2>3. \A o \in {Restart, NginxReload, DaemonReload} : o.kind \in kinds /\ ~Optional(o)
    BY Constructors
  <2>4. \A o \in {InstallConfig, RestartNginx, AwaitHealthy, ValidateSh} :
          o.kind \in kinds /\ ~Optional(o)
    BY Constructors
  <2>5. op.kind = "resetFailed" \/ (op.kind \in kinds /\ ~Optional(op))
    BY <1>1, <2>1, <2>2, <2>3, <2>4
  <2> QED BY <2>5, CanonicalFacts DEF Fits, Overlays, NginxLoads
<1>2. CASE op \in {RestoreConfig, RestoreUnit, RestoreNginx, WriteChaos("none")}
  <2>1. op.kind = "put" /\ ~Optional(op)
    BY <1>2, RestoreFacts
  <2>2. \A x \in DOMAIN op.facts : x \in Facts /\ op.facts[x] = Installed[x]
    <3>1. \A x \in {"config", "configMode", "unit", "nginx", "chaos"} : x \in Facts
      BY Fields
    <3>2. \A x \in DOMAIN RestoreConfig.facts : RestoreConfig.facts[x] = Installed[x]
      BY RestoreFacts, CanonicalFacts
    <3>3. \A x \in DOMAIN RestoreUnit.facts : RestoreUnit.facts[x] = Installed[x]
      BY RestoreFacts, CanonicalFacts
    <3>4. \A x \in DOMAIN RestoreNginx.facts : RestoreNginx.facts[x] = Installed[x]
      BY RestoreFacts, CanonicalFacts
    <3>5. \A x \in DOMAIN WriteChaos("none").facts : WriteChaos("none").facts[x] = Installed[x]
      BY RestoreFacts, CanonicalFacts
    <3>6. DOMAIN op.facts \subseteq {"config", "configMode", "unit", "nginx", "chaos"}
      BY <1>2, RestoreFacts
    <3> QED BY <1>2, <3>1, <3>2, <3>3, <3>4, <3>5, <3>6
  <2> QED BY <2>1, <2>2 DEF Fits, Overlays, NginxLoads
<1>3. CASE op \in {RestoreBinary, RestoreState,
                   RestoreConfigMode}
  <2>1. op.kind \in Overlays /\ ~Optional(op)
    BY <1>3, Constructors DEF Overlays, RestoreBinary, RestoreState, RestoreConfigMode
  <2>2. ASSUME NEW x \in DOMAIN op.facts
        PROVE  x \in Facts /\ op.facts[x] = TRUE /\ Installed[x] = TRUE
    <3>1. op.facts \in {[binaryMode |-> TRUE], [stateMode |-> TRUE], [configMode |-> TRUE]}
      BY <1>3 DEF Put, Chmod, RestoreBinary, RestoreState, RestoreConfigMode
    <3> QED BY <3>1, CanonicalFacts, Fields
  <2> QED BY <2>1, <2>2 DEF Fits, Overlays, NginxLoads
<1> QED BY <1>1, <1>2, <1>3 DEF TierOperations

\* bootstrap.sh consists of operations of the tiers.
LEMMA BootstrapSeqs ==
  BootstrapFiles \in Seq(TierOperations) /\ BootstrapServices \in Seq(TierOperations)
BY DEF BootstrapFiles, BootstrapServices, TierOperations

\* A tier is a sequence of such operations.
LEMMA TierSeqs ==
  ASSUME NEW t
  PROVE  TierOps(t) \in Seq(TierOperations)
<1>1. TierR1 \in Seq(TierOperations) /\ TierR2 \in Seq(TierOperations)
  BY DEF TierR1, TierR2, TierOperations
<1>2. <<RestoreState, InstallConfig, WriteChaos("none")>> \in Seq(TierOperations)
  BY DEF TierOperations
<1>3. TierR3 \in Seq(TierOperations)
  BY <1>2, BootstrapSeqs DEF TierR3
<1> QED BY <1>1, <1>3 DEF TierOps

\* R3 writes chaos.env, which neither Recover of an irreversible fault does.
LEMMA R3WritesChaos ==
  \E i \in DOMAIN TierR3 : Brings(TierR3[i], "chaos", Installed)
<1> DEFINE head == <<RestoreState, InstallConfig, WriteChaos("none")>>
<1>1. IsSeq(head)
  BY DEF IsSeq
<1>2. IsSeq(BootstrapFiles) /\ IsSeq(BootstrapServices)
  BY BootstrapSeqs, OwnSeq
<1>3. IsSeq(head \o BootstrapFiles)
  BY <1>1, <1>2, Joined
<1>4. 3 \in DOMAIN head /\ head[3] = WriteChaos("none")
  OBVIOUS
<1>5. TierR3 = (head \o BootstrapFiles) \o BootstrapServices
  BY DEF TierR3
<1> HIDE DEF head
<1>6. 3 \in DOMAIN TierR3 /\ TierR3[3] = WriteChaos("none")
  <2>1. 3 \in DOMAIN (head \o BootstrapFiles) /\ (head \o BootstrapFiles)[3] = head[3]
    BY <1>1, <1>4, <1>2, Joined
  <2> QED BY <2>1, <1>4, <1>5, <1>2, <1>3, Joined
<1> QED BY <1>6, RestoreFacts DEF Brings, Overlays

\* What is appended may rely on what comes before it.
LEMMA AppendPlan ==
  ASSUME NEW a, NEW b, IsSeq(a), IsSeq(b), NEW h, NEW t,
         \A i \in DOMAIN a : Fits(a[i], t) /\ InOrder(a, i, h, t),
         \A i \in DOMAIN b : Fits(b[i], t) /\ b[i].kind \notin {"readdress", "edit"},
         \A x \in {"unit", "nginx"} : h[x] = t[x] \/ \E i \in DOMAIN a : Brings(a[i], x, t),
         \A x \in Facts : \/ Near(x, h, t)
                          \/ \E i \in DOMAIN a : Brings(a[i], x, t)
                          \/ \E i \in DOMAIN b : Brings(b[i], x, t)
  PROVE  Pending(a \o b, h, t)
<1> DEFINE c == a \o b
<1>1. /\ IsSeq(c)
      /\ \A i \in DOMAIN a : i \in DOMAIN c /\ c[i] = a[i]
      /\ \A i \in DOMAIN b : Len(a) + i \in DOMAIN c /\ c[Len(a) + i] = b[i]
      /\ \A i \in DOMAIN c : (i \in DOMAIN a) \/ (i - Len(a) \in DOMAIN b /\ i > Len(a))
  BY Joined
<1>2. DOMAIN a = 1..Len(a) /\ Len(a) \in Nat /\ DOMAIN b \subseteq Nat /\ DOMAIN c \subseteq Nat
  BY <1>1 DEF IsSeq
<1> HIDE DEF c
<1>3. \A x \in Facts : Near(x, h, t) \/ \E i \in DOMAIN c : Brings(c[i], x, t)
  BY <1>1
<1>4. ASSUME NEW i \in DOMAIN a
      PROVE  Fits(c[i], t) /\ InOrder(c, i, h, t)
  <2>1. c[i] = a[i] /\ \A j \in 1..(i - 1) : c[j] = a[j]
    BY <1>1, <1>2
  <2>2. InOrder(a, i, h, t)
    OBVIOUS
  <2> QED BY <2>1, <2>2 DEF InOrder
<1>5. ASSUME NEW i \in DOMAIN c, i > Len(a)
      PROVE  Fits(c[i], t) /\ InOrder(c, i, h, t)
  <2>1. i - Len(a) \in DOMAIN b /\ Len(a) + (i - Len(a)) = i /\ i \notin DOMAIN a
    BY <1>1, <1>2, <1>5
  <2>2. c[i] = b[i - Len(a)]
    BY <1>1, <2>1
  <2>3. \A j \in DOMAIN a : j \in 1..(i - 1) /\ c[j] = a[j]
    BY <1>1, <1>2, <1>5
  <2>4. \A x \in {"unit", "nginx"} :
          h[x] = t[x] \/ \E j \in 1..(i - 1) : Brings(c[j], x, t)
    BY <2>3
  <2> QED BY <2>1, <2>2, <2>4 DEF InOrder
<1>6. \A i \in DOMAIN c : i \in DOMAIN a \/ i > Len(a)
  BY <1>1
<1> QED BY <1>3, <1>4, <1>5, <1>6 DEF Pending, c

\* Apply and Recover are sequences.
LEMMA CatalogSeqs ==
  ASSUME NEW f \in FaultIds
  PROVE  IsSeq(Catalog[f].apply) /\ IsSeq(Catalog[f].recover)
<1> DEFINE P(g) == IsSeq(Catalog[g].apply) /\ IsSeq(Catalog[g].recover)
<1>1. IsSeq(FaultF001.apply) /\ IsSeq(FaultF001.recover)
  BY DEF FaultF001, IsSeq
<1>2. IsSeq(FaultF002.apply) /\ IsSeq(FaultF002.recover)
  BY DEF FaultF002, IsSeq
<1>3. IsSeq(FaultF003.apply) /\ IsSeq(FaultF003.recover)
  BY DEF FaultF003, IsSeq
<1>4. IsSeq(FaultF004.apply) /\ IsSeq(FaultF004.recover)
  BY DEF FaultF004, IsSeq
<1>5. IsSeq(FaultF005.apply) /\ IsSeq(FaultF005.recover)
  BY DEF FaultF005, IsSeq
<1>6. IsSeq(FaultF006.apply) /\ IsSeq(FaultF006.recover)
  BY DEF FaultF006, IsSeq
<1>7. IsSeq(FaultF007.apply) /\ IsSeq(FaultF007.recover)
  BY DEF FaultF007, IsSeq
<1>8. IsSeq(FaultF008.apply) /\ IsSeq(FaultF008.recover)
  BY DEF FaultF008, IsSeq
<1>9. IsSeq(FaultF009.apply) /\ IsSeq(FaultF009.recover)
  BY DEF FaultF009, IsSeq
<1>10. IsSeq(FaultF010.apply) /\ IsSeq(FaultF010.recover)
  BY DEF FaultF010, IsSeq
<1>11. IsSeq(FaultF013.apply) /\ IsSeq(FaultF013.recover)
  BY DEF FaultF013, IsSeq
<1>12. IsSeq(FaultF014.apply) /\ IsSeq(FaultF014.recover)
  BY DEF FaultF014, IsSeq
<1>13. IsSeq(FaultF015.apply) /\ IsSeq(FaultF015.recover)
  BY DEF FaultF015, IsSeq
<1>14. IsSeq(FaultF016.apply) /\ IsSeq(FaultF016.recover)
  BY DEF FaultF016, IsSeq
<1>15. IsSeq(FaultF017.apply) /\ IsSeq(FaultF017.recover)
  BY DEF FaultF017, IsSeq
<1>16. IsSeq(FaultF018.apply) /\ IsSeq(FaultF018.recover)
  BY DEF FaultF018, IsSeq
<1>17. IsSeq(FaultF019.apply) /\ IsSeq(FaultF019.recover)
  BY DEF FaultF019, IsSeq
<1>18. IsSeq(FaultF020.apply) /\ IsSeq(FaultF020.recover)
  BY DEF FaultF020, IsSeq
<1>19. IsSeq(FaultF021.apply) /\ IsSeq(FaultF021.recover)
  BY DEF FaultF021, IsSeq
<1>20. P("F-001") /\ P("F-002") /\ P("F-003") /\ P("F-004") /\ P("F-005") /\ P("F-006")
       /\ P("F-007") /\ P("F-008") /\ P("F-009") /\ P("F-010") /\ P("F-013") /\ P("F-014")
       /\ P("F-015") /\ P("F-016") /\ P("F-017") /\ P("F-018") /\ P("F-019") /\ P("F-020")
       /\ P("F-021")
  BY CatalogOf, <1>1, <1>2, <1>3, <1>4, <1>5, <1>6, <1>7, <1>8, <1>9, <1>10, <1>11, <1>12,
      <1>13, <1>14, <1>15, <1>16, <1>17, <1>18, <1>19
<1> HIDE DEF P
<1>21. P(f)
  BY <1>20 DEF FaultIds
<1> QED BY <1>21 DEF P

\* A reset does nothing but restore what is installed.
LEMMA ResetFits ==
  ASSUME NEW f \in FaultIds \cup {NoneActive}, NEW t
  PROVE  /\ IsSeq(ResetOps(f, t))
         /\ \A i \in DOMAIN ResetOps(f, t) : Fits(ResetOps(f, t)[i], Installed)
<1> DEFINE a == IF f = NoneActive \/ f \in Irreversible THEN <<>> ELSE Catalog[f].recover
           b == TierOps(t)
<1>1. ResetOps(f, t) = a \o b
  BY DEF ResetOps
<1>2. Between(Installed, f)
  BY CanonicalFacts DEF Between, Near
<1>3. IsSeq(a) /\ \A i \in DOMAIN a : Fits(a[i], Installed)
  <2>1. CASE f = NoneActive \/ f \in Irreversible
    BY <2>1 DEF IsSeq
  <2>2. CASE f \in FaultIds \ Irreversible /\ f # NoneActive
    BY <1>2, <2>2, RecoverPlan, CatalogSeqs DEF Pending
  <2> QED BY <2>1, <2>2
<1>4. IsSeq(b) /\ \A i \in DOMAIN b : Fits(b[i], Installed)
  BY TierSeqs, OwnSeq, TiersFit
<1> HIDE DEF a, b
<1>5. ASSUME NEW i \in DOMAIN (a \o b)
      PROVE  \/ i \in DOMAIN a /\ (a \o b)[i] = a[i]
             \/ i - Len(a) \in DOMAIN b /\ (a \o b)[i] = b[i - Len(a)]
  <2>1. (i \in DOMAIN a) \/ (i - Len(a) \in DOMAIN b /\ i > Len(a))
    BY <1>3, <1>4, Joined
  <2>2. i \in Nat /\ Len(a) \in Nat
    BY <1>3, <1>4, Joined DEF IsSeq
  <2>3. CASE i - Len(a) \in DOMAIN b
    <3>1. Len(a) + (i - Len(a)) = i
      BY <2>2
    <3> QED BY <3>1, <2>3, <1>3, <1>4, Joined
  <2> QED BY <2>1, <2>3, <1>3, <1>4, Joined
<1> QED BY <1>1, <1>3, <1>4, <1>5, Joined

\* Whatever part of the recorded fault is left, a reset that is deep enough
\* for it has an operation for it, and in an order that works.
LEMMA ResetPlan ==
  ASSUME NEW f \in FaultIds \cup {NoneActive}, NEW t, f \in Irreversible => t = "R3",
         NEW h, Between(h, f)
  PROVE  Pending(ResetOps(f, t), h, Installed)
<1> DEFINE a == IF f = NoneActive \/ f \in Irreversible THEN <<>> ELSE Catalog[f].recover
           b == TierOps(t)
<1>1. ResetOps(f, t) = a \o b
  BY DEF ResetOps
<1>2. IsSeq(b) /\ \A i \in DOMAIN b : Fits(b[i], Installed)
      /\ b[i].kind \notin {"readdress", "edit"}
  BY TierSeqs, OwnSeq, TiersFit
<1> HIDE DEF b
<1>3. CASE f \in FaultIds \ Irreversible /\ f # NoneActive
  <2>1. IsSeq(a) /\ Pending(a, h, Installed)
    BY <1>3, RecoverPlan, CatalogSeqs
  <2> HIDE DEF a
  <2>2. \A x \in {"unit", "nginx"} :
          h[x] = Installed[x] \/ \E i \in DOMAIN a : Brings(a[i], x, Installed)
    BY <2>1, Fields DEF Pending, Near
  <2> QED BY <1>1, <1>2, <2>1, <2>2, AppendPlan DEF Pending
<1>4. CASE f = NoneActive
  <2>1. \A x \in Facts : Near(x, h, Installed)
    BY <1>4, TraceOf DEF Between, Near
  <2>2. \A x \in {"unit", "nginx"} : h[x] = Installed[x]
    BY <2>1, Fields DEF Near
  <2>3. IsSeq(a) /\ DOMAIN a = {}
    BY <1>4 DEF IsSeq
  <2> HIDE DEF a
  <2> QED BY <1>1, <1>2, <2>1, <2>2, <2>3, AppendPlan
<1>5. CASE f \in Irreversible
  <2>1. OnlyIn(Trace(f), {"chaos"})
    BY <1>5, TraceOf DEF Irreversible
  <2>2. \A x \in Facts \ {"chaos"} : Near(x, h, Installed)
    BY <2>1 DEF Between, OnlyIn, Near
  <2>3. \A x \in {"unit", "nginx"} : h[x] = Installed[x]
    BY <2>2, Fields DEF Near
  <2>4. IsSeq(a) /\ DOMAIN a = {}
    BY <1>5 DEF IsSeq
  <2>5. \E i \in DOMAIN b : Brings(b[i], "chaos", Installed)
    BY <1>5, R3WritesChaos DEF b, TierOps
  <2> HIDE DEF a
  <2> QED BY <1>1, <1>2, <2>2, <2>3, <2>4, <2>5, AppendPlan
<1> QED BY <1>3, <1>4, <1>5

-----------------------------------------------------------------------------
(* Types.                                                                   *)
Typed(t) == \A x \in Facts : t[x] \in Values[x]

\* The values of each field.
LEMMA ValuesOf ==
  /\ Values.config = {Absent} \cup (Addresses \X Addresses)
  /\ Values.configMode = BOOLEAN /\ Values.binaryMode = BOOLEAN
  /\ Values.stateMode = BOOLEAN /\ Values.emptyEnv = BOOLEAN
  /\ Values.dropRule = BOOLEAN
  /\ Values.volume = {"free", "inodes", "full"}
  /\ Values.log = {"kept", "denied", "removed"}
  /\ Values.unit = SUBSET {"noenv", "badexec"}
  /\ Values.loadedUnit = SUBSET {"noenv", "badexec"}
  /\ Values.nginx = SUBSET {"port9090", "invalid"}
  /\ Values.loadedNginx = SUBSET {"port9090", "invalid"}
  /\ Values.chaos = {"none", "nosigterm", "zombies", "latency"}
  /\ Values.outside = SUBSET Outside
  /\ Values.proc = {"starting", "up", "retrying", "failed"}
  /\ Values.addr = Addresses \cup {"none"}
  /\ Values.deaf = BOOLEAN /\ Values.limited = BOOLEAN
BY DEF Values

\* The installed machine has them,
LEMMA InstalledTyped == Typed(Installed)
<1>1. CanonicalConfig \in Values.config
  BY ValuesOf DEF CanonicalConfig, Addresses
<1>2. \A x \in {"configMode", "binaryMode", "stateMode", "emptyEnv", "dropRule"} :
        Values[x] = BOOLEAN
  BY ValuesOf
<1>3. \A x \in {"configMode", "binaryMode", "stateMode", "emptyEnv", "dropRule"} :
        Installed[x] \in {TRUE, FALSE}
  BY CanonicalFacts
<1>4. \A x \in {"volume", "log", "unit", "loadedUnit", "nginx", "loadedNginx", "chaos",
                "outside"} : Installed[x] \in Values[x]
  BY ValuesOf, CanonicalFacts
<1> QED BY <1>1, <1>2, <1>3, <1>4, CanonicalFacts, Fields DEF Typed

\* and so has the machine with the trace of a fault,
LEMMA TraceTyped ==
  ASSUME NEW f \in FaultIds \cup {NoneActive}
  PROVE  Typed(Trace(f))
<1> DEFINE P(g) == Typed(Trace(g))
<1>1. P("F-001")
  <2> DEFINE t == Trace("F-001")
  <2>1. t.config = Absent /\ OnlyIn(t, {"config"})
    BY TraceOf
  <2> HIDE DEF t
  <2>2. t.config \in Values.config
    BY <2>1, ValuesOf DEF Addresses
  <2>3. Typed(t)
    BY <2>1, <2>2, InstalledTyped DEF Typed, OnlyIn
  <2> QED BY <2>3 DEF t
<1>2. P("F-002")
  <2> DEFINE t == Trace("F-002")
  <2>1. t.config = <<Port9090, Loopback>> /\ OnlyIn(t, {"config"})
    BY TraceOf
  <2> HIDE DEF t
  <2>2. t.config \in Values.config
    BY <2>1, ValuesOf DEF Addresses
  <2>3. Typed(t)
    BY <2>1, <2>2, InstalledTyped DEF Typed, OnlyIn
  <2> QED BY <2>3 DEF t
<1>3. P("F-003")
  <2> DEFINE t == Trace("F-003")
  <2>1. t.configMode = FALSE /\ OnlyIn(t, {"configMode"})
    BY TraceOf
  <2> HIDE DEF t
  <2>2. t.configMode \in Values.configMode
    BY <2>1, ValuesOf DEF Addresses
  <2>3. Typed(t)
    BY <2>1, <2>2, InstalledTyped DEF Typed, OnlyIn
  <2> QED BY <2>3 DEF t
<1>4. P("F-004")
  <2> DEFINE t == Trace("F-004")
  <2>1. t.stateMode = FALSE /\ OnlyIn(t, {"stateMode"})
    BY TraceOf
  <2> HIDE DEF t
  <2>2. t.stateMode \in Values.stateMode
    BY <2>1, ValuesOf DEF Addresses
  <2>3. Typed(t)
    BY <2>1, <2>2, InstalledTyped DEF Typed, OnlyIn
  <2> QED BY <2>3 DEF t
<1>5. P("F-005")
  <2> DEFINE t == Trace("F-005")
  <2>1. t.binaryMode = FALSE /\ OnlyIn(t, {"binaryMode"})
    BY TraceOf
  <2> HIDE DEF t
  <2>2. t.binaryMode \in Values.binaryMode
    BY <2>1, ValuesOf DEF Addresses
  <2>3. Typed(t)
    BY <2>1, <2>2, InstalledTyped DEF Typed, OnlyIn
  <2> QED BY <2>3 DEF t
<1>6. P("F-006")
  <2> DEFINE t == Trace("F-006")
  <2>1. t.unit = {"noenv"} /\ t.loadedUnit = {"noenv"} /\ OnlyIn(t, {"unit", "loadedUnit"})
    BY TraceOf
  <2> HIDE DEF t
  <2>2. t.unit \in Values.unit /\ t.loadedUnit \in Values.loadedUnit
    BY <2>1, ValuesOf DEF Addresses
  <2>3. Typed(t)
    BY <2>1, <2>2, InstalledTyped DEF Typed, OnlyIn
  <2> QED BY <2>3 DEF t
<1>7. P("F-007")
  <2> DEFINE t == Trace("F-007")
  <2>1. t.nginx = {"port9090"} /\ t.loadedNginx = {"port9090"}
        /\ OnlyIn(t, {"nginx", "loadedNginx"})
    BY TraceOf
  <2> HIDE DEF t
  <2>2. t.nginx \in Values.nginx /\ t.loadedNginx \in Values.loadedNginx
    BY <2>1, ValuesOf DEF Addresses
  <2>3. Typed(t)
    BY <2>1, <2>2, InstalledTyped DEF Typed, OnlyIn
  <2> QED BY <2>3 DEF t
<1>8. P("F-008")
  <2> DEFINE t == Trace("F-008")
  <2>1. t.chaos = "nosigterm" /\ OnlyIn(t, {"chaos"})
    BY TraceOf
  <2> HIDE DEF t
  <2>2. t.chaos \in Values.chaos
    BY <2>1, ValuesOf DEF Addresses
  <2>3. Typed(t)
    BY <2>1, <2>2, InstalledTyped DEF Typed, OnlyIn
  <2> QED BY <2>3 DEF t
<1>9. P("F-009")
  <2> DEFINE t == Trace("F-009")
  <2>1. t.log = "denied" /\ OnlyIn(t, {"log"})
    BY TraceOf
  <2> HIDE DEF t
  <2>2. t.log \in Values.log
    BY <2>1, ValuesOf DEF Addresses
  <2>3. Typed(t)
    BY <2>1, <2>2, InstalledTyped DEF Typed, OnlyIn
  <2> QED BY <2>3 DEF t
<1>10. P("F-010")
  <2> DEFINE t == Trace("F-010")
  <2>1. t.log = "removed" /\ OnlyIn(t, {"log"})
    BY TraceOf
  <2> HIDE DEF t
  <2>2. t.log \in Values.log
    BY <2>1, ValuesOf DEF Addresses
  <2>3. Typed(t)
    BY <2>1, <2>2, InstalledTyped DEF Typed, OnlyIn
  <2> QED BY <2>3 DEF t
<1>11. P("F-013")
  <2> DEFINE t == Trace("F-013")
  <2>1. t.unit = {"badexec"} /\ t.loadedUnit = {"badexec"} /\ OnlyIn(t, {"unit", "loadedUnit"})
    BY TraceOf
  <2> HIDE DEF t
  <2>2. t.unit \in Values.unit /\ t.loadedUnit \in Values.loadedUnit
    BY <2>1, ValuesOf DEF Addresses
  <2>3. Typed(t)
    BY <2>1, <2>2, InstalledTyped DEF Typed, OnlyIn
  <2> QED BY <2>3 DEF t
<1>12. P("F-014")
  <2> DEFINE t == Trace("F-014")
  <2>1. t.chaos = "zombies" /\ OnlyIn(t, {"chaos"})
    BY TraceOf
  <2> HIDE DEF t
  <2>2. t.chaos \in Values.chaos
    BY <2>1, ValuesOf DEF Addresses
  <2>3. Typed(t)
    BY <2>1, <2>2, InstalledTyped DEF Typed, OnlyIn
  <2> QED BY <2>3 DEF t
<1>13. P("F-015")
  <2> DEFINE t == Trace("F-015")
  <2>1. t.nginx = {"invalid"} /\ OnlyIn(t, {"nginx"})
    BY TraceOf
  <2> HIDE DEF t
  <2>2. t.nginx \in Values.nginx
    BY <2>1, ValuesOf DEF Addresses
  <2>3. Typed(t)
    BY <2>1, <2>2, InstalledTyped DEF Typed, OnlyIn
  <2> QED BY <2>3 DEF t
<1>14. P("F-016")
  <2> DEFINE t == Trace("F-016")
  <2>1. t.config = <<Wildcard, Loopback>> /\ OnlyIn(t, {"config"})
    BY TraceOf
  <2> HIDE DEF t
  <2>2. t.config \in Values.config
    BY <2>1, ValuesOf DEF Addresses
  <2>3. Typed(t)
    BY <2>1, <2>2, InstalledTyped DEF Typed, OnlyIn
  <2> QED BY <2>3 DEF t
<1>15. P("F-017")
  <2> DEFINE t == Trace("F-017")
  <2>1. t.emptyEnv = TRUE /\ OnlyIn(t, {"emptyEnv"})
    BY TraceOf
  <2> HIDE DEF t
  <2>2. t.emptyEnv \in Values.emptyEnv
    BY <2>1, ValuesOf DEF Addresses
  <2>3. Typed(t)
    BY <2>1, <2>2, InstalledTyped DEF Typed, OnlyIn
  <2> QED BY <2>3 DEF t
<1>16. P("F-018")
  <2> DEFINE t == Trace("F-018")
  <2>1. t.volume = "inodes" /\ OnlyIn(t, {"volume"})
    BY TraceOf
  <2> HIDE DEF t
  <2>2. t.volume \in Values.volume
    BY <2>1, ValuesOf DEF Addresses
  <2>3. Typed(t)
    BY <2>1, <2>2, InstalledTyped DEF Typed, OnlyIn
  <2> QED BY <2>3 DEF t
<1>17. P("F-019")
  <2> DEFINE t == Trace("F-019")
  <2>1. t.volume = "full" /\ OnlyIn(t, {"volume"})
    BY TraceOf
  <2> HIDE DEF t
  <2>2. t.volume \in Values.volume
    BY <2>1, ValuesOf DEF Addresses
  <2>3. Typed(t)
    BY <2>1, <2>2, InstalledTyped DEF Typed, OnlyIn
  <2> QED BY <2>3 DEF t
<1>18. P("F-020")
  <2> DEFINE t == Trace("F-020")
  <2>1. t.chaos = "latency" /\ OnlyIn(t, {"chaos"})
    BY TraceOf
  <2> HIDE DEF t
  <2>2. t.chaos \in Values.chaos
    BY <2>1, ValuesOf DEF Addresses
  <2>3. Typed(t)
    BY <2>1, <2>2, InstalledTyped DEF Typed, OnlyIn
  <2> QED BY <2>3 DEF t
<1>19. P("F-021")
  <2> DEFINE t == Trace("F-021")
  <2>1. t.dropRule = TRUE /\ OnlyIn(t, {"dropRule"})
    BY TraceOf
  <2> HIDE DEF t
  <2>2. t.dropRule \in Values.dropRule
    BY <2>1, ValuesOf DEF Addresses
  <2>3. Typed(t)
    BY <2>1, <2>2, InstalledTyped DEF Typed, OnlyIn
  <2> QED BY <2>3 DEF t
<1>20. P(NoneActive)
  BY InstalledTyped, TraceOf
<1> HIDE DEF P
<1>21. P(f)
  BY <1>1, <1>2, <1>3, <1>4, <1>5, <1>6, <1>7, <1>8, <1>9, <1>10, <1>11, <1>12, <1>13, <1>14,
      <1>15, <1>16, <1>17, <1>18, <1>19, <1>20 DEF FaultIds
<1> QED BY <1>21 DEF P

\* a machine whose process changes its state,
LEMMA BecomeTyped ==
  ASSUME NEW h, HostType(h), NEW proc \in Values.proc, proc # "up"
  PROVE  HostType(Become(h, proc))
BY ValuesOf, Fields DEF HostType, Become, Addresses, Loopback, Wildcard, Port9090

\* one with other facts,
LEMMA FactsTyped ==
  ASSUME NEW h, HostType(h), NEW g, DOMAIN g = DOMAIN h,
         \A x \in Facts : g[x] \in Values[x],
         \A x \in {"proc", "addr", "deaf"} : g[x] = h[x], g.limited \in BOOLEAN
  PROVE  HostType(g)
<1>1. \A x \in DOMAIN Values : g[x] \in Values[x]
  BY Fields, ValuesOf DEF HostType
<1> QED BY <1>1 DEF HostType

\* one whose start limit is hit or passes,
LEMMA LimitedTyped ==
  ASSUME NEW h, HostType(h), NEW limited \in BOOLEAN
  PROVE  HostType([h EXCEPT !.limited = limited])
<1> DEFINE g == [h EXCEPT !.limited = limited]
<1>1. DOMAIN h = Facts \cup {"proc", "addr", "deaf", "limited"} /\ "limited" \notin Facts
  BY Fields DEF HostType
<1>2. DOMAIN g = DOMAIN h /\ g.limited \in BOOLEAN
  BY <1>1
<1>3. \A x \in Facts : g[x] = h[x] /\ h[x] \in Values[x]
  BY <1>1 DEF HostType
<1>4. \A x \in {"proc", "addr", "deaf"} : g[x] = h[x]
  BY <1>1
<1> HIDE DEF g
<1>5. HostType(g)
  BY <1>2, <1>3, <1>4, FactsTyped
<1> QED BY <1>5 DEF g

\* and one to which an operation of the catalog is done.
LEMMA EffectTyped ==
  ASSUME NEW h, HostType(h), NEW t, Typed(t), NEW op, Fits(op, t)
  PROVE  HostType(Effect(op, h))
<1> USE DEF Fits, Overlays, NginxLoads, Typed
<1> DEFINE g == Effect(op, h)
<1>0. /\ DOMAIN h = Facts \cup {"proc", "addr", "deaf", "limited"}
      /\ \A x \in Facts : h[x] \in Values[x]
      /\ h.limited \in BOOLEAN
      /\ {"proc", "addr", "deaf", "limited"} \cap Facts = {}
  BY Fields, ValuesOf DEF HostType
<1>1. CASE op.kind \in Overlays
  <2>1. g = With(h, op.facts)
    BY <1>1 DEF Effect
  <2>2. /\ DOMAIN g = DOMAIN h /\ \A x \in Facts : g[x] \in Values[x]
        /\ \A x \in {"proc", "addr", "deaf", "limited"} : g[x] = h[x]
    BY <1>0, <1>1, <2>1 DEF With
  <2> QED BY <1>0, <2>2, FactsTyped
<1>2. CASE op.kind = "remove"
  <2>1. g = [h EXCEPT ![op.path] = op.gone] /\ op.path \in Facts /\ op.gone = t[op.path]
    BY <1>2 DEF Effect
  <2>2. /\ DOMAIN g = DOMAIN h /\ \A x \in Facts : g[x] \in Values[x]
        /\ \A x \in {"proc", "addr", "deaf", "limited"} : g[x] = h[x]
    BY <1>0, <2>1
  <2> QED BY <1>0, <2>2, FactsTyped
<1>3. CASE op.kind = "readdress"
  <2>1. g = [h EXCEPT !.config = ReplaceFirstAddr(h.config, op.new), !.configMode = TRUE]
    BY <1>3 DEF Effect
  <2>2. op.new \in Addresses
    <3>1. <<op.new, Loopback>> \in Values.config
      BY <1>3, Readdressed, Fields
    <3> QED BY <3>1, ValuesOf DEF Absent
  <2>3. ReplaceFirstAddr(h.config, op.new) \in Values.config
    <3>0. Values.config = {Absent} \cup (Addresses \X Addresses)
      BY ValuesOf
    <3>1. h.config \in Values.config
      BY <1>0, Fields
    <3>2. CASE h.config = Absent
      BY <3>0, <3>2 DEF ReplaceFirstAddr, SelectInSeq, Absent
    <3>3. CASE h.config \in Addresses \X Addresses
      <4>1. \A i \in {1, 2} : ReplaceAt(h.config, i, op.new) \in Addresses \X Addresses
        BY <2>2, <3>3 DEF ReplaceAt
      <4>2. SelectInSeq(h.config, LAMBDA a : a = Loopback) \in {0, 1, 2}
        BY <3>3 DEF SelectInSeq, Min
      <4> QED BY <3>0, <3>3, <4>1, <4>2 DEF ReplaceFirstAddr
    <3> QED BY <3>0, <3>1, <3>2, <3>3
  <2>4. /\ DOMAIN g = DOMAIN h /\ \A x \in Facts : g[x] \in Values[x]
        /\ \A x \in {"proc", "addr", "deaf", "limited"} : g[x] = h[x]
    <3>1. TRUE \in Values.configMode /\ {"config", "configMode"} \subseteq Facts
      BY ValuesOf, Fields
    <3> QED BY <1>0, <2>1, <2>3, <3>1
  <2> QED BY <1>0, <2>4, FactsTyped
<1>4. CASE op.kind = "edit"
  <2>1. /\ g = [h EXCEPT ![op.path] = h[op.path] \cup {op.edit}]
        /\ op.path \in {"unit", "nginx"} /\ {op.edit} \in Values[op.path]
    BY <1>4, Fields DEF Effect
  <2>2. h[op.path] \cup {op.edit} \in Values[op.path]
    BY <1>0, <2>1, ValuesOf, Fields
  <2>3. /\ DOMAIN g = DOMAIN h /\ \A x \in Facts : g[x] \in Values[x]
        /\ \A x \in {"proc", "addr", "deaf", "limited"} : g[x] = h[x]
    BY <1>0, <2>1, <2>2, Fields
  <2> QED BY <1>0, <2>3, FactsTyped
<1>5. CASE op.kind = "installConfig"
  <2>1. g = IF h.config = Absent THEN With(h, RestoreConfig.facts) ELSE h
    BY <1>5 DEF Effect
  <2>2. \A x \in DOMAIN RestoreConfig.facts : x \in Facts /\ RestoreConfig.facts[x] \in Values[x]
    <3>1. CanonicalConfig \in Values.config /\ TRUE \in Values.configMode
      BY ValuesOf DEF CanonicalConfig, Addresses
    <3>2. {"config", "configMode"} \subseteq Facts
      BY Fields
    <3>3. /\ DOMAIN RestoreConfig.facts = {"config", "configMode"}
          /\ RestoreConfig.facts.config = CanonicalConfig
          /\ RestoreConfig.facts.configMode = TRUE
      BY RestoreFacts
    <3> QED BY <3>1, <3>2, <3>3
  <2>3. LET k == With(h, RestoreConfig.facts)
        IN /\ DOMAIN k = DOMAIN h /\ \A x \in Facts : k[x] \in Values[x]
           /\ \A x \in {"proc", "addr", "deaf", "limited"} : k[x] = h[x]
    BY <1>0, <2>2 DEF With
  <2> QED BY <1>0, <2>1, <2>3, FactsTyped
<1>6. CASE op.kind \in {"restart", "start"}
  <2>1. g \in {h, Become(h, "starting")}
    BY <1>6 DEF Effect
  <2> QED BY <2>1, BecomeTyped, ValuesOf
<1>7. CASE op.kind = "resetFailed"
  BY <1>0, <1>7, FactsTyped, Fields DEF Effect
<1>8. CASE op.kind \in {"daemonReload", "nginxReload", "restartNginx", "repair"}
  <2>1. /\ DOMAIN g = DOMAIN h
        /\ \A x \in {"proc", "addr", "deaf", "limited"} : g[x] = h[x]
    BY <1>0, <1>8, Fields DEF Effect
  <2>2. h.outside \ {"nginx down"} \in Values.outside /\ h.outside \ {op.drift} \in Values.outside
    BY <1>0, ValuesOf, Fields
  <2>3. Values.loadedUnit = Values.unit /\ Values.loadedNginx = Values.nginx
    BY ValuesOf
  <2>4. \A x \in Facts : g[x] \in Values[x]
    <3>1. {"unit", "loadedUnit", "nginx", "loadedNginx", "outside"} \subseteq Facts
      BY Fields
    <3>2. CASE op.kind = "daemonReload"
      BY <1>0, <2>3, <3>1, <3>2 DEF Effect
    <3>3. CASE op.kind = "nginxReload"
      BY <1>0, <2>3, <3>1, <3>3 DEF Effect
    <3>4. CASE op.kind = "restartNginx"
      <4>1. g = [h EXCEPT !.loadedNginx = h.nginx, !.outside = h.outside \ {"nginx down"}]
        BY <3>4 DEF Effect
      <4> HIDE DEF g
      <4> QED BY <1>0, <2>2, <2>3, <3>1, <4>1
    <3>5. CASE op.kind = "repair"
      BY <1>0, <2>2, <3>1, <3>5 DEF Effect
    <3> QED BY <1>8, <3>2, <3>3, <3>4, <3>5
  <2> QED BY <1>0, <2>1, <2>4, FactsTyped
<1>9. CASE op.kind \notin Overlays \cup NginxLoads \cup
        {"remove", "readdress", "edit", "installConfig", "restart", "start",
         "daemonReload", "resetFailed", "repair"}
  BY <1>9 DEF Effect
<1> QED BY <1>1, <1>2, <1>3, <1>4, <1>5, <1>6, <1>7, <1>8, <1>9

\* What the command under way is to leave
Target == IF cmd.kind = "apply" THEN Trace(cmd.fault) ELSE Installed

\* Apply of these two fails for lack of space, so neither is ever recorded.
NeverApplied == {"F-018", "F-019"}

\* Whatever has happened, a command only ever does what its target asks for.
CommandInv ==
  /\ IsSeq(todo)
  /\ \A i \in DOMAIN todo : Fits(todo[i], Target)
  /\ cmd.kind = "apply" => cmd.fault # NoneActive
  /\ (cmd.kind = "apply" /\ cmd.fault \in NeverApplied) =>
       todo # <<>> /\ Head(todo).kind = "overfill"
  /\ record.fault \notin NeverApplied

\* The target of a command has the type of a machine.
LEMMA TargetTyped ==
  ASSUME TypeOK PROVE Typed(Target)
BY TraceTyped, InstalledTyped, FaultsAssumption DEF TypeOK, Target

\* A service that comes up listens at an address of its configuration.
LEMMA ComeUpTyped ==
  ASSUME NEW h, HostType(h), Startable(h) PROVE HostType(ComeUp(h))
<1>1. h.config[2] \in Addresses
  BY Fields, ValuesOf DEF HostType, Startable
<1> DEFINE g == ComeUp(h)
<1>2. /\ DOMAIN g = DOMAIN h
      /\ g.addr = h.config[2] /\ g.log = "kept" /\ g.proc = "up"
      /\ g.deaf = (h.chaos = "nosigterm")
      /\ \A x \in DOMAIN h \ {"addr", "log", "proc", "deaf"} : g[x] = h[x]
  BY Fields DEF HostType, ComeUp, Become
<1> HIDE DEF g
<1>3. g.deaf \in BOOLEAN
  BY <1>2
<1>4. \A x \in {"addr", "log", "proc", "deaf"} : g[x] \in Values[x]
  <2>1. g.addr \in Values.addr /\ g.log \in Values.log /\ g.proc \in Values.proc
    BY <1>1, <1>2, ValuesOf
  <2>2. g.deaf \in Values.deaf
    BY <1>3, ValuesOf
  <2> QED BY <2>1, <2>2
<1>5. "none" \notin Addresses
  BY DEF Addresses, Loopback, Wildcard, Port9090
<1> QED BY <1>1, <1>2, <1>4, <1>5 DEF HostType, g

\* The two hold initially.
LEMMA InitTyped == Init => TypeOK /\ CommandInv
<1> SUFFICES ASSUME Init PROVE TypeOK /\ CommandInv
  OBVIOUS
<1>1. /\ DOMAIN Serving = {"proc", "addr", "deaf", "limited"}
      /\ Serving.proc = "up" /\ Serving.addr = Loopback
      /\ Serving.deaf = FALSE /\ Serving.limited = FALSE
  BY DEF Serving
<1>2. /\ DOMAIN host = DOMAIN Values
      /\ \A x \in Facts : host[x] = Installed[x]
      /\ \A x \in DOMAIN Serving : host[x] = Serving[x]
  BY <1>1, Fields, CanonicalFacts DEF Init
<1>3. \A x \in DOMAIN Serving : Serving[x] \in Values[x]
  BY <1>1, ValuesOf DEF Addresses
<1>4. HostType(host)
  <2>1. \A x \in DOMAIN Values : host[x] \in Values[x]
    BY <1>1, <1>2, <1>3, InstalledTyped, Fields DEF Typed
  <2> QED BY <1>1, <1>2, <2>1 DEF HostType, Loopback
<1>5. TypeOK
  BY <1>4, MaxTroubleAssumption DEF Init, NoCmd, TypeOK, Idle
<1> QED BY <1>5 DEF Init, NoCmd, CommandInv, IsSeq, NeverApplied, NoneActive

\* One operation is carried out or skipped, or the command gives up.
LEMMA AdvanceTyped ==
  ASSUME TypeOK, CommandInv, todo # <<>>, record' = record,
         trouble' \in 0..MaxTrouble, host' \in {host, Effect(Head(todo), host)},
         \/ todo' = Tail(todo) /\ cmd' = cmd /\ Head(todo).kind # "overfill"
         \/ todo' = <<>> /\ cmd' = NoCmd
  PROVE  TypeOK' /\ CommandInv'
<1>1. IsSeq(Tail(todo)) /\ Head(todo) = todo[1] /\ 1 \in DOMAIN todo
  BY TailIsSeq DEF CommandInv
<1>2. Fits(Head(todo), Target)
  BY <1>1 DEF CommandInv
<1>3. HostType(host')
  BY <1>2, TargetTyped, EffectTyped DEF TypeOK
<1>4. CASE todo' = Tail(todo) /\ cmd' = cmd /\ Head(todo).kind # "overfill"
  <2>1. \A i \in DOMAIN todo' : Fits(todo'[i], Target)
    BY <1>4, TailIsSeq DEF CommandInv
  <2>2. Target' = Target
    BY <1>4 DEF Target
  <2>3. Idle' => todo' = <<>>
    BY <1>4 DEF TypeOK, Idle
  <2> QED BY <1>1, <1>3, <1>4, <2>1, <2>2, <2>3 DEF TypeOK, CommandInv
<1>5. CASE todo' = <<>> /\ cmd' = NoCmd
  BY <1>3, <1>5 DEF TypeOK, CommandInv, NoCmd, Idle, IsSeq, NoneActive
<1> QED BY <1>4, <1>5

\* A failed operation is skipped if it is optional, and ends the command if not.
LEMMA GiveUpSkips ==
  ASSUME CommandInv, todo # <<>>, GiveUpOn(Head(todo))
  PROVE  \/ /\ todo' = Tail(todo) /\ cmd' = cmd /\ dirt' = dirt
            /\ Head(todo).kind # "overfill" /\ Optional(Head(todo))
         \/ todo' = <<>> /\ cmd' = NoCmd /\ dirt' = dirt \cup {Failed[cmd.kind]}
<1>1. Fits(Head(todo), Target)
  BY TailIsSeq DEF CommandInv
<1> QED BY <1>1 DEF GiveUpOn, Fits

\* Every step preserves them.
LEMMA NextTyped ==
  ASSUME TypeOK, CommandInv, [Next]_vars
  PROVE  TypeOK' /\ CommandInv'
<1>0. trouble \in 0..MaxTrouble /\ (Worry => trouble' \in 0..MaxTrouble)
  BY MaxTroubleAssumption DEF TypeOK, Worry
<1>1. ASSUME NEW f \in Faults, BeginApply(f), trouble' \in 0..MaxTrouble
      PROVE  TypeOK' /\ CommandInv'
  <2>1. f \in FaultIds /\ f # NoneActive
    BY FaultsAssumption DEF FaultIds, NoneActive
  <2>2. IsSeq(todo') /\ \A i \in DOMAIN todo' : Fits(todo'[i], Trace(f))
    <3>1. \A x \in Facts : Near(x, Installed, Installed)
      BY DEF Near
    <3> QED BY <1>1, <2>1, <3>1, CatalogSeqs, ApplyPlan DEF BeginApply, Pending
  <2>3. cmd' = [kind |-> "apply", fault |-> f] /\ host' = host /\ record' = record
    BY <1>1 DEF BeginApply
  <2>4. f \in NeverApplied => todo' # <<>> /\ Head(todo').kind = "overfill"
    <3>1. Catalog["F-018"].apply = <<Overfill("inodes")>>
          /\ Catalog["F-019"].apply = <<Overfill("full")>>
      BY CatalogOf DEF FaultF018, FaultF019
    <3>2. Overfill("inodes").kind = "overfill" /\ Overfill("full").kind = "overfill"
      BY DEF Overfill
    <3>3. todo' = Catalog[f].apply
      BY <1>1 DEF BeginApply
    <3> QED BY <3>1, <3>2, <3>3 DEF NeverApplied
  <2>5. TypeOK'
    BY <1>1, <2>3 DEF TypeOK, Idle
  <2> QED BY <2>1, <2>2, <2>3, <2>4, <2>5 DEF CommandInv, Target
<1>2. ASSUME NEW t \in Tiers, Reset(t)
      PROVE  TypeOK' /\ CommandInv'
  <2>1. record.fault \in FaultIds \cup {NoneActive}
    BY FaultsAssumption DEF TypeOK
  <2>2. IsSeq(todo') /\ \A i \in DOMAIN todo' : Fits(todo'[i], Installed)
    BY <1>2, <2>1, ResetFits DEF Reset
  <2>3. /\ cmd' = [kind |-> "reset", fault |-> record.fault]
        /\ UNCHANGED <<host, record, trouble>>
    BY <1>2 DEF Reset
  <2>4. TypeOK'
    BY <2>3 DEF TypeOK, Idle
  <2> QED BY <2>2, <2>3, <2>4 DEF CommandInv, Target
<1>3. CASE StepDone
  BY <1>0, <1>3, AdvanceTyped DEF StepDone, Succeeds
<1>4. CASE StepImpossible
  <2>1. GiveUpOn(Head(todo)) /\ todo # <<>> /\ host' \in {host, Effect(Head(todo), host)}
    BY <1>4 DEF StepImpossible
  <2> QED BY <1>0, <1>4, <2>1, GiveUpSkips, AdvanceTyped DEF StepImpossible
<1>5. CASE StepTimesOut
  BY <1>0, <1>5, GiveUpSkips, AdvanceTyped DEF StepTimesOut
<1>6. CASE StepFails
  BY <1>0, <1>6, GiveUpSkips, AdvanceTyped DEF StepFails
<1>7. CASE Applied
  <2>1. cmd.fault \notin NeverApplied /\ cmd.fault # NoneActive
    BY <1>7 DEF Applied, CommandInv
  <2> QED BY <1>7, <2>1 DEF Applied, TypeOK, CommandInv, NoCmd, Idle, IsSeq, NoneActive
<1>8. CASE Restored
  BY <1>8 DEF Restored, TypeOK, CommandInv, NoCmd, Idle, IsSeq, NoneActive, NeverApplied
<1>9. CASE Status
  <2>1. record'.fault = record.fault /\ record'.state \in {"CONFORMANT", "DEGRADED", "BROKEN"}
    BY <1>9 DEF Status, TypeOK
  <2> QED BY <1>9, <2>1 DEF Status, TypeOK, CommandInv, Target, Idle
<1>10. ASSUME HostType(host'), UNCHANGED <<record, cmd, todo>>, trouble' \in 0..MaxTrouble
       PROVE  TypeOK' /\ CommandInv'
  BY <1>10 DEF TypeOK, CommandInv, Target, Idle
<1>11. ASSUME World PROVE HostType(host')
  <2>0. HostType(host) /\ {"starting", "retrying", "failed"} \subseteq Values.proc \ {"up"}
    BY ValuesOf DEF TypeOK
  <2>1. CASE Ready
    BY <2>0, <2>1, ComeUpTyped DEF Ready
  <2>2. CASE AppExits \/ Retry
    BY <2>0, <2>2, BecomeTyped DEF AppExits, Retry
  <2>3. CASE HitStartLimit
    <3>1. HostType([host EXCEPT !.limited = TRUE])
      BY <2>0, LimitedTyped
    <3> QED BY <2>0, <2>3, <3>1, BecomeTyped DEF HitStartLimit
  <2>4. CASE StartLimitPasses
    <3>1. HostType([host EXCEPT !.limited = FALSE])
      BY <2>0, LimitedTyped
    <3> QED BY <2>4, <3>1 DEF StartLimitPasses
  <2>5. ASSUME NEW d \in Outside, Drift(d) PROVE HostType(host')
    <3>1. host.outside \cup {d} \in Values.outside
      BY <2>0, ValuesOf, Fields DEF HostType
    <3> QED BY <2>0, <2>5, <3>1, Fields, ValuesOf, FactsTyped DEF HostType, Drift
  <2> QED BY <1>11, <2>1, <2>2, <2>3, <2>4, <2>5 DEF World
<1>12. CASE World
  BY <1>0, <1>10, <1>11, <1>12 DEF World, Ready, AppExits, Retry, HitStartLimit,
     StartLimitPasses, Drift, Unrecorded
<1>13. CASE UNCHANGED vars
  BY <1>13 DEF vars, TypeOK, CommandInv, Target, Idle
<1>14. ASSUME NEW f \in Faults, Apply(f) \/ ForceApply(f) PROVE TypeOK' /\ CommandInv'
  BY <1>0, <1>1, <1>14 DEF Apply, ForceApply
<1> QED BY <1>2, <1>3, <1>4, <1>5, <1>6, <1>7, <1>8, <1>9, <1>12, <1>13, <1>14 DEF Next, Command

\* Every variable has its type, and only a process that is up listens, however
\* many commands fail half way and however the service behaves meanwhile.
THEOREM CatalogTypeInvariant == Spec => []TypeOK
<1>1. Init => TypeOK /\ CommandInv
  BY InitTyped
<1>2. TypeOK /\ CommandInv /\ [Next]_vars => TypeOK' /\ CommandInv'
  BY NextTyped
<1> QED BY <1>1, <1>2, PTL DEF Spec

-----------------------------------------------------------------------------
(* What an accounted history leaves on the machine.                         *)

\* No fault binds the service to another address: the one that is edited is
\* the one in the comment.
ListenerInv ==
  /\ host.proc = "up" => host.addr = Loopback
  /\ host.config # Absent => host.config[2] = Loopback

TraceInv ==
  Accounted =>
    /\ host.outside = {}
    /\ ListenerInv
    /\ cmd.kind = "apply" => /\ record.fault = NoneActive
                             /\ Pending(todo, host, Target)
    /\ cmd.kind = "reset" => Pending(todo, host, Target)
    /\ cmd.kind # "apply" => Between(host, record.fault)
    /\ (Idle /\ dirt = {}) =>
         \A x \in Facts : Near(x, host, Trace(record.fault))

\* No trace touches what is outside the catalog or moves the service.
LEMMA TraceShared ==
  ASSUME NEW f \in FaultIds \cup {NoneActive}
  PROVE  LET t == Trace(f)
         IN t.outside = {} /\ (t.config = Absent \/ t.config[2] = Loopback)
<1> DEFINE P(t) == t.outside = {} /\ (t.config = Absent \/ t.config[2] = Loopback)
<1>0. P(Installed)
  BY CanonicalFacts DEF CanonicalConfig
<1>1. \A t : OnlyIn(t, Facts \ {"config", "outside"}) => P(t)
  BY <1>0, Fields DEF OnlyIn
<1>2. P(Trace("F-001")) /\ P(Trace("F-002")) /\ P(Trace("F-016"))
  BY <1>0, TraceOf, Fields DEF OnlyIn
<1> HIDE DEF P
<1>3. P(Trace(f))
  <2>1. ASSUME NEW g, NEW xs \in SUBSET (Facts \ {"config", "outside"}), OnlyIn(Trace(g), xs)
        PROVE  P(Trace(g))
    BY <1>1, <2>1 DEF OnlyIn
  <2>2. CASE f = NoneActive
    BY <1>0, <2>2, TraceOf
  <2>3. CASE f \in {"F-001", "F-002", "F-016"}
    BY <1>2, <2>3
  <2>4. CASE f \in {"F-003"}
    <3>1. OnlyIn(Trace(f), {"configMode"})
      BY <2>4, TraceOf
    <3> QED BY <2>1, <3>1, Fields
  <2>5. CASE f \in {"F-004"}
    <3>1. OnlyIn(Trace(f), {"stateMode"})
      BY <2>5, TraceOf
    <3> QED BY <2>1, <3>1, Fields
  <2>6. CASE f \in {"F-005"}
    <3>1. OnlyIn(Trace(f), {"binaryMode"})
      BY <2>6, TraceOf
    <3> QED BY <2>1, <3>1, Fields
  <2>7. CASE f \in {"F-006", "F-013"}
    <3>1. OnlyIn(Trace(f), {"unit", "loadedUnit"})
      BY <2>7, TraceOf
    <3> QED BY <2>1, <3>1, Fields
  <2>8. CASE f \in {"F-007"}
    <3>1. OnlyIn(Trace(f), {"nginx", "loadedNginx"})
      BY <2>8, TraceOf
    <3> QED BY <2>1, <3>1, Fields
  <2>9. CASE f \in {"F-008", "F-014", "F-020"}
    <3>1. OnlyIn(Trace(f), {"chaos"})
      BY <2>9, TraceOf
    <3> QED BY <2>1, <3>1, Fields
  <2>10. CASE f \in {"F-009", "F-010"}
    <3>1. OnlyIn(Trace(f), {"log"})
      BY <2>10, TraceOf
    <3> QED BY <2>1, <3>1, Fields
  <2>11. CASE f \in {"F-015"}
    <3>1. OnlyIn(Trace(f), {"nginx"})
      BY <2>11, TraceOf
    <3> QED BY <2>1, <3>1, Fields
  <2>12. CASE f \in {"F-017"}
    <3>1. OnlyIn(Trace(f), {"emptyEnv"})
      BY <2>12, TraceOf
    <3> QED BY <2>1, <3>1, Fields
  <2>13. CASE f \in {"F-018", "F-019"}
    <3>1. OnlyIn(Trace(f), {"volume"})
      BY <2>13, TraceOf
    <3> QED BY <2>1, <3>1, Fields
  <2>14. CASE f \in {"F-021"}
    <3>1. OnlyIn(Trace(f), {"dropRule"})
      BY <2>14, TraceOf
    <3> QED BY <2>1, <3>1, Fields
  <2> QED BY <2>2, <2>3, <2>4, <2>5, <2>6, <2>7, <2>8, <2>9, <2>10, <2>11, <2>12, <2>13,
              <2>14 DEF FaultIds
<1> QED BY <1>3 DEF P

\* No operation but a start makes the service listen.
LEMMA EffectListener ==
  ASSUME NEW h, Shaped(h), NEW t, NEW op, Fits(op, t), Effect(op, h).proc = "up"
  PROVE  h.proc = "up" /\ Effect(op, h).addr = h.addr
<1> USE Fields DEF Shaped, Fits, Overlays, NginxLoads
<1>1. CASE op.kind \in Overlays
  BY <1>1 DEF Effect, With
<1>2. CASE op.kind = "remove"
  BY <1>2 DEF Effect
<1>3. CASE op.kind \in {"readdress", "daemonReload", "resetFailed", "nginxReload",
                        "restartNginx", "repair"}
  BY <1>3 DEF Effect
<1>4. CASE op.kind = "edit"
  BY <1>4 DEF Effect
<1>5. CASE op.kind = "installConfig"
  BY <1>5, RestoreFacts DEF Effect, With
<1>6. CASE op.kind \in {"restart", "start"}
  <2>1. Effect(op, h) \in {h, Become(h, "starting")}
    BY <1>6 DEF Effect
  <2>2. Become(h, "starting").proc = "starting"
    BY DEF Become
  <2> QED BY <2>1, <2>2
<1>7. CASE op.kind \notin Overlays \cup NginxLoads \cup
        {"remove", "readdress", "edit", "installConfig", "restart", "start",
         "daemonReload", "resetFailed", "repair"}
  BY <1>7 DEF Effect
<1> QED BY <1>1, <1>2, <1>3, <1>4, <1>5, <1>6, <1>7

\* What the operation was to do is done, whether or not it reports it.
Worked(op, h, g) == /\ g = Effect(op, h)
                    /\ Succeeds(op, h) \/ op.kind \in {"overfill", "restart"}

\* One operation of an accounted command, carried out or skipped, or at which a
\* reset gives up: the facts move towards the target or stay.
LEMMA AdvanceTrace ==
  ASSUME TypeOK, CommandInv, TraceInv, Accounted, todo # <<>>, record' = record,
         host' = host \/ Worked(Head(todo), host, host'),
         \/ /\ todo' = Tail(todo) /\ cmd' = cmd
            /\ Worked(Head(todo), host, host') \/ Optional(Head(todo))
         \/ todo' = <<>> /\ cmd' = NoCmd /\ cmd.kind = "reset" /\ dirt' # {}
  PROVE  TraceInv'
<1>1. Shaped(host) /\ host.outside = {} /\ ListenerInv
  BY DEF TypeOK, HostType, Shaped, TraceInv
<1>2. cmd.kind \in {"apply", "reset"} /\ Pending(todo, host, Target)
  BY DEF TypeOK, Idle, TraceInv
<1>3. todo \in Seq({todo[i] : i \in DOMAIN todo})
  BY DEF CommandInv, IsSeq
<1>4. Fits(Head(todo), Target)
  BY TailIsSeq DEF CommandInv
<1>5. /\ \A x \in Facts : host'[x] \in {host[x], Target[x]}
      /\ Worked(Head(todo), host, host') => Pending(Tail(todo), host', Target)
  BY <1>1, <1>2, <1>3, StepKeepsPending DEF Worked
<1>6. ListenerInv' /\ host'.outside = {}
  <2>1. cmd.fault \in FaultIds \cup {NoneActive}
    BY FaultsAssumption DEF TypeOK
  <2>2. Target.outside = {} /\ (Target.config = Absent \/ Target.config[2] = Loopback)
    BY <2>1, TraceShared, CanonicalFacts DEF Target, CanonicalConfig
  <2>3. host'.proc = "up" => host'.addr = Loopback
    BY <1>1, <1>4, EffectListener DEF ListenerInv, Worked
  <2>4. "outside" \in Facts /\ "config" \in Facts
    BY Fields
  <2> QED BY <1>1, <1>5, <2>2, <2>3, <2>4 DEF ListenerInv
<1>7. ASSUME cmd.kind = "reset"
      PROVE  Between(host', record.fault)
  <2>1. Between(host, record.fault) /\ Target = Installed
    BY <1>7 DEF TraceInv, Target
  <2> QED BY <1>5, <2>1, CanonicalFacts, Fields DEF Between, Near
<1>8. CASE /\ todo' = Tail(todo) /\ cmd' = cmd
           /\ Worked(Head(todo), host, host') \/ Optional(Head(todo))
  <2>1. Pending(todo', host', Target)
    <3>1. CASE Worked(Head(todo), host, host')
      BY <1>5, <1>8, <3>1
    <3>2. CASE host' = host /\ Optional(Head(todo))
      BY <1>2, <1>3, <1>8, <3>2, SkipKeepsPending
    <3> QED BY <1>8, <3>1, <3>2
  <2>2. Target' = Target
    BY <1>8 DEF Target
  <2>3. cmd.kind = "apply" => record'.fault = NoneActive
    BY DEF TraceInv
  <2> QED BY <1>2, <1>6, <1>7, <1>8, <2>1, <2>2, <2>3 DEF TraceInv, Idle
<1>9. CASE todo' = <<>> /\ cmd' = NoCmd /\ cmd.kind = "reset" /\ dirt' # {}
  BY <1>6, <1>7, <1>9 DEF TraceInv, NoCmd, Idle
<1> QED BY <1>8, <1>9

\* Between two operations and between two commands, only the log changes.
LEMMA WorldTrace ==
  ASSUME TypeOK, CommandInv, TraceInv, Accounted, UNCHANGED <<record, cmd, todo, dirt>>,
         \A x \in Facts \ {"log"} : host'[x] = host[x],
         host'.log = host.log \/ (host.log = "removed" /\ host'.log = "kept"),
         host'.proc = "up" => host'.addr = Loopback
  PROVE  TraceInv'
<1>1. host'.outside = {} /\ ListenerInv'
  BY Fields DEF TraceInv, ListenerInv
<1>2. Target' = Target
  BY DEF Target
<1>3. Pending(todo, host, Target) => Pending(todo, host', Target)
  BY LogKeepsPending
<1>4. \A t : (\A x \in Facts : Near(x, host, t)) => \A x \in Facts : Near(x, host', t)
  BY DEF Near
<1>5. Between(host, record.fault) => Between(host', record.fault)
  BY CanonicalFacts DEF Between, Near
<1> QED BY <1>1, <1>2, <1>3, <1>4, <1>5 DEF TraceInv, Idle

\* TraceInv holds initially.
LEMMA InitTrace == Init => TraceInv
<1> SUFFICES ASSUME Init PROVE TraceInv
  OBVIOUS
<1>1. \A x \in Facts : host[x] = Installed[x]
  BY Fields, CanonicalFacts DEF Init, Serving
<1>2. host.proc = "up" /\ host.addr = Loopback
  BY DEF Init, Serving
<1>3. Between(host, NoneActive) /\ \A x \in Facts : Near(x, host, Trace(NoneActive))
  BY <1>1, TraceOf, CanonicalFacts, Fields DEF Between, Near
<1>4. host.outside = {} /\ ListenerInv
  BY <1>1, <1>2, CanonicalFacts, Fields DEF ListenerInv, CanonicalConfig
<1> QED BY <1>3, <1>4 DEF Init, TraceInv, NoCmd, Idle

\* Every step preserves it.
LEMMA NextTrace ==
  ASSUME TypeOK, CommandInv, TraceInv, [Next]_vars
  PROVE  TraceInv'
<1> SUFFICES ASSUME Accounted' PROVE TraceInv'
  BY DEF TraceInv
<1>h. Shaped(host) /\ record.fault \in FaultIds \cup {NoneActive}
  BY FaultsAssumption DEF TypeOK, HostType, Shaped
<1>d. "forced" \notin dirt' /\ "drift" \notin dirt' /\ "apply failed" \notin dirt'
  BY DEF Accounted
<1>1. ASSUME NEW f \in Faults, Apply(f) PROVE TraceInv'
  <2>1. Accounted /\ Idle /\ record.fault = NoneActive /\ f \in FaultIds
    BY <1>1, FaultsAssumption DEF Apply, Applicable, BeginApply
  <2>2. \A x \in Facts : Near(x, host, Installed)
    BY <2>1, TraceOf DEF TraceInv, Between, Near, Idle
  <2>3. Pending(todo', host, Trace(f))
    BY <1>1, <2>1, <2>2, ApplyPlan DEF Apply, BeginApply
  <2>4. cmd' = [kind |-> "apply", fault |-> f] /\ UNCHANGED <<host, record>>
    BY <1>1 DEF Apply, BeginApply
  <2> QED BY <2>1, <2>3, <2>4 DEF TraceInv, Target, Idle, ListenerInv
<1>2. ASSUME NEW f \in Faults PROVE ~ForceApply(f)
  BY <1>d DEF ForceApply
<1>3. ASSUME NEW t \in Tiers, Reset(t) PROVE TraceInv'
  <2>1. Accounted /\ (record.fault \in Irreversible => t = "R3")
    BY <1>3 DEF Reset, Accounted
  <2>2. Idle /\ Between(host, record.fault)
    BY <1>3, <2>1 DEF Reset, TraceInv, Idle
  <2>3. Pending(todo', host, Installed)
    BY <1>h, <1>3, <2>1, <2>2, ResetPlan DEF Reset
  <2>4. /\ cmd' = [kind |-> "reset", fault |-> record.fault]
        /\ UNCHANGED <<host, record>>
    BY <1>3 DEF Reset
  <2> QED BY <2>1, <2>2, <2>3, <2>4 DEF TraceInv, Target, Idle, ListenerInv
<1>4. CASE StepDone
  BY <1>4, AdvanceTrace DEF StepDone, Accounted, Worked
<1>5. ASSUME todo # <<>>, GiveUpOn(Head(todo)), record' = record,
             host' = host \/ Worked(Head(todo), host, host')
      PROVE  TraceInv'
  <2>1. cmd.kind \in {"apply", "reset"}
    BY <1>5 DEF TypeOK, Idle
  <2>2. CASE /\ todo' = Tail(todo) /\ cmd' = cmd /\ dirt' = dirt
             /\ Optional(Head(todo))
    BY <1>5, <2>2, AdvanceTrace DEF Accounted
  <2>3. CASE todo' = <<>> /\ cmd' = NoCmd /\ dirt' = dirt \cup {Failed[cmd.kind]}
    <3>1. Failed[cmd.kind] \in dirt'
      BY <2>3
    <3>2. cmd.kind = "reset"
      <4>1. ASSUME cmd.kind = "apply" PROVE Failed[cmd.kind] = "apply failed"
        BY <4>1 DEF Failed
      <4> QED BY <1>d, <2>1, <3>1, <4>1
    <3>3. dirt' # {} /\ Accounted
      BY <2>3, <3>1 DEF Accounted
    <3> QED BY <1>5, <2>3, <3>2, <3>3, AdvanceTrace
  <2> QED BY <1>5, <2>2, <2>3, GiveUpSkips
<1>6. CASE StepImpossible
  BY <1>5, <1>6 DEF StepImpossible, Worked
<1>7. CASE StepTimesOut
  BY <1>5, <1>7 DEF StepTimesOut, Worked
<1>8. CASE StepFails
  BY <1>5, <1>8 DEF StepFails, Worked
<1>9. CASE Applied
  <2>1. Accounted /\ cmd.kind = "apply" /\ todo = <<>> /\ record'.fault = cmd.fault
    BY <1>9 DEF Applied, Accounted
  <2>2. \A x \in Facts : Near(x, host, Trace(cmd.fault))
    BY <2>1 DEF TraceInv, Pending, Target
  <2>3. Between(host, cmd.fault)
    BY <2>2, CanonicalFacts, Fields DEF Between, Near
  <2> QED BY <1>9, <2>1, <2>2, <2>3 DEF Applied, TraceInv, ListenerInv, NoCmd, Idle
<1>10. CASE Restored
  <2>1. Accounted /\ cmd.kind = "reset" /\ todo = <<>> /\ record'.fault = NoneActive
    BY <1>10 DEF Restored, Accounted
  <2>2. \A x \in Facts : Near(x, host, Installed)
    BY <2>1 DEF TraceInv, Pending, Target
  <2>3. Between(host, NoneActive) /\ \A x \in Facts : Near(x, host, Trace(NoneActive))
    BY <2>2, TraceOf, CanonicalFacts DEF Between
  <2> QED BY <1>10, <2>1, <2>3 DEF Restored, TraceInv, ListenerInv, NoCmd, Idle
<1>11. CASE Status
  <2>1. record'.fault = record.fault
    BY <1>11 DEF Status, TypeOK
  <2> QED BY <1>11, <2>1 DEF Status, TraceInv, Target, ListenerInv, Idle, Accounted
<1>12. CASE Ready
  <2>1. host.config # Absent /\ host.log # "denied"
    BY <1>12 DEF Ready, Startable
  <2>2. /\ host'.proc = "up" /\ host'.addr = host.config[2] /\ host'.log = "kept"
        /\ \A x \in Facts \ {"log"} : host'[x] = host[x]
    BY <1>h, <1>12, Fields DEF Ready, ComeUp, Become, Shaped
  <2>3. Accounted /\ host'.addr = Loopback
    BY <1>12, <2>1, <2>2 DEF Ready, Unrecorded, Accounted, TraceInv, ListenerInv
  <2>4. host.log \in {"kept", "denied", "removed"}
    BY ValuesOf, Fields DEF TypeOK, HostType
  <2> QED BY <1>12, <2>1, <2>2, <2>3, <2>4, WorldTrace DEF Ready, Unrecorded
<1>13. ASSUME NEW h, Shaped(h), \A x \in Facts : h[x] = host[x],
              NEW proc, proc # "up", host' = Become(h, proc), Unrecorded
       PROVE  TraceInv'
  <2>1. host'.proc # "up"
    BY <1>13, Fields DEF Become, Shaped
  <2>2. \A x \in Facts : host'[x] = host[x]
    BY <1>13, BecomeFacts
  <2>3. Accounted /\ UNCHANGED <<record, cmd, todo, dirt>>
    BY <1>13 DEF Unrecorded, Accounted
  <2> QED BY <2>1, <2>2, <2>3, WorldTrace, Fields
<1>14. CASE AppExits \/ Retry
  BY <1>h, <1>13, <1>14 DEF AppExits, Retry
<1>15. CASE HitStartLimit
  <2>1. LET h == [host EXCEPT !.limited = TRUE]
        IN Shaped(h) /\ \A x \in Facts : h[x] = host[x]
    BY <1>h, Fields DEF Shaped
  <2> QED BY <1>13, <1>15, <2>1 DEF HitStartLimit
<1>16. CASE StartLimitPasses
  <2>1. /\ \A x \in Facts : host'[x] = host[x]
        /\ host'.proc = host.proc /\ host'.addr = host.addr
    BY <1>h, <1>16, Fields DEF StartLimitPasses, Shaped
  <2>2. Accounted
    BY <1>16 DEF StartLimitPasses, Unrecorded, Accounted
  <2> QED BY <1>16, <2>1, <2>2, WorldTrace, Fields DEF StartLimitPasses, Unrecorded,
              TraceInv, ListenerInv
<1>17. ASSUME NEW d \in Outside PROVE ~Drift(d)
  BY <1>d DEF Drift
<1>18. CASE UNCHANGED vars
  BY <1>18 DEF vars, TraceInv, Target, ListenerInv, Idle, Accounted
<1> QED BY <1>1, <1>2, <1>3, <1>4, <1>6, <1>7, <1>8, <1>9, <1>10, <1>11, <1>12, <1>14, <1>15,
           <1>16, <1>17, <1>18 DEF Next, Command, World

\* The inductive invariant
CatalogInv == TypeOK /\ CommandInv /\ TraceInv

\* The three parts hold together in every reachable state.
THEOREM CatalogInvariant == Spec => []CatalogInv
<1>1. Init => CatalogInv
  BY InitTyped, InitTrace DEF CatalogInv
<1>2. CatalogInv /\ [Next]_vars => CatalogInv'
  BY NextTyped, NextTrace DEF CatalogInv
<1> QED BY <1>1, <1>2, PTL DEF Spec

\* fault-model.md 6.1, of Recover and executeTier: no trace of a fault is left
\* when state.json names none, after any number of failed resets of any tier.
THEOREM CatalogNoFaultNoTrace == Spec => []NoFaultNoTrace
<1>1. CatalogInv => NoFaultNoTrace
  <2> SUFFICES ASSUME CatalogInv, Idle, record.fault = NoneActive, Accounted
               PROVE  Traceless(host)
    BY DEF NoFaultNoTrace
  <2>1. \A x \in Facts : Near(x, host, Installed)
    BY TraceOf DEF CatalogInv, TraceInv, Between, Near, Idle
  <2>2. "log" \in Facts /\ DOMAIN host = DOMAIN Values /\ Facts \subseteq DOMAIN host
    BY Fields DEF CatalogInv, TypeOK, HostType
  <2>3. host.log \in {"kept", "removed"}
    BY <2>1, <2>2, CanonicalFacts DEF Near
  <2> DEFINE g == [host EXCEPT !.log = IF @ = "removed" THEN "kept" ELSE @]
  <2>4. g.log = "kept" /\ \A x \in Facts \ {"log"} : g[x] = host[x]
    BY <2>2, <2>3
  <2>5. \A x \in Facts : g[x] = Installed[x]
    BY <2>1, <2>4, CanonicalFacts DEF Near
  <2> QED BY <2>5 DEF Traceless, Canonical, Facts
<1> QED BY <1>1, CatalogInvariant, PTL

-----------------------------------------------------------------------------
(* What the catalog declares of each fault.                                 *)
LEMMA FailingOf ==
  ASSUME NEW h
  PROVE  /\ "S-001" \in Failing(h) <=> h.proc \notin {"starting", "up"}
         /\ "S-002" \in Failing(h) <=> "app disabled" \in h.outside
         /\ "S-003" \in Failing(h) <=> ~NginxUp(h)
         /\ "P-001" \in Failing(h) <=>
              ~(h.proc = "up" \/ (h.proc = "starting" /\ Executable(h)))
         /\ "P-002" \in Failing(h) <=> h.addr # Loopback
         /\ "P-003" \in Failing(h) <=> ~(NginxUp(h) \/ h.addr = Wildcard)
         /\ "P-004" \in Failing(h) <=> ~NginxUp(h)
         /\ "E-001" \in Failing(h) <=> ~Proxied(h)
         /\ "E-002" \in Failing(h) <=> ~(Proxied(h) /\ Touchable(h))
         /\ "E-003" \in Failing(h) <=> ~Proxied(h)
         /\ "E-004" \in Failing(h) <=> ~NginxUp(h)
         /\ "E-005" \in Failing(h) <=> ~(Proxied(h) /\ "hosts wrong" \notin h.outside)
         /\ "F-001" \in Failing(h) <=> ~h.binaryMode
         /\ "F-002" \in Failing(h) <=> ~(h.config # Absent /\ h.configMode)
         /\ "F-003" \notin Failing(h)
         /\ "F-004" \in Failing(h) <=> ~h.stateMode
         /\ "F-005" \in Failing(h) <=> ~NginxTest(h)
         /\ "F-007" \in Failing(h) <=> "hosts wrong" \in h.outside
BY DEF Failing, SystemFailing, ProcessFailing, EndpointFailing, FileFailing, LogFailing, Unless

\* What a fault can break only by stopping the service
Always == {"S-001", "S-002", "S-003", "P-001", "P-002", "P-003", "P-004", "E-004",
           "F-003", "F-007"}

\* A service that is up on its address and behind nginx passes all that the
\* fault itself does not break.
LEMMA UpPasses ==
  ASSUME NEW h, h.outside = {}, h.proc = "up", h.addr = Loopback
  PROVE  /\ Failing(h) \cap Always = {}
         /\ "port9090" \notin h.loadedNginx => Failing(h) \cap {"E-001", "E-003"} = {}
         /\ ("port9090" \notin h.loadedNginx /\ h.stateMode = TRUE /\ h.volume = "free") =>
              "E-002" \notin Failing(h)
         /\ h.binaryMode = TRUE => "F-001" \notin Failing(h)
         /\ (h.config # Absent /\ h.configMode = TRUE) => "F-002" \notin Failing(h)
<1>1. NginxUp(h)
  BY DEF NginxUp
<1>2. "port9090" \notin h.loadedNginx => Proxied(h)
  BY <1>1 DEF Proxied
<1>3. \A c \in Always : c \notin Failing(h)
  BY <1>1, FailingOf DEF Always, Loopback
<1>4. ASSUME h.stateMode = TRUE, h.volume = "free" PROVE Touchable(h)
  BY <1>4 DEF Touchable
<1>5. "port9090" \notin h.loadedNginx => "E-001" \notin Failing(h) /\ "E-003" \notin Failing(h)
  BY <1>2, FailingOf
<1>6. ("port9090" \notin h.loadedNginx /\ h.stateMode = TRUE /\ h.volume = "free") =>
        "E-002" \notin Failing(h)
  BY <1>2, <1>4, FailingOf
<1>7. h.binaryMode = TRUE => "F-001" \notin Failing(h)
  BY FailingOf
<1>8. (h.config # Absent /\ h.configMode = TRUE) => "F-002" \notin Failing(h)
  BY FailingOf
<1> QED BY <1>3, <1>5, <1>6, <1>7, <1>8

\* What the fault does not change is canonical while the fault is recorded.
LEMMA Untouched ==
  ASSUME NEW f, NEW xs, OnlyIn(Trace(f), xs), NEW h, \A x \in Facts : Near(x, h, Trace(f))
  PROVE  \A x \in Facts \ (xs \cup {"log"}) : h[x] = Installed[x]
BY DEF OnlyIn, Near

\* With the trace of a fault alone, what the fault declares untouched passes.
LEMMA PassingHolds ==
  ASSUME NEW f \in FaultIds, NEW h, h.outside = {}, h.proc = "up", h.addr = Loopback,
         \A x \in Facts : Near(x, h, Trace(f))
  PROVE  Catalog[f].passing \cap Failing(h) \subseteq MisdeclaredPassing(f)
<1> DEFINE P(g) == f = g => Catalog[g].passing \cap Failing(h) \subseteq MisdeclaredPassing(g)
<1>0. /\ Failing(h) \cap Always = {}
      /\ "port9090" \notin h.loadedNginx => Failing(h) \cap {"E-001", "E-003"} = {}
      /\ ("port9090" \notin h.loadedNginx /\ h.stateMode = TRUE /\ h.volume = "free") =>
           "E-002" \notin Failing(h)
      /\ h.binaryMode = TRUE => "F-001" \notin Failing(h)
      /\ (h.config # Absent /\ h.configMode = TRUE) => "F-002" \notin Failing(h)
  BY UpPasses
<1>1. P("F-001")
  <2>1. Catalog["F-001"].passing \subseteq Always
    BY CatalogOf DEF FaultF001, Always
  <2> QED BY <1>0, <2>1
<1>2. P("F-002")
  <2> SUFFICES ASSUME f = "F-002" PROVE Catalog["F-002"].passing \cap Failing(h) = {}
    OBVIOUS
  <2>1. h.config # Absent /\ h.configMode = TRUE
    <3>1. /\ Trace(f).config = <<Port9090, Loopback>> /\ OnlyIn(Trace(f), {"config"})
      BY TraceOf
    <3>2. h.config = Trace(f).config /\ h.configMode = TRUE
      BY <3>1, Untouched, Fields, CanonicalFacts DEF Near
    <3> QED BY <3>1, <3>2 DEF Absent
  <2>2. Catalog["F-002"].passing = {"S-001", "P-001", "F-002"}
    BY CatalogOf DEF FaultF002
  <2>3. Failing(h) \cap {"S-001", "P-001", "F-002"} = {}
    BY <1>0, <2>1 DEF Always
  <2> QED BY <2>2, <2>3
<1>3. P("F-003")
  <2>1. Catalog["F-003"].passing \subseteq Always \cup {"F-002"}
    BY CatalogOf DEF FaultF003, Always
  <2>2. Failing(h) \cap Always = {}
    BY UpPasses
  <2> QED BY <2>1, <2>2 DEF MisdeclaredPassing
<1>4. P("F-004")
  <2> SUFFICES ASSUME f = "F-004" PROVE Catalog["F-004"].passing \cap Failing(h) = {}
    OBVIOUS
  <2>1. "port9090" \notin h.loadedNginx
    <3>1. OnlyIn(Trace(f), {"stateMode"})
      BY TraceOf
    <3> QED BY <3>1, Untouched, Fields, CanonicalFacts
  <2>2. Catalog["F-004"].passing = {"S-001", "E-001", "E-003"}
    BY CatalogOf DEF FaultF004
  <2>3. Failing(h) \cap {"S-001", "E-001", "E-003"} = {}
    BY <1>0, <2>1 DEF Always
  <2> QED BY <2>2, <2>3
<1>5. P("F-005")
  <2> SUFFICES ASSUME f = "F-005" PROVE Catalog["F-005"].passing \cap Failing(h) = {}
    OBVIOUS
  <2>1. h.config # Absent /\ h.configMode = TRUE
    <3>1. OnlyIn(Trace(f), {"binaryMode"})
      BY TraceOf
    <3>2. \A x \in {"config", "configMode"} : h[x] = Installed[x]
      BY <3>1, Untouched, Fields
    <3>3. CanonicalConfig # Absent
      BY DEF CanonicalConfig, Absent
    <3> QED BY <3>2, <3>3, CanonicalFacts
  <2>2. Catalog["F-005"].passing = {"F-002", "F-007"}
    BY CatalogOf DEF FaultF005
  <2>3. Failing(h) \cap {"F-002", "F-007"} = {}
    BY <1>0, <2>1 DEF Always
  <2> QED BY <2>2, <2>3
<1>6. P("F-006")
  <2> SUFFICES ASSUME f = "F-006" PROVE Catalog["F-006"].passing \cap Failing(h) = {}
    OBVIOUS
  <2>1. h.config # Absent /\ h.configMode = TRUE
    <3>1. OnlyIn(Trace(f), {"unit", "loadedUnit"})
      BY TraceOf
    <3>2. \A x \in {"config", "configMode"} : h[x] = Installed[x]
      BY <3>1, Untouched, Fields
    <3>3. CanonicalConfig # Absent
      BY DEF CanonicalConfig, Absent
    <3> QED BY <3>2, <3>3, CanonicalFacts
  <2>2. Catalog["F-006"].passing = {"F-002"}
    BY CatalogOf DEF FaultF006
  <2>3. Failing(h) \cap {"F-002"} = {}
    BY <1>0, <2>1 DEF Always
  <2> QED BY <2>2, <2>3
<1>7. P("F-007")
  <2>1. Catalog["F-007"].passing \subseteq Always
    BY CatalogOf DEF FaultF007, Always
  <2> QED BY <1>0, <2>1
<1>8. P("F-008")
  <2> SUFFICES ASSUME f = "F-008" PROVE Catalog["F-008"].passing \cap Failing(h) = {}
    OBVIOUS
  <2>1. "port9090" \notin h.loadedNginx /\ h.stateMode = TRUE /\ h.volume = "free"
    <3>1. OnlyIn(Trace(f), {"chaos"})
      BY TraceOf
    <3> QED BY <3>1, Untouched, Fields, CanonicalFacts
  <2>2. Catalog["F-008"].passing = {"S-001", "E-001", "E-002"}
    BY CatalogOf DEF FaultF008
  <2>3. Failing(h) \cap {"S-001", "E-001", "E-002"} = {}
    BY <1>0, <2>1 DEF Always
  <2> QED BY <2>2, <2>3
<1>9. P("F-009")
  <2> SUFFICES ASSUME f = "F-009" PROVE Catalog["F-009"].passing \cap Failing(h) = {}
    OBVIOUS
  <2>1. h.config # Absent /\ h.configMode = TRUE
    <3>1. OnlyIn(Trace(f), {"log"})
      BY TraceOf
    <3>2. \A x \in {"config", "configMode"} : h[x] = Installed[x]
      BY <3>1, Untouched, Fields
    <3>3. CanonicalConfig # Absent
      BY DEF CanonicalConfig, Absent
    <3> QED BY <3>2, <3>3, CanonicalFacts
  <2>2. Catalog["F-009"].passing = {"F-002"}
    BY CatalogOf DEF FaultF009
  <2>3. Failing(h) \cap {"F-002"} = {}
    BY <1>0, <2>1 DEF Always
  <2> QED BY <2>2, <2>3
<1>10. P("F-010")
  <2> SUFFICES ASSUME f = "F-010" PROVE Catalog["F-010"].passing \cap Failing(h) = {}
    OBVIOUS
  <2>1. "port9090" \notin h.loadedNginx /\ h.stateMode = TRUE /\ h.volume = "free"
    <3>1. OnlyIn(Trace(f), {"log"})
      BY TraceOf
    <3> QED BY <3>1, Untouched, Fields, CanonicalFacts
  <2>2. Catalog["F-010"].passing = {"S-001", "P-001", "P-002", "E-001", "E-002"}
    BY CatalogOf DEF FaultF010
  <2>3. Failing(h) \cap {"S-001", "P-001", "P-002", "E-001", "E-002"} = {}
    BY <1>0, <2>1 DEF Always
  <2> QED BY <2>2, <2>3
<1>11. P("F-013")
  <2>1. Catalog["F-013"].passing \subseteq Always
    BY CatalogOf DEF FaultF013, Always
  <2> QED BY <1>0, <2>1
<1>12. P("F-014")
  <2>1. Catalog["F-014"].passing \subseteq Always
    BY CatalogOf DEF FaultF014, Always
  <2> QED BY <1>0, <2>1
<1>13. P("F-015")
  <2> SUFFICES ASSUME f = "F-015" PROVE Catalog["F-015"].passing \cap Failing(h) = {}
    OBVIOUS
  <2>1. "port9090" \notin h.loadedNginx /\ h.stateMode = TRUE /\ h.volume = "free"
    <3>1. OnlyIn(Trace(f), {"nginx"})
      BY TraceOf
    <3> QED BY <3>1, Untouched, Fields, CanonicalFacts
  <2>2. Catalog["F-015"].passing = {"S-003", "P-003", "P-004", "E-001", "E-002"}
    BY CatalogOf DEF FaultF015
  <2>3. Failing(h) \cap {"S-003", "P-003", "P-004", "E-001", "E-002"} = {}
    BY <1>0, <2>1 DEF Always
  <2> QED BY <2>2, <2>3
<1>14. P("F-016")
  <2> SUFFICES ASSUME f = "F-016" PROVE Catalog["F-016"].passing \cap Failing(h) = {}
    OBVIOUS
  <2>1. "port9090" \notin h.loadedNginx /\ h.stateMode = TRUE /\ h.volume = "free"
    <3>1. OnlyIn(Trace(f), {"config"})
      BY TraceOf
    <3> QED BY <3>1, Untouched, Fields, CanonicalFacts
  <2>2. Catalog["F-016"].passing = {"S-001", "E-001", "E-002", "E-003", "E-004"}
    BY CatalogOf DEF FaultF016
  <2>3. Failing(h) \cap {"S-001", "E-001", "E-002", "E-003", "E-004"} = {}
    BY <1>0, <2>1 DEF Always
  <2> QED BY <2>2, <2>3
<1>15. P("F-017")
  <2> SUFFICES ASSUME f = "F-017" PROVE Catalog["F-017"].passing \cap Failing(h) = {}
    OBVIOUS
  <2>1. h.binaryMode = TRUE /\ h.config # Absent /\ h.configMode = TRUE
    <3>1. OnlyIn(Trace(f), {"emptyEnv"})
      BY TraceOf
    <3>2. \A x \in {"binaryMode", "config", "configMode"} : h[x] = Installed[x]
      BY <3>1, Untouched, Fields
    <3>3. CanonicalConfig # Absent
      BY DEF CanonicalConfig, Absent
    <3> QED BY <3>2, <3>3, CanonicalFacts
  <2>2. Catalog["F-017"].passing = {"F-001", "F-002"}
    BY CatalogOf DEF FaultF017
  <2>3. Failing(h) \cap {"F-001", "F-002"} = {}
    BY <1>0, <2>1 DEF Always
  <2> QED BY <2>2, <2>3
<1>16. P("F-018")
  <2> SUFFICES ASSUME f = "F-018" PROVE Catalog["F-018"].passing \cap Failing(h) = {}
    OBVIOUS
  <2>1. "port9090" \notin h.loadedNginx
    <3>1. OnlyIn(Trace(f), {"volume"})
      BY TraceOf
    <3> QED BY <3>1, Untouched, Fields, CanonicalFacts
  <2>2. Catalog["F-018"].passing = {"S-001", "E-001", "E-003"}
    BY CatalogOf DEF FaultF018
  <2>3. Failing(h) \cap {"S-001", "E-001", "E-003"} = {}
    BY <1>0, <2>1 DEF Always
  <2> QED BY <2>2, <2>3
<1>17. P("F-019")
  <2> SUFFICES ASSUME f = "F-019" PROVE Catalog["F-019"].passing \cap Failing(h) = {}
    OBVIOUS
  <2>1. "port9090" \notin h.loadedNginx
    <3>1. OnlyIn(Trace(f), {"volume"})
      BY TraceOf
    <3> QED BY <3>1, Untouched, Fields, CanonicalFacts
  <2>2. Catalog["F-019"].passing = {"S-001", "E-001", "E-003"}
    BY CatalogOf DEF FaultF019
  <2>3. Failing(h) \cap {"S-001", "E-001", "E-003"} = {}
    BY <1>0, <2>1 DEF Always
  <2> QED BY <2>2, <2>3
<1>18. P("F-020")
  <2> SUFFICES ASSUME f = "F-020" PROVE Catalog["F-020"].passing \cap Failing(h) = {}
    OBVIOUS
  <2>1. "port9090" \notin h.loadedNginx
    <3>1. OnlyIn(Trace(f), {"chaos"})
      BY TraceOf
    <3> QED BY <3>1, Untouched, Fields, CanonicalFacts
  <2>2. Catalog["F-020"].passing = {"S-001", "E-001", "E-003"}
    BY CatalogOf DEF FaultF020
  <2>3. Failing(h) \cap {"S-001", "E-001", "E-003"} = {}
    BY <1>0, <2>1 DEF Always
  <2> QED BY <2>2, <2>3
<1>19. P("F-021")
  <2>1. Catalog["F-021"].passing \subseteq Always
    BY CatalogOf DEF FaultF021, Always
  <2> QED BY <1>0, <2>1
<1> HIDE DEF P
<1>20. P(f)
  BY <1>1, <1>2, <1>3, <1>4, <1>5, <1>6, <1>7, <1>8, <1>9, <1>10, <1>11, <1>12, <1>13, <1>14,
      <1>15, <1>16, <1>17, <1>18, <1>19 DEF FaultIds
<1> QED BY <1>20 DEF P

\* Postcondition.PassingChecks: while an unforced fault is recorded and the
\* service is up, the checks it declares untouched pass.
THEOREM CatalogDeclaredPassing == Spec => []DeclaredPassingHolds
<1>1. CatalogInv => DeclaredPassingHolds
  <2> SUFFICES ASSUME CatalogInv, Idle, record.fault # NoneActive, dirt = {}, host.proc = "up"
               PROVE  Catalog[record.fault].passing \cap Failing(host)
                        \subseteq MisdeclaredPassing(record.fault)
    BY DEF DeclaredPassingHolds
  <2>1. record.fault \in FaultIds
    BY FaultsAssumption DEF CatalogInv, TypeOK
  <2>2. /\ host.outside = {} /\ host.addr = Loopback
        /\ \A x \in Facts : Near(x, host, Trace(record.fault))
    BY DEF CatalogInv, TraceInv, Accounted, ListenerInv
  <2> QED BY <2>1, <2>2, PassingHolds
<1> QED BY <1>1, CatalogInvariant, PTL

\* The declared checks that do fail
Declared(f) == Catalog[f].failing \ MisdeclaredFailing(f)

\* What another start changes.
LEMMA RestartedFacts ==
  ASSUME NEW h, Shaped(h)
  PROVE  /\ \A x \in Facts \ {"log"} : Restarted(h)[x] = h[x]
         /\ Startable(h) => Restarted(h).addr = h.config[2]
         /\ ~Startable(h) => Restarted(h).addr = "none" /\ Restarted(h).proc = "failed"
BY Fields DEF Restarted, ComeUp, Become, Shaped

\* A service that cannot start fails S-001 and the endpoints.
LEMMA StoppedFails ==
  ASSUME NEW h, Shaped(h), ~Startable(h)
  PROVE  {"S-001", "E-001", "E-002", "E-003", "E-005"} \subseteq Failing(Restarted(h))
<1> DEFINE g == Restarted(h)
<1>1. g.addr = "none" /\ g.proc = "failed"
  BY RestartedFacts
<1> HIDE DEF g
<1>2. ~Proxied(g)
  BY <1>1 DEF Proxied, Loopback, Wildcard, Port9090
<1>3. {"S-001", "E-001", "E-002", "E-003", "E-005"} \subseteq Failing(g)
  BY <1>1, <1>2, FailingOf
<1> QED BY <1>3 DEF g

\* A fault that acts at the next start shows at the next start, and the others
\* from the moment they are recorded on.
LEMMA FailingShows ==
  ASSUME NEW f \in FaultIds \ (WithoutEffect \cup NeverApplied), NEW h, Shaped(h),
         h.addr \in {Loopback, "none"}, h.config # Absent => h.config[2] = Loopback,
         \A x \in Facts : Near(x, h, Trace(f))
  PROVE  /\ f \notin Latent => Declared(f) \subseteq Failing(h)
         /\ Declared(f) \subseteq Failing(Restarted(h))
<1> DEFINE g == Restarted(h)
           P(k) == f = k => /\ f \notin Latent => Declared(f) \subseteq Failing(h)
                            /\ Declared(f) \subseteq Failing(g)
<1>0. \A x \in Facts \ {"log"} : h[x] = Trace(f)[x] /\ g[x] = h[x]
  BY RestartedFacts DEF Near
<1>1. g.addr \in {Loopback, "none"}
  BY RestartedFacts DEF Startable
<1> HIDE DEF g
<1>2. P("F-001")
  <2> SUFFICES ASSUME f = "F-001" PROVE Declared(f) \subseteq Failing(g)
    BY DEF Latent
  <2>1. Declared(f) \subseteq {"S-001", "E-001", "E-002", "E-003", "E-005"}
    BY CatalogOf DEF FaultF001, Declared, MisdeclaredFailing, Unreachable, Proxies
  <2>2. h.config = Absent
    BY <1>0, TraceOf, Fields
  <2>3. ~Startable(h)
    BY <2>2 DEF Startable, Executable
  <2> QED BY <2>1, <2>3, StoppedFails DEF g
<1>3. P("F-003")
  <2> SUFFICES ASSUME f = "F-003" PROVE Declared(f) \subseteq Failing(g)
    BY DEF Latent
  <2>1. Declared(f) \subseteq {"S-001", "E-001", "E-002", "E-003", "E-005"}
    BY CatalogOf DEF FaultF003, Declared, MisdeclaredFailing, Unreachable, Proxies
  <2>2. h.configMode = FALSE
    BY <1>0, TraceOf, Fields
  <2>3. ~Startable(h)
    BY <2>2 DEF Startable, Executable
  <2> QED BY <2>1, <2>3, StoppedFails DEF g
<1>4. P("F-004")
  <2> SUFFICES ASSUME f = "F-004" PROVE Declared(f) \subseteq Failing(h) \cap Failing(g)
    OBVIOUS
  <2>1. Declared(f) \subseteq {"E-002", "F-004"}
    BY CatalogOf DEF FaultF004, Declared
  <2>2. \A m \in {h, g} : m.stateMode = FALSE
    BY <1>0, TraceOf, Fields
  <2>3. \A m : m.stateMode = FALSE => {"E-002", "F-004"} \subseteq Failing(m)
    BY FailingOf DEF Touchable
  <2> QED BY <2>1, <2>2, <2>3
<1>5. P("F-005")
  <2> SUFFICES ASSUME f = "F-005" PROVE Declared(f) \subseteq Failing(g)
    BY DEF Latent
  <2>1. Declared(f) \subseteq {"S-001", "E-001", "E-002", "E-003", "E-005", "F-001"}
    BY CatalogOf DEF FaultF005, Declared, MisdeclaredFailing, Unreachable, Proxies
  <2>2. h.binaryMode = FALSE
    BY <1>0, TraceOf, Fields
  <2>3. ~Startable(h)
    BY <2>2 DEF Startable, Executable
  <2>4. "F-001" \in Failing(g)
    <3>1. g.binaryMode = FALSE
      BY <1>0, <2>2, Fields
    <3> QED BY <3>1, FailingOf
  <2> QED BY <2>1, <2>3, <2>4, StoppedFails DEF g
<1>6. P("F-007")
  <2> SUFFICES ASSUME f = "F-007" PROVE Declared(f) \subseteq Failing(h) \cap Failing(g)
    OBVIOUS
  <2>1. Declared(f) \subseteq {"E-001", "E-002", "E-003", "E-005"}
    BY CatalogOf DEF FaultF007, Declared, MisdeclaredFailing, Proxies
  <2>2. \A m \in {h, g} : "port9090" \in m.loadedNginx /\ m.addr \in {Loopback, "none"}
    BY <1>0, <1>1, TraceOf, Fields
  <2>3. \A m \in {h, g} : ~Proxied(m)
    BY <2>2 DEF Proxied, Loopback, Port9090
  <2>4. \A m : ~Proxied(m) => {"E-001", "E-002", "E-003", "E-005"} \subseteq Failing(m)
    BY FailingOf
  <2> QED BY <2>1, <2>3, <2>4
<1>7. P("F-008")
  BY CatalogOf DEF FaultF008, Declared
<1>8. P("F-009")
  <2> SUFFICES ASSUME f = "F-009" PROVE Declared(f) \subseteq Failing(g)
    BY DEF Latent
  <2>1. Declared(f) \subseteq {"S-001", "E-001", "E-002", "E-003", "E-005"}
    BY CatalogOf DEF FaultF009, Declared, MisdeclaredFailing, Unreachable, Proxies
  <2>2. h.log = "denied"
    BY TraceOf, Fields DEF Near
  <2>3. ~Startable(h)
    BY <2>2 DEF Startable, Executable
  <2> QED BY <2>1, <2>3, StoppedFails DEF g
<1>9. P("F-013")
  <2> SUFFICES ASSUME f = "F-013" PROVE Declared(f) \subseteq Failing(g)
    BY DEF Latent
  <2>1. Declared(f) \subseteq {"S-001", "E-001", "E-002", "E-003", "E-005"}
    BY CatalogOf DEF FaultF013, Declared, MisdeclaredFailing, Unreachable, Proxies
  <2>2. "badexec" \in h.loadedUnit
    BY <1>0, TraceOf, Fields
  <2>3. ~Startable(h)
    BY <2>2 DEF Startable, Executable
  <2> QED BY <2>1, <2>3, StoppedFails DEF g
<1>10. P("F-014")
  BY CatalogOf DEF FaultF014, Declared
<1>11. P("F-015")
  <2> SUFFICES ASSUME f = "F-015" PROVE Declared(f) \subseteq Failing(h) \cap Failing(g)
    OBVIOUS
  <2>1. Declared(f) \subseteq {"F-005"}
    BY CatalogOf DEF FaultF015, Declared
  <2>2. \A m \in {h, g} : "invalid" \in m.nginx
    BY <1>0, TraceOf, Fields
  <2>3. \A m : "invalid" \in m.nginx => "F-005" \in Failing(m)
    BY FailingOf DEF NginxTest
  <2> QED BY <2>1, <2>2, <2>3
<1>12. P("F-020")
  BY CatalogOf DEF FaultF020, Declared
<1> HIDE DEF P
<1>13. P(f)
  BY <1>2, <1>3, <1>4, <1>5, <1>6, <1>7, <1>8, <1>9, <1>10, <1>11, <1>12 DEF FaultIds,
      WithoutEffect, NeverApplied
<1> QED BY <1>13 DEF P, g

\* Postcondition.FailingChecks: while an unforced fault is recorded the checks
\* it declares fail, whatever the service does, and a restart does not help.
THEOREM CatalogDeclaredFailing == Spec => []DeclaredFailingShows
<1>1. CatalogInv => DeclaredFailingShows
  <2> SUFFICES ASSUME CatalogInv, Idle, record.fault \notin {NoneActive} \cup WithoutEffect,
                      dirt = {}
               PROVE  /\ record.fault \notin Latent =>
                           Declared(record.fault) \subseteq Failing(host)
                      /\ Declared(record.fault) \subseteq Failing(Restarted(host))
    BY DEF DeclaredFailingShows, Declared
  <2>1. record.fault \in FaultIds \ (WithoutEffect \cup NeverApplied)
    BY FaultsAssumption DEF CatalogInv, TypeOK, CommandInv
  <2>2. ListenerInv /\ \A x \in Facts : Near(x, host, Trace(record.fault))
    BY DEF CatalogInv, TraceInv, Accounted
  <2>3. Shaped(host) /\ host.addr \in {Loopback, "none"}
    BY <2>2 DEF CatalogInv, TypeOK, HostType, Shaped, ListenerInv
  <2> QED BY <2>1, <2>2, <2>3, FailingShows DEF ListenerInv
<1> QED BY <1>1, CatalogInvariant, PTL

-----------------------------------------------------------------------------
(* A reset that is run again.                                               *)

\* Induction over the naturals, for a set
LEMMA NatSet ==
  ASSUME NEW S, 0 \in S, \A n \in Nat : n \in S => n + 1 \in S
  PROVE  Nat \subseteq S
<1> DEFINE R == {p \in Nat \X Nat : p[1] < p[2]}
           T == Nat \ S
<1>1. IsWellFoundedOn(R, Nat)
  BY NatLessThanWellFounded DEF OpToRel
<1>2. SUFFICES ASSUME T # {} PROVE FALSE
  OBVIOUS
<1> HIDE DEF R
<1>3. PICK n \in T : \A m \in T : <<m, n>> \notin R
  BY <1>1, <1>2, WFMin
<1>4. n \in Nat /\ n # 0 /\ n - 1 \in Nat /\ n - 1 < n
  BY <1>3
<1>5. <<n - 1, n>> \in R
  BY <1>4 DEF R
<1>6. n - 1 \in S
  BY <1>3, <1>4, <1>5
<1> QED BY <1>3, <1>4, <1>6

\* What run is in Replay
IsRun(run, ops, h) ==
  run = [i \in 0..Len(ops) |-> IF i = 0 THEN {h} ELSE Carry(ops[i], run[i - 1])]

\* The recursion of Replay has a solution,
LEMMA RunExists ==
  ASSUME NEW ops, Len(ops) \in Nat, NEW h
  PROVE  \E run : IsRun(run, ops, h)
<1> DEFINE D(g, n) == g = [i \in 0..n |-> IF i = 0 THEN {h} ELSE Carry(ops[i], g[i - 1])]
           S == {n \in Nat : \E g : D(g, n)}
<1>1. 0 \in S
  <2>1. D([i \in 0..0 |-> {h}], 0)
    OBVIOUS
  <2> QED BY <2>1
<1>2. ASSUME NEW n \in Nat, n \in S PROVE n + 1 \in S
  <2>1. PICK g : D(g, n)
    BY <1>2
  <2> DEFINE k == [i \in 0..(n + 1) |-> IF i = 0 THEN {h} ELSE Carry(ops[i], g[i - 1])]
  <2>2. ASSUME NEW i \in 0..n PROVE k[i] = g[i]
    <3>1. g[i] = IF i = 0 THEN {h} ELSE Carry(ops[i], g[i - 1])
      BY <2>1
    <3>2. i \in 0..(n + 1)
      OBVIOUS
    <3> QED BY <3>1, <3>2
  <2>3. ASSUME NEW i \in 0..(n + 1), i # 0 PROVE i - 1 \in 0..n
    BY <2>3
  <2>4. D(k, n + 1)
    BY <2>2, <2>3
  <2> HIDE DEF D, k
  <2> QED BY <2>4
<1>3. Len(ops) \in S
  <2> HIDE DEF S
  <2> QED BY <1>1, <1>2, NatSet
<1> QED BY <1>3 DEF IsRun

\* and Replay is where it ends.
LEMMA ReplayIsRun ==
  ASSUME NEW f, NEW t, NEW h, Len(ResetOps(f, t)) \in Nat
  PROVE  \E run : IsRun(run, ResetOps(f, t), h) /\ Replay(f, t, h) = run[Len(ResetOps(f, t))]
<1> DEFINE ops == ResetOps(f, t)
           run == CHOOSE g : IsRun(g, ops, h)
<1>1. IsRun(run, ops, h)
  BY RunExists
<1>2. Replay(f, t, h) = run[Len(ops)]
  BY DEF Replay, IsRun
<1> QED BY <1>1, <1>2

\* Operations of a reset that a machine as h does not refuse
Accepted(op, h) ==
  /\ op.kind \notin {"remove", "readdress", "overfill", "edit", "awaitHealthy", "validateSh"}
  /\ (op.kind = "chmod" /\ op.path = "config") => h.config = CanonicalConfig
  /\ (op.kind = "chmod" /\ op.path = "log") => h.log # "removed"

\* Recover is never refused where its fault is recorded.
LEMMA RecoverAccepted ==
  ASSUME NEW f \in FaultIds \ Irreversible, NEW h, Between(h, f)
  PROVE  \A i \in DOMAIN Catalog[f].recover : Accepted(Catalog[f].recover[i], h)
<1> DEFINE P(g) ==
             f = g => \A i \in DOMAIN Catalog[g].recover : Accepted(Catalog[g].recover[i], h)
<1>0. \A op : op.kind \in {"put", "restart", "start", "daemonReload", "nginxReload",
                           "resetFailed"} => Accepted(op, h)
  BY DEF Accepted
<1>1. \A op \in {RestoreConfig, RestoreUnit, RestoreNginx, WriteChaos("none"), Restart,
                  StartApp, DaemonReload, NginxReload, ResetFailed} : Accepted(op, h)
  BY <1>0, Constructors, RestoreFacts
<1>2. \A facts : Accepted(Put(facts), h)
  BY <1>0, Constructors
<1>3. P("F-001")
  <2>1. Catalog["F-001"].recover = <<RestoreConfig>>
    BY CatalogOf DEF FaultF001
  <2> QED BY <1>1, <1>2, <2>1
<1>4. P("F-002")
  <2>1. Catalog["F-002"].recover = <<RestoreConfig, Restart>>
    BY CatalogOf DEF FaultF002
  <2> QED BY <1>1, <1>2, <2>1
<1>5. P("F-003")
  <2> SUFFICES ASSUME f = "F-003"
               PROVE  \A i \in DOMAIN Catalog[f].recover : Accepted(Catalog[f].recover[i], h)
    OBVIOUS
  <2> DEFINE op == RestoreConfigMode
  <2>1. op.kind = "chmod" /\ op.path = "config"
    BY Constructors DEF RestoreConfigMode
  <2>2. Catalog[f].recover = <<op, ResetFailed, Restart>>
    BY CatalogOf DEF FaultF003
  <2> HIDE DEF op
  <2>3. h.config = CanonicalConfig
    BY TraceOf, CanonicalFacts, Fields DEF OnlyIn, Between, Near
  <2>4. Accepted(op, h)
    BY <2>1, <2>3 DEF Accepted
  <2> QED BY <1>1, <2>2, <2>4
<1>6. P("F-004")
  <2> SUFFICES ASSUME f = "F-004"
               PROVE  \A i \in DOMAIN Catalog[f].recover : Accepted(Catalog[f].recover[i], h)
    OBVIOUS
  <2> DEFINE op == Chmod("state", [stateMode |-> TRUE])
  <2>1. op.kind = "chmod" /\ op.path = "state"
    BY Constructors
  <2>2. Catalog[f].recover = <<op>>
    BY CatalogOf DEF FaultF004
  <2> HIDE DEF op
  <2>4. Accepted(op, h)
    BY <2>1 DEF Accepted
  <2> QED BY <1>1, <2>2, <2>4
<1>7. P("F-005")
  <2> SUFFICES ASSUME f = "F-005"
               PROVE  \A i \in DOMAIN Catalog[f].recover : Accepted(Catalog[f].recover[i], h)
    OBVIOUS
  <2> DEFINE op == Chmod("binary", [binaryMode |-> TRUE])
  <2>1. op.kind = "chmod" /\ op.path = "binary"
    BY Constructors
  <2>2. Catalog[f].recover = <<op, Restart>>
    BY CatalogOf DEF FaultF005
  <2> HIDE DEF op
  <2>4. Accepted(op, h)
    BY <2>1 DEF Accepted
  <2> QED BY <1>1, <2>2, <2>4
<1>8. P("F-006")
  <2>1. Catalog["F-006"].recover = <<RestoreUnit, DaemonReload, Restart>>
    BY CatalogOf DEF FaultF006
  <2> QED BY <1>1, <1>2, <2>1
<1>9. P("F-007")
  <2>1. Catalog["F-007"].recover = <<RestoreNginx, NginxReload>>
    BY CatalogOf DEF FaultF007
  <2> QED BY <1>1, <1>2, <2>1
<1>10. P("F-009")
  <2> SUFFICES ASSUME f = "F-009"
               PROVE  \A i \in DOMAIN Catalog[f].recover : Accepted(Catalog[f].recover[i], h)
    OBVIOUS
  <2> DEFINE op == Chmod("log", [log |-> "kept"])
  <2>1. op.kind = "chmod" /\ op.path = "log"
    BY Constructors
  <2>2. Catalog[f].recover = <<op, Restart>>
    BY CatalogOf DEF FaultF009
  <2> HIDE DEF op
  <2>3. h.log # "removed"
    BY TraceOf DEF Between
  <2>4. Accepted(op, h)
    BY <2>1, <2>3 DEF Accepted
  <2> QED BY <1>1, <2>2, <2>4
<1>11. P("F-010")
  <2>1. Catalog["F-010"].recover = <<Restart>>
    BY CatalogOf DEF FaultF010
  <2> QED BY <1>1, <1>2, <2>1
<1>12. P("F-013")
  <2>1. Catalog["F-013"].recover = <<RestoreUnit, DaemonReload, StartApp>>
    BY CatalogOf DEF FaultF013
  <2> QED BY <1>1, <1>2, <2>1
<1>13. P("F-015")
  <2>1. Catalog["F-015"].recover = <<RestoreNginx, NginxReload>>
    BY CatalogOf DEF FaultF015
  <2> QED BY <1>1, <1>2, <2>1
<1>14. P("F-016")
  <2>1. Catalog["F-016"].recover = <<RestoreConfig, Restart>>
    BY CatalogOf DEF FaultF016
  <2> QED BY <1>1, <1>2, <2>1
<1>15. P("F-017")
  <2>1. Catalog["F-017"].recover = <<Put([emptyEnv |-> FALSE]), Restart>>
    BY CatalogOf DEF FaultF017
  <2> QED BY <1>1, <1>2, <2>1
<1>16. P("F-018")
  <2>1. Catalog["F-018"].recover = <<Put([volume |-> "free"])>>
    BY CatalogOf DEF FaultF018
  <2> QED BY <1>1, <1>2, <2>1
<1>17. P("F-019")
  <2>1. Catalog["F-019"].recover = <<Put([volume |-> "free"])>>
    BY CatalogOf DEF FaultF019
  <2> QED BY <1>1, <1>2, <2>1
<1>18. P("F-020")
  <2>1. Catalog["F-020"].recover = <<WriteChaos("none"), Restart>>
    BY CatalogOf DEF FaultF020
  <2> QED BY <1>1, <1>2, <2>1
<1>19. P("F-021")
  <2>1. Catalog["F-021"].recover = <<Put([dropRule |-> FALSE])>>
    BY CatalogOf DEF FaultF021
  <2> QED BY <1>1, <1>2, <2>1
<1> HIDE DEF P
<1>20. P(f)
  BY <1>3, <1>4, <1>5, <1>6, <1>7, <1>8, <1>9, <1>10, <1>11, <1>12, <1>13, <1>14, <1>15,
      <1>16, <1>17, <1>18, <1>19 DEF FaultIds, Irreversible
<1> QED BY <1>20 DEF P

\* Where the restart of a tier stands: nothing after it restarts again, and
\* what waits for the service comes after it.
Waiting == {"awaitHealthy", "validateSh"}
RestartsAt(ops, r) ==
  /\ r \in DOMAIN ops /\ ops[r] = Restart
  /\ \A i \in DOMAIN ops : ops[i].kind \in Waiting => i > r
  /\ \/ \A i \in DOMAIN ops : i > r => ops[i].kind \in Waiting
     \/ \A i \in DOMAIN ops : /\ ops[i].kind \notin Waiting
                              /\ i > r => ops[i].kind = "nginxReload"

\* Recover before a tier only moves the tier's restart.
LEMMA RestartAppended ==
  ASSUME NEW a, NEW b, IsSeq(a), IsSeq(b), NEW r, RestartsAt(b, r),
         \A i \in DOMAIN a : a[i].kind \notin Waiting
  PROVE  RestartsAt(a \o b, Len(a) + r)
<1> DEFINE c == a \o b
<1>1. /\ IsSeq(c)
      /\ \A i \in DOMAIN a : i \in DOMAIN c /\ c[i] = a[i]
      /\ \A i \in DOMAIN b : Len(a) + i \in DOMAIN c /\ c[Len(a) + i] = b[i]
      /\ \A i \in DOMAIN c : (i \in DOMAIN a) \/ (i - Len(a) \in DOMAIN b /\ i > Len(a))
  BY Joined
<1>2. DOMAIN a = 1..Len(a) /\ Len(a) \in Nat /\ DOMAIN b \subseteq Nat /\ DOMAIN c \subseteq Nat
  BY <1>1 DEF IsSeq
<1> HIDE DEF c
<1>3. ASSUME NEW i \in DOMAIN c
      PROVE  \/ i \in DOMAIN a /\ i <= Len(a) /\ c[i] = a[i]
             \/ i - Len(a) \in DOMAIN b /\ c[i] = b[i - Len(a)] /\ i - Len(a) \in Nat
  <2>1. CASE i \in DOMAIN a
    BY <1>1, <1>2, <2>1
  <2>2. CASE i - Len(a) \in DOMAIN b
    <3>1. Len(a) + (i - Len(a)) = i
      BY <1>2
    <3> QED BY <1>1, <1>2, <2>2, <3>1
  <2> QED BY <1>1, <2>1, <2>2
<1>4. Len(a) + r \in DOMAIN c /\ c[Len(a) + r] = Restart /\ r \in Nat /\ r > 0
  BY <1>1, <1>2 DEF RestartsAt, IsSeq
<1>5. ASSUME NEW i \in DOMAIN c, c[i].kind \in Waiting PROVE i > Len(a) + r
  <2>1. i - Len(a) \in DOMAIN b /\ c[i] = b[i - Len(a)]
    BY <1>3, <1>5
  <2>2. i - Len(a) > r
    BY <1>5, <2>1 DEF RestartsAt
  <2> QED BY <1>2, <1>4, <2>2
<1>6. ASSUME NEW i \in DOMAIN c, i > Len(a) + r
      PROVE  i - Len(a) \in DOMAIN b /\ c[i] = b[i - Len(a)] /\ i - Len(a) > r
  <2>1. ~(i <= Len(a))
    BY <1>2, <1>4, <1>6
  <2>2. i - Len(a) > r
    BY <1>2, <1>4, <1>6
  <2> QED BY <1>3, <2>1, <2>2
<1>7. CASE \A i \in DOMAIN b : i > r => b[i].kind \in Waiting
  BY <1>4, <1>5, <1>6, <1>7 DEF RestartsAt, c
<1>8. CASE \A i \in DOMAIN b : /\ b[i].kind \notin Waiting
                               /\ i > r => b[i].kind = "nginxReload"
  <2>1. \A i \in DOMAIN c : c[i].kind \notin Waiting
    BY <1>3, <1>8
  <2> QED BY <1>4, <1>6, <1>8, <2>1 DEF RestartsAt, c
<1> QED BY <1>7, <1>8 DEF RestartsAt

\* The kinds of what a tier is made of.
LEMMA TierKinds ==
  /\ RestoreConfig.kind = "put" /\ RestoreUnit.kind = "put" /\ RestoreNginx.kind = "put"
  /\ RestoreBinary.kind = "put" /\ RestoreState.kind = "put"
  /\ WriteChaos("none").kind = "put"
  /\ Repair("certificate expired").kind = "repair"
  /\ Repair("app disabled").kind = "repair" /\ Repair("nginx disabled").kind = "repair"
  /\ RestoreConfigMode.kind = "chmod" /\ RestoreConfigMode.path = "config"
  /\ Restart.kind = "restart" /\ DaemonReload.kind = "daemonReload"
  /\ NginxReload.kind = "nginxReload" /\ ResetFailed.kind = "resetFailed"
  /\ RestartNginx.kind = "restartNginx" /\ InstallConfig.kind = "installConfig"
  /\ AwaitHealthy.kind = "awaitHealthy" /\ ValidateSh.kind = "validateSh"
<1>1. RestoreBinary.kind = "put" /\ RestoreState.kind = "put"
  BY Constructors DEF RestoreBinary, RestoreState
<1>2. \A d : Repair(d).kind = "repair"
  BY Constructors
<1>3. RestoreConfigMode.kind = "chmod" /\ RestoreConfigMode.path = "config"
  BY Constructors DEF RestoreConfigMode
<1>4. /\ Restart.kind = "restart" /\ DaemonReload.kind = "daemonReload"
      /\ NginxReload.kind = "nginxReload" /\ ResetFailed.kind = "resetFailed"
      /\ RestartNginx.kind = "restartNginx" /\ InstallConfig.kind = "installConfig"
      /\ AwaitHealthy.kind = "awaitHealthy" /\ ValidateSh.kind = "validateSh"
  BY Constructors
<1> QED BY <1>1, <1>2, <1>3, <1>4, RestoreFacts

\* Tuples over a set are sequences over it.
LEMMA Listed ==
  ASSUME NEW S, NEW a \in S, NEW b \in S, NEW c \in S, NEW d \in S, NEW e \in S, NEW f \in S
  PROVE  <<a, b, c>> \in Seq(S) /\ <<a, b, c, d, e>> \in Seq(S) /\ <<a, b, c, d, e, f>> \in Seq(S)
OBVIOUS

\* The forms of R1,
LEMMA ShortTier ==
  ASSUME NEW a, NEW c, a.kind = "resetFailed", c.kind = "nginxReload", Restart.kind = "restart"
  PROVE  RestartsAt(<<a, Restart, c>>, 2)
BY DEF RestartsAt, Waiting

\* of R2,
LEMMA LongTier ==
  ASSUME NEW S, \A o \in S : o.kind \notin Waiting, Restart.kind \notin Waiting,
         NEW a \in S, NEW b \in S, NEW c \in S, NEW d \in S, NEW e \in S, NEW f \in S,
         NEW g \in S, NEW h \in S, NEW z \in S, z.kind = "nginxReload"
  PROVE  RestartsAt(<<a, b, c, d, e, f, g, h, Restart, z>>, 9)
<1> DEFINE ops == <<a, b, c, d, e, f, g, h, Restart, z>>
<1>1. ops \in Seq(S \cup {Restart}) /\ DOMAIN ops = 1..10 /\ ops[9] = Restart /\ ops[10] = z
  OBVIOUS
<1> HIDE DEF ops
<1>2. \A i \in DOMAIN ops : ops[i].kind \notin Waiting
  <2>1. \A i \in DOMAIN ops : ops[i] \in S \cup {Restart}
    BY <1>1, OwnSeq
  <2> QED BY <2>1
<1>3. RestartsAt(ops, 9)
  BY <1>1, <1>2 DEF RestartsAt
<1> QED BY <1>3 DEF ops

\* and of the end of bootstrap.sh.
LEMMA LastSteps ==
  ASSUME NEW a, NEW b, NEW c, NEW d, NEW e, a.kind = "repair", b.kind = "repair",
         c.kind = "restartNginx", d.kind = "awaitHealthy", e.kind = "validateSh",
         Restart.kind = "restart"
  PROVE  RestartsAt(<<a, b, c, Restart, d, e>>, 4)
BY DEF RestartsAt, Waiting

\* What bootstrap.sh does before its services
FileOperations ==
  {RestoreState, InstallConfig, WriteChaos("none"), RestoreBinary, RestoreUnit,
   DaemonReload, Repair("certificate expired"), RestoreNginx}

\* They neither wait nor change a mode.
LEMMA FileOperationsFirst ==
  /\ <<RestoreState, InstallConfig, WriteChaos("none")>> \in Seq(FileOperations)
  /\ BootstrapFiles \in Seq(FileOperations)
  /\ \A o \in FileOperations : o.kind \notin Waiting \cup {"chmod"}
<1> DEFINE S == FileOperations
<1>1. /\ RestoreBinary \in S /\ RestoreState \in S /\ InstallConfig \in S
      /\ WriteChaos("none") \in S /\ RestoreUnit \in S /\ DaemonReload \in S
      /\ RestoreNginx \in S /\ Repair("certificate expired") \in S
  BY DEF FileOperations
<1>2. <<RestoreState, InstallConfig, WriteChaos("none")>> \in Seq(S)
  BY <1>1, Listed
<1>3. BootstrapFiles \in Seq(S)
  BY <1>1, Listed DEF BootstrapFiles
<1>4. \A o \in {RestoreState, InstallConfig, RestoreBinary, RestoreUnit, DaemonReload,
                RestoreNginx} : o.kind \notin Waiting \cup {"chmod"}
  BY TierKinds DEF Waiting
<1>5. \A d : Repair(d).kind \notin Waiting \cup {"chmod"}
  BY Constructors DEF Waiting
<1>6. WriteChaos("none").kind \notin Waiting \cup {"chmod"}
  BY TierKinds DEF Waiting
<1>7. \A o \in S : o.kind \notin Waiting \cup {"chmod"}
  BY <1>4, <1>5, <1>6 DEF FileOperations
<1> QED BY <1>2, <1>3, <1>7

\* Every tier restarts the service, and only what waits for it or reloads nginx
\* comes after.
LEMMA TierRestarts ==
  ASSUME NEW t PROVE \E r : RestartsAt(TierOps(t), r)
<1>1. RestartsAt(TierR1, 2)
  <2>1. /\ ResetFailed.kind = "resetFailed" /\ NginxReload.kind = "nginxReload"
        /\ Restart.kind = "restart"
    BY Constructors
  <2> QED BY <2>1, ShortTier DEF TierR1
<1>2. RestartsAt(TierR2, 9)
  <2> DEFINE S == {RestoreConfig, RestoreUnit, RestoreNginx, RestoreBinary, RestoreConfigMode,
                   RestoreState, DaemonReload, ResetFailed, NginxReload}
  <2>1. \A o \in S : o.kind \notin Waiting
    BY TierKinds DEF Waiting
  <2>2. Restart.kind \notin Waiting /\ NginxReload.kind = "nginxReload"
    BY TierKinds DEF Waiting
  <2>3. /\ RestoreConfig \in S /\ RestoreUnit \in S /\ RestoreNginx \in S /\ RestoreBinary \in S
        /\ RestoreConfigMode \in S /\ RestoreState \in S /\ DaemonReload \in S
        /\ ResetFailed \in S /\ NginxReload \in S
    OBVIOUS
  <2> HIDE DEF S
  <2> QED BY <2>1, <2>2, <2>3, LongTier DEF TierR2
<1>3. \E r : RestartsAt(TierR3, r)
  <2> DEFINE head == <<RestoreState, InstallConfig, WriteChaos("none")>> \o BootstrapFiles
  <2>1. RestartsAt(BootstrapServices, 4)
    <3>1. \A d : Repair(d).kind = "repair"
      BY Constructors
    <3>2. /\ RestartNginx.kind = "restartNginx" /\ AwaitHealthy.kind = "awaitHealthy"
          /\ ValidateSh.kind = "validateSh" /\ Restart.kind = "restart"
      BY Constructors
    <3> QED BY <3>1, <3>2, LastSteps DEF BootstrapServices
  <2>2. head \in Seq(FileOperations)
    BY FileOperationsFirst
  <2>3. TierR3 = head \o BootstrapServices
    BY DEF TierR3
  <2> HIDE DEF head
  <2>4. IsSeq(head) /\ \A i \in DOMAIN head : head[i].kind \notin Waiting
    BY <2>2, OwnSeq, FileOperationsFirst
  <2>5. IsSeq(BootstrapServices)
    BY BootstrapSeqs, OwnSeq
  <2> QED BY <2>1, <2>3, <2>4, <2>5, RestartAppended
<1> QED BY <1>1, <1>2, <1>3 DEF TierOps

\* Nothing a tier does is refused once what stands before it is done.
LEMMA TierAccepted ==
  ASSUME NEW t, NEW i \in DOMAIN TierOps(t)
  PROVE  LET op == TierOps(t)[i]
         IN /\ op.kind \notin {"remove", "readdress", "overfill", "edit"}
            /\ op.kind = "chmod" =>
                 /\ op.path = "config"
                 /\ \E j \in DOMAIN TierOps(t) : j < i /\ Brings(TierOps(t)[j], "config", Installed)
<1>1. \A op \in TierOperations :
        /\ op.kind \notin {"remove", "readdress", "overfill", "edit"}
        /\ op.kind = "chmod" => op = RestoreConfigMode
  <2>1. \A d : Repair(d).kind = "repair"
    BY Constructors
  <2>2. WriteChaos("none").kind = "put"
    BY TierKinds
  <2>3. \A op \in {ResetFailed, Restart, NginxReload, RestoreConfig, RestoreUnit,
                   RestoreNginx, RestoreBinary, RestoreState, DaemonReload, InstallConfig,
                   RestartNginx, AwaitHealthy, ValidateSh} :
          op.kind \notin {"remove", "readdress", "overfill", "edit", "chmod"}
    BY TierKinds
  <2>4. RestoreConfigMode.kind = "chmod"
    BY TierKinds
  <2> QED BY <2>1, <2>2, <2>3, <2>4 DEF TierOperations
<1>2. RestoreConfigMode.path = "config"
  BY TierKinds
<1>3. TierOps(t)[i] \in TierOperations
  BY TierSeqs, OwnSeq
<1>4. ASSUME TierOps(t)[i].kind = "chmod"
      PROVE  \E j \in DOMAIN TierOps(t) : j < i /\ Brings(TierOps(t)[j], "config", Installed)
  <2>1. TierOps(t)[i] = RestoreConfigMode
    BY <1>1, <1>3, <1>4
  <2>2. CASE TierOps(t) = TierR1
    <3>1. {ResetFailed.kind, Restart.kind, NginxReload.kind} \cap {"chmod"} = {}
      BY Constructors
    <3>2. TierR1[i] \in {ResetFailed, Restart, NginxReload}
      BY <2>2 DEF TierR1
    <3> QED BY <1>4, <2>2, <3>1, <3>2
  <2>3. CASE TierOps(t) = TierR2
    <3>1. DOMAIN TierR2 = 1..10 /\ TierR2[1] = RestoreConfig
      BY DEF TierR2
    <3>2. Brings(RestoreConfig, "config", Installed) /\ RestoreConfig.kind = "put"
      BY RestoreFacts DEF Brings, Overlays
    <3>3. i # 1
      BY <1>4, <2>3, <3>1, <3>2
    <3> QED BY <2>3, <3>1, <3>2, <3>3
  <2>4. CASE TierOps(t) = TierR3
    <3> DEFINE S == {o \in TierOperations : o.kind # "chmod"}
    <3>1. /\ Repair("app disabled") \in S /\ Repair("nginx disabled") \in S
          /\ RestartNginx \in S /\ Restart \in S /\ AwaitHealthy \in S /\ ValidateSh \in S
      BY Constructors DEF TierOperations
    <3>2. FileOperations \subseteq S
      BY FileOperationsFirst DEF FileOperations, TierOperations
    <3>3. \A o \in S : o.kind # "chmod"
      OBVIOUS
    <3> HIDE DEF S
    <3>4. BootstrapServices \in Seq(S)
      BY <3>1, Listed DEF BootstrapServices
    <3>5. TierR3 \in Seq(S)
      <4>1. /\ <<RestoreState, InstallConfig, WriteChaos("none")>> \in Seq(S)
            /\ BootstrapFiles \in Seq(S)
        BY <3>2, FileOperationsFirst
      <4> QED BY <3>4, <4>1 DEF TierR3
    <3> QED BY <1>4, <2>4, <3>3, <3>5, OwnSeq
  <2> QED BY <2>2, <2>3, <2>4 DEF TierOps
<1> QED BY <1>1, <1>2, <1>3, <1>4

\* No operation is refused for what the machine is, or for what the operations
\* before it have made of it.
Unrefused(ops, h) ==
  \A i \in DOMAIN ops :
    /\ ops[i].kind \notin {"remove", "readdress", "overfill", "edit"}
    /\ (ops[i].kind = "chmod" /\ ops[i].path = "config") =>
         \/ h.config = CanonicalConfig
         \/ \E j \in 1..(i - 1) : Brings(ops[j], "config", Installed)
    /\ (ops[i].kind = "chmod" /\ ops[i].path = "log") => h.log # "removed"

\* A reset of the recorded fault is not refused, and restarts the service.
LEMMA ResetUnrefused ==
  ASSUME NEW f \in FaultIds, NEW t, NEW h, Between(h, f)
  PROVE  Unrefused(ResetOps(f, t), h) /\ \E r : RestartsAt(ResetOps(f, t), r)
<1> DEFINE a == IF f = NoneActive \/ f \in Irreversible THEN <<>> ELSE Catalog[f].recover
           b == TierOps(t)
           c == a \o b
<1>1. ResetOps(f, t) = c
  BY DEF ResetOps
<1>2. IsSeq(a) /\ \A i \in DOMAIN a : Accepted(a[i], h)
  <2>1. CASE f = NoneActive \/ f \in Irreversible
    BY <2>1 DEF IsSeq
  <2>2. CASE ~(f = NoneActive \/ f \in Irreversible)
    BY <2>2, CatalogSeqs, RecoverAccepted
  <2> QED BY <2>1, <2>2
<1>3. IsSeq(b)
  BY TierSeqs, OwnSeq
<1>4. \A i \in DOMAIN b :
        /\ b[i].kind \notin {"remove", "readdress", "overfill", "edit"}
        /\ b[i].kind = "chmod" =>
             /\ b[i].path = "config"
             /\ \E j \in DOMAIN b : j < i /\ Brings(b[j], "config", Installed)
  BY TierAccepted
<1>5. PICK q : RestartsAt(b, q)
  BY TierRestarts
<1> HIDE DEF a, b
<1>6. /\ IsSeq(c)
      /\ \A i \in DOMAIN a : i \in DOMAIN c /\ c[i] = a[i]
      /\ \A i \in DOMAIN b : Len(a) + i \in DOMAIN c /\ c[Len(a) + i] = b[i]
      /\ \A i \in DOMAIN c : (i \in DOMAIN a) \/ (i - Len(a) \in DOMAIN b /\ i > Len(a))
  BY <1>2, <1>3, Joined
<1>7. Len(a) \in Nat /\ DOMAIN b \subseteq Nat \ {0} /\ DOMAIN c \subseteq Nat
  BY <1>2, <1>3, <1>6 DEF IsSeq
<1>8. RestartsAt(c, Len(a) + q)
  BY <1>2, <1>3, <1>5, RestartAppended DEF Accepted, Waiting
<1> HIDE DEF c
<1>9. ASSUME NEW i \in DOMAIN c
      PROVE  /\ c[i].kind \notin {"remove", "readdress", "overfill", "edit"}
             /\ (c[i].kind = "chmod" /\ c[i].path = "config") =>
                  \/ h.config = CanonicalConfig
                  \/ \E j \in 1..(i - 1) : Brings(c[j], "config", Installed)
             /\ (c[i].kind = "chmod" /\ c[i].path = "log") => h.log # "removed"
  <2>1. CASE i \in DOMAIN a
    BY <1>2, <1>6, <2>1 DEF Accepted
  <2>2. ASSUME i - Len(a) \in DOMAIN b
        PROVE  /\ c[i].kind \notin {"remove", "readdress", "overfill", "edit"}
               /\ c[i].kind = "chmod" =>
                    /\ c[i].path = "config"
                    /\ \E j \in 1..(i - 1) : Brings(c[j], "config", Installed)
    <3>1. Len(a) + (i - Len(a)) = i
      BY <1>7
    <3>2. c[i] = b[i - Len(a)]
      BY <1>6, <2>2, <3>1
    <3>3. ASSUME NEW j \in DOMAIN b, j < i - Len(a), Brings(b[j], "config", Installed)
          PROVE  Len(a) + j \in 1..(i - 1) /\ Brings(c[Len(a) + j], "config", Installed)
      BY <1>6, <1>7, <3>3
    <3> QED BY <1>4, <2>2, <3>2, <3>3
  <2> QED BY <1>6, <2>1, <2>2
<1>10. Unrefused(c, h)
  BY <1>9 DEF Unrefused
<1> QED BY <1>1, <1>8, <1>10

\* An operation leaves the process alone or starts it.
LEMMA EffectProcess ==
  ASSUME NEW op, Fits(op, Installed), op.kind \notin {"remove", "readdress", "edit"},
         NEW h, Shaped(h), h.limited = FALSE
  PROVE  /\ Effect(op, h).limited = FALSE
         /\ \/ Effect(op, h).proc = h.proc /\ Effect(op, h).addr = h.addr
            \/ Effect(op, h).proc = "starting"
         /\ op.kind = "restart" => Effect(op, h).proc = "starting"
<1> USE Fields DEF Shaped
<1>1. CASE op.kind \in Overlays
  BY <1>1 DEF Effect, With, Fits, Overlays
<1>2. CASE op.kind = "installConfig"
  <2>1. DOMAIN RestoreConfig.facts = {"config", "configMode"}
    BY RestoreFacts
  <2>2. Effect(op, h) = IF h.config = Absent THEN With(h, RestoreConfig.facts) ELSE h
    BY <1>2 DEF Effect
  <2>3. \A x \in {"limited", "proc", "addr"} : With(h, RestoreConfig.facts)[x] = h[x]
    BY <2>1 DEF With
  <2> QED BY <1>2, <2>2, <2>3
<1>3. CASE op.kind \in {"restart", "start"}
  <2>1. Effect(op, h) \in {h, Become(h, "starting")}
    BY <1>3 DEF Effect
  <2>2. op.kind = "restart" => Effect(op, h) = Become(h, "starting")
    BY DEF Effect
  <2>3. Become(h, "starting").limited = FALSE /\ Become(h, "starting").proc = "starting"
    BY DEF Become
  <2> QED BY <2>1, <2>2, <2>3
<1>4. CASE op.kind \notin Overlays \cup {"installConfig", "restart", "start"}
  BY <1>4 DEF Effect, Overlays
<1> QED BY <1>1, <1>2, <1>3, <1>4

\* The service comes up if it can, on its address, and creates its log.
LEMMA SettleFacts ==
  ASSUME NEW g, Shaped(g), g.config # Absent => g.config[2] = Loopback,
         g.proc = "up" => g.addr = Loopback
  PROVE  /\ Shaped(Settle(g)) /\ Settle(g).limited = g.limited
         /\ \A x \in Facts \ {"log"} : Settle(g)[x] = g[x]
         /\ Settle(g).log \in {g.log, "kept"}
         /\ Settle(g).proc = "up" => Settle(g).addr = Loopback
         /\ g.proc = "up" => Settle(g).proc = "up"
         /\ (g.proc = "starting" /\ Startable(g)) =>
              Settle(g).proc = "up" /\ Settle(g).log = "kept"
<1>1. CASE g.proc = "starting" /\ Startable(g)
  <2>1. Settle(g) = ComeUp(g) /\ g.config # Absent
    BY <1>1 DEF Settle, Startable
  <2>2. /\ Shaped(ComeUp(g)) /\ ComeUp(g).limited = g.limited
        /\ \A x \in Facts \ {"log"} : ComeUp(g)[x] = g[x]
        /\ ComeUp(g).log = "kept" /\ ComeUp(g).proc = "up" /\ ComeUp(g).addr = g.config[2]
    BY Fields DEF ComeUp, Become, Shaped
  <2> QED BY <2>1, <2>2
<1>2. CASE ~(g.proc = "starting" /\ Startable(g))
  BY <1>2 DEF Settle
<1> QED BY <1>1, <1>2

\* The machine k after the first i operations, when it was h before them
Restoring(k, ops, i, h) ==
  /\ Shaped(k) /\ k.limited = FALSE
  /\ k.proc = "up" => k.addr = Loopback
  /\ k.config # Absent => k.config[2] = Loopback
  /\ \A x \in Facts : \/ k[x] = Installed[x]
                      \/ k[x] = h[x] /\ \A j \in 1..i : ~Brings(ops[j], x, Installed)

\* The service is up on a machine that is as installed.
Recovered(k) == k.proc = "up" /\ k.addr = Loopback /\ \A x \in Facts : k[x] = Installed[x]

\* Such a machine passes the whole suite.
LEMMA RecoveredPasses ==
  ASSUME NEW k, Recovered(k)
  PROVE  Canonical(k) /\ Failing(k) = {} /\ IsConformant(k)
<1>1. Canonical(k)
  BY DEF Canonical, Recovered, Facts
<1>2. /\ k.outside = {} /\ k.config = CanonicalConfig /\ k.configMode = TRUE
      /\ k.binaryMode = TRUE /\ k.stateMode = TRUE /\ k.volume = "free" /\ k.log = "kept"
      /\ k.nginx = {} /\ k.loadedNginx = {} /\ k.proc = "up" /\ k.addr = Loopback
  BY CanonicalFacts, Fields DEF Recovered
<1>3. NginxUp(k) /\ NginxTest(k)
  BY <1>2 DEF NginxUp, NginxTest
<1>4. Proxied(k)
  BY <1>2, <1>3 DEF Proxied
<1>5. Touchable(k)
  BY <1>2 DEF Touchable
<1>6. k.config # Absent
  BY <1>2 DEF CanonicalConfig, Absent
<1>7. SystemFailing(k) = {} /\ LogFailing(k) = {}
  BY <1>2, <1>3 DEF SystemFailing, LogFailing, Unless
<1>8. ProcessFailing(k) = {}
  BY <1>2, <1>3 DEF ProcessFailing, Unless
<1>9. EndpointFailing(k) = {}
  BY <1>2, <1>3, <1>4, <1>5 DEF EndpointFailing, Unless
<1>10. FileFailing(k) = {}
  BY <1>2, <1>3, <1>6 DEF FileFailing, Unless
<1>11. Failing(k) = {}
  BY <1>7, <1>8, <1>9, <1>10 DEF Failing
<1> QED BY <1>1, <1>11 DEF IsConformant

\* One operation: it succeeds, and brings what it is there for.
LEMMA StepRestores ==
  ASSUME NEW ops, IsSeq(ops), NEW i \in DOMAIN ops, NEW h, h.outside = {},
         Pending(ops, h, Installed), Unrefused(ops, h),
         NEW k, Restoring(k, ops, i - 1, h),
         ops[i].kind \in Waiting => Recovered(k)
  PROVE  /\ Succeeds(ops[i], k)
         /\ Restoring(Settle(Effect(ops[i], k)), ops, i, h)
         /\ (k.proc = "up" /\ k.log = "kept" /\ ops[i].kind \in Waiting \cup {"nginxReload"}) =>
              LET g == Settle(Effect(ops[i], k)) IN g.proc = "up" /\ g.log = "kept"
         /\ (ops[i].kind = "restart" /\ Startable(Effect(ops[i], k))) =>
              LET g == Settle(Effect(ops[i], k)) IN g.proc = "up" /\ g.log = "kept"
<1> DEFINE op == ops[i]
           e == Effect(op, k)
           g == Settle(e)
<1>1. i \in Nat /\ i > 0 /\ \A j \in 1..(i - 1) : j \in 1..i
  BY DEF IsSeq
<1>2. Fits(op, Installed) /\ InOrder(ops, i, h, Installed)
  BY DEF Pending
<1>3. \A x \in Facts : k[x] = Installed[x] \/ k[x] = h[x]
  BY DEF Restoring
<1>4. Shaped(k) /\ k.limited = FALSE /\ k.outside = {}
  BY <1>3, Fields, CanonicalFacts DEF Restoring
<1>5. \A x \in Facts : (h[x] = Installed[x] \/ \E j \in 1..(i - 1) : Brings(ops[j], x, Installed))
                         => k[x] = Installed[x]
  BY DEF Restoring
<1>6. /\ op.kind = "daemonReload" => k.unit = Installed.unit
      /\ op.kind \in NginxLoads => k.nginx = Installed.nginx
  BY <1>2, <1>5, Fields DEF InOrder
<1>7. op.kind \notin {"remove", "readdress", "overfill", "edit"}
  BY DEF Unrefused
<1>8. op.kind \in NginxLoads => NginxTest(k) /\ NginxUp(k)
  BY <1>4, <1>6, CanonicalFacts DEF NginxTest, NginxUp
<1>9. op.kind = "chmod" => ~Gone(op.path, k)
  <2>1. ASSUME op.kind = "chmod", op.path = "config" PROVE k.config = CanonicalConfig
    <3>1. h.config = CanonicalConfig \/ \E j \in 1..(i - 1) : Brings(ops[j], "config", Installed)
      BY <2>1 DEF Unrefused
    <3> QED BY <3>1, <1>5, Fields, CanonicalFacts
  <2>2. ASSUME op.kind = "chmod", op.path = "log" PROVE k.log # "removed"
    <3>1. h.log # "removed"
      BY <2>2 DEF Unrefused
    <3> QED BY <3>1, <1>3, Fields, CanonicalFacts
  <2>3. CanonicalConfig # Absent
    BY DEF CanonicalConfig, Absent
  <2> QED BY <2>1, <2>2, <2>3 DEF Gone
<1>10. /\ op.kind = "awaitHealthy" => k.proc = "up"
       /\ op.kind = "validateSh" => Failing(k) = {}
  BY RecoveredPasses DEF Waiting, Recovered
<1> HIDE DEF op
<1>11. Succeeds(op, k)
  BY <1>4, <1>7, <1>8, <1>9, <1>10 DEF Succeeds, NginxLoads
<1>12. /\ Shaped(e)
       /\ \A x \in Facts : \/ e[x] = Installed[x]
                           \/ e[x] = k[x] /\ ~Brings(op, x, Installed)
  BY <1>2, <1>4, <1>6, <1>7, <1>11, EffectToward
<1>13. /\ e.limited = FALSE
       /\ (e.proc = k.proc /\ e.addr = k.addr) \/ e.proc = "starting"
       /\ op.kind = "restart" => e.proc = "starting"
  BY <1>2, <1>4, <1>7, EffectProcess
<1>14. op.kind \in Waiting \cup {"nginxReload"} => e.proc = k.proc /\ e.log = k.log
  BY <1>4, Fields DEF Effect, Waiting, Shaped
<1> HIDE DEF e
<1>15. e.config # Absent => e.config[2] = Loopback
  <2>1. e.config = CanonicalConfig \/ e.config = k.config
    BY <1>12, Fields, CanonicalFacts
  <2>2. k.config # Absent => k.config[2] = Loopback
    BY DEF Restoring
  <2>3. CanonicalConfig[2] = Loopback
    BY DEF CanonicalConfig
  <2> QED BY <2>1, <2>2, <2>3
<1>16. e.proc = "up" => e.addr = Loopback
  BY <1>13 DEF Restoring
<1>17. /\ Shaped(g) /\ g.limited = FALSE
       /\ \A x \in Facts \ {"log"} : g[x] = e[x]
       /\ g.log \in {e.log, "kept"}
       /\ g.proc = "up" => g.addr = Loopback
       /\ e.proc = "up" => g.proc = "up"
       /\ (e.proc = "starting" /\ Startable(e)) => g.proc = "up" /\ g.log = "kept"
  BY <1>12, <1>13, <1>15, <1>16, SettleFacts
<1> HIDE DEF g
<1>18. \A x \in Facts : g[x] = Installed[x] \/ g[x] = e[x]
  BY <1>17, CanonicalFacts
<1>19. ASSUME NEW x \in Facts
       PROVE  \/ g[x] = Installed[x]
              \/ g[x] = h[x] /\ \A j \in 1..i : ~Brings(ops[j], x, Installed)
  <2>1. \/ k[x] = Installed[x]
        \/ k[x] = h[x] /\ \A j \in 1..(i - 1) : ~Brings(ops[j], x, Installed)
    BY DEF Restoring
  <2>2. ASSUME NEW j \in 1..i, j # i PROVE j \in 1..(i - 1)
    BY <1>1, <2>2
  <2> QED BY <1>12, <1>18, <2>1, <2>2 DEF op
<1>20. g.config # Absent => g.config[2] = Loopback
  BY <1>15, <1>17, Fields
<1>21. Restoring(g, ops, i, h)
  BY <1>17, <1>19, <1>20 DEF Restoring
<1>22. (k.proc = "up" /\ k.log = "kept" /\ op.kind \in Waiting \cup {"nginxReload"})
         => g.proc = "up" /\ g.log = "kept"
  BY <1>14, <1>17
<1>23. (op.kind = "restart" /\ Startable(e)) => g.proc = "up" /\ g.log = "kept"
  BY <1>13, <1>17
<1> QED BY <1>11, <1>21, <1>22, <1>23 DEF op, e, g

\* An operation that succeeds takes one machine to one machine.
LEMMA CarryOne ==
  ASSUME NEW op, NEW k, Succeeds(op, k)
  PROVE  Carry(op, {k}) = {Settle(Effect(op, k))}
BY DEF Carry

\* From h, which is not in the way of the reset, one machine is reached, and it
\* is as installed.
LEMMA ReplayRecovers ==
  ASSUME NEW ops, IsSeq(ops), NEW r, RestartsAt(ops, r),
         NEW h, Shaped(h), h.outside = {}, h.limited = FALSE,
         h.proc = "up" => h.addr = Loopback,
         h.config # Absent => h.config[2] = Loopback,
         Pending(ops, h, Installed), Unrefused(ops, h),
         NEW run, IsRun(run, ops, h)
  PROVE  \E k : run[Len(ops)] = {k} /\ Recovered(k)
<1> DEFINE n == Len(ops)
           Up(k) == k.proc = "up" /\ k.log = "kept"
           Good(i, k) == /\ run[i] = {k} /\ Restoring(k, ops, i, h)
                         /\ i >= r => Up(k)
           S == {i \in Nat : i <= n => \E k : Good(i, k)}
<1>1. /\ n \in Nat /\ DOMAIN ops = 1..n /\ r \in 1..n /\ ops[r] = Restart
      /\ \A i \in DOMAIN ops : i > r => ops[i].kind \in Waiting \cup {"nginxReload"}
      /\ \A i \in DOMAIN ops : ops[i].kind \in Waiting => i > r
  BY DEF IsSeq, RestartsAt
<1>2. run[0] = {h} /\ \A i \in 1..n : run[i] = Carry(ops[i], run[i - 1])
  <2>1. run = [i \in 0..n |-> IF i = 0 THEN {h} ELSE Carry(ops[i], run[i - 1])]
    BY DEF IsRun
  <2>2. 0 \in 0..n /\ \A i \in 1..n : i \in 0..n /\ i # 0
    BY <1>1
  <2> HIDE DEF n
  <2>3. run[0] = {h}
    BY <2>1, <2>2
  <2>4. ASSUME NEW i \in 1..n PROVE run[i] = Carry(ops[i], run[i - 1])
    BY <2>1, <2>2
  <2> QED BY <2>3, <2>4
\* What has not been brought before the restart is not brought after it, but
\* for what nginx has loaded.
<1>3. ASSUME NEW i \in 0..n, i >= r - 1, NEW k, Restoring(k, ops, i, h),
             NEW x \in Facts \ {"loadedNginx"}
      PROVE  Near(x, k, Installed)
  <2>1. CASE k[x] = Installed[x]
    BY <2>1 DEF Near
  <2>2. ASSUME k[x] = h[x], \A j \in 1..i : ~Brings(ops[j], x, Installed)
        PROVE  Near(x, k, Installed)
    <3>1. ASSUME NEW j \in DOMAIN ops, Brings(ops[j], x, Installed) PROVE FALSE
      <4>1. j \notin 1..i
        BY <2>2, <3>1
      <4>2. j \in 1..n /\ j >= r
        BY <1>1, <1>3, <4>1
      <4>3. CASE j = r
        <5>1. ops[j].kind = "restart"
          BY <1>1, <4>3, Constructors
        <5> QED BY <3>1, <5>1 DEF Brings, Overlays, NginxLoads
      <4>4. CASE j > r
        <5>1. ops[j].kind \in Waiting \cup {"nginxReload"}
          BY <1>1, <4>4
        <5> QED BY <1>3, <3>1, <5>1 DEF Brings, Overlays, NginxLoads, Waiting
      <4> QED BY <1>1, <4>2, <4>3, <4>4
    <3>2. Near(x, h, Installed)
      BY <3>1 DEF Pending
    <3> QED BY <2>2, <3>2 DEF Near
  <2> QED BY <1>3, <2>1, <2>2 DEF Restoring
<1>4. ASSUME NEW i \in 0..n, i >= r, NEW k, Good(i, k),
             \A j \in DOMAIN ops : j > i => ops[j].kind # "nginxReload"
      PROVE  Recovered(k)
  <2>1. \A x \in Facts \ {"loadedNginx"} : k[x] = Installed[x]
    <3>1. \A x \in Facts \ {"loadedNginx"} : Near(x, k, Installed)
      BY <1>1, <1>3, <1>4
    <3> QED BY <1>4, <3>1, CanonicalFacts DEF Near
  <2>2. k.loadedNginx = Installed.loadedNginx
    <3> SUFFICES ASSUME k.loadedNginx = h.loadedNginx,
                        \A j \in 1..i : ~Brings(ops[j], "loadedNginx", Installed)
                 PROVE  k.loadedNginx = Installed.loadedNginx
      BY <1>4, Fields DEF Restoring
    <3>1. ASSUME NEW j \in DOMAIN ops, Brings(ops[j], "loadedNginx", Installed) PROVE FALSE
      <4>1. j \in 1..n /\ j > i /\ j > r
        BY <1>1, <1>4, <3>1
      <4>2. ops[j].kind \in Waiting
        BY <1>1, <1>4, <4>1
      <4> QED BY <3>1, <4>2 DEF Brings, Overlays, NginxLoads, Waiting
    <3>2. Near("loadedNginx", h, Installed)
      BY <3>1, Fields DEF Pending
    <3> QED BY <3>2 DEF Near
  <2> QED BY <1>4, <2>1, <2>2 DEF Recovered, Restoring
<1>5. 0 \in S
  <2>1. Good(0, h)
    BY <1>1, <1>2 DEF Restoring
  <2> QED BY <2>1
<1>6. ASSUME NEW i \in Nat, i \in S PROVE i + 1 \in S
  <2> SUFFICES ASSUME i + 1 <= n PROVE \E k : Good(i + 1, k)
    OBVIOUS
  <2>1. PICK k : Good(i, k)
    BY <1>1, <1>6
  <2> DEFINE op == ops[i + 1]
             g == Settle(Effect(op, k))
  <2>2. i + 1 \in DOMAIN ops /\ i \in 0..n /\ (i + 1) - 1 = i
    BY <1>1
  <2>3. ASSUME op.kind \in Waiting PROVE Recovered(k)
    <3>1. i >= r
      BY <1>1, <2>2, <2>3
    <3>2. \A j \in DOMAIN ops : j > r => ops[j].kind \in Waiting
      BY <2>2, <2>3 DEF RestartsAt
    <3>3. \A j \in DOMAIN ops : j > i => ops[j].kind # "nginxReload"
      BY <1>1, <3>1, <3>2 DEF Waiting
    <3> QED BY <1>4, <2>1, <2>2, <3>1, <3>3
  <2>4. /\ Succeeds(op, k)
        /\ Restoring(g, ops, i + 1, h)
        /\ (Up(k) /\ op.kind \in Waiting \cup {"nginxReload"}) => Up(g)
        /\ (op.kind = "restart" /\ Startable(Effect(op, k))) => Up(g)
    BY <2>1, <2>2, <2>3, StepRestores
  <2>5. run[i + 1] = {g}
    BY <1>1, <1>2, <2>1, <2>2, <2>4, CarryOne
  <2>6. CASE i >= r
    <3>1. op.kind \in Waiting \cup {"nginxReload"}
      BY <1>1, <2>2, <2>6
    <3> QED BY <2>1, <2>4, <2>5, <2>6, <3>1
  <2>7. CASE i + 1 = r
    <3>1. op.kind = "restart"
      BY <1>1, <2>7, Constructors
    <3>2. \A x \in Facts \ {"loadedNginx"} : Near(x, k, Installed)
      BY <1>1, <1>3, <2>1, <2>2, <2>7
    <3>3. \A x \in Facts : Effect(op, k)[x] = k[x]
      <4>1. Effect(op, k) = Become(k, "starting")
        BY <3>1 DEF Effect
      <4> QED BY <2>1, <4>1, BecomeFacts DEF Restoring
    <3>4. Startable(Effect(op, k))
      <4>1. /\ k.binaryMode = TRUE /\ k.stateMode = TRUE /\ k.config = CanonicalConfig
            /\ k.configMode = TRUE /\ k.loadedUnit = {} /\ k.log # "denied"
        BY <3>2, Fields, CanonicalFacts DEF Near
      <4>2. CanonicalConfig # Absent
        BY DEF CanonicalConfig, Absent
      <4> QED BY <3>3, <4>1, <4>2, Fields DEF Startable, Executable
    <3> QED BY <2>4, <2>5, <3>1, <3>4
  <2>8. CASE i + 1 < r
    BY <1>1, <2>4, <2>5, <2>8
  <2> QED BY <1>1, <2>6, <2>7, <2>8
<1> HIDE DEF S
<1>7. Nat \subseteq S
  BY <1>5, <1>6, NatSet
<1>8. PICK k : Good(n, k)
  BY <1>1, <1>7 DEF S
<1>9. Recovered(k)
  BY <1>1, <1>4, <1>8
<1> QED BY <1>8, <1>9

\* fault-model.md 3.1, of Recover and executeTier: wherever earlier resets of
\* the recorded fault stopped, running one again is not refused and leaves a
\* canonical machine that passes the suite.
THEOREM CatalogRetrySucceeds == Spec => []RetrySucceeds
<1>1. CatalogInv => RetrySucceeds
  <2> SUFFICES ASSUME CatalogInv, Idle, record.fault # NoneActive, Accounted,
                      NEW t \in IF record.fault \in Irreversible THEN {"R3"} ELSE Tiers
               PROVE  LET end == Replay(record.fault, t, [host EXCEPT !.limited = FALSE])
                      IN end # {} /\ \A h \in end : Canonical(h) /\ IsConformant(h)
    BY DEF RetrySucceeds
  <2> DEFINE f == record.fault
             m == [host EXCEPT !.limited = FALSE]
             ops == ResetOps(f, t)
  <2>1. f \in FaultIds /\ (f \in Irreversible => t = "R3")
    BY FaultsAssumption DEF CatalogInv, TypeOK
  <2>2. host.outside = {} /\ ListenerInv /\ Between(host, f) /\ Shaped(host)
    BY DEF CatalogInv, TraceInv, TypeOK, HostType, Shaped, Idle
  <2>3. Shaped(m) /\ m.limited = FALSE /\ \A x \in DOMAIN Values \ {"limited"} : m[x] = host[x]
    BY <2>2, Fields DEF Shaped
  <2>4. \A x \in Facts \cup {"proc", "addr"} : m[x] = host[x]
    BY <2>3, Fields
  <2> HIDE DEF m, f
  <2>5. Between(m, f)
    BY <2>2, <2>4, Fields DEF Between, Near
  <2>6. /\ m.outside = {}
        /\ m.proc = "up" => m.addr = Loopback
        /\ m.config # Absent => m.config[2] = Loopback
    BY <2>2, <2>4, Fields DEF ListenerInv
  <2>7. IsSeq(ops) /\ Pending(ops, m, Installed)
    BY <2>1, <2>5, ResetFits, ResetPlan
  <2>8. Unrefused(ops, m) /\ \E r : RestartsAt(ops, r)
    BY <2>1, <2>5, ResetUnrefused
  <2>9. Len(ops) \in Nat
    BY <2>7 DEF IsSeq
  <2>10. PICK run : IsRun(run, ops, m) /\ Replay(f, t, m) = run[Len(ops)]
    BY <2>9, ReplayIsRun
  <2> HIDE DEF ops
  <2>11. \E k : Replay(f, t, m) = {k} /\ Recovered(k)
    BY <2>3, <2>6, <2>7, <2>8, <2>10, ReplayRecovers
  <2>12. Replay(f, t, m) # {} /\ \A h \in Replay(f, t, m) : Canonical(h) /\ IsConformant(h)
    BY <2>11, RecoveredPasses
  <2> QED BY <2>12 DEF f, m
<1> QED BY <1>1, CatalogInvariant, PTL

=============================================================================
