---------------------------- MODULE MCLabControl ----------------------------
(* Model-checking instance of LabControl.                                    *)
(*   f004: state directory mode 000, seen by status through GET /,           *)
(*         reversible, tier R2                                               *)
(*   f008: an entry in chaos.env, seen by no check, confirmed, tier R3       *)
(* Two residues that come from outside: a wrong mode on the binary, seen only *)
(* by the suite and cleared by R2 and R3, and a port taken by a foreign       *)
(* process, seen by every check and cleared by no tier.                       *)
EXTENDS LabControl, TLC

CONSTANTS p1, p2, p3, none, f004, f008, null, unreadable,
          stateDirMode, chaosEnv, binaryMode, portTaken

MCProcs == {p1, p2}
MCThreeProcs == {p1, p2, p3}
MCSymmetry == Permutations(MCProcs)
MCThreeSymmetry == Permutations(MCThreeProcs)
MCFaults == {f004, f008}
MCResidues == {stateDirMode, chaosEnv, binaryMode, portTaken}
MCLeaves == [f \in MCFaults |-> IF f = f004 THEN {stateDirMode} ELSE {chaosEnv}]
MCUndoes == MCLeaves
MCReversible == {f004}
MCConfirm == {f008}
MCPreBlocked == [f \in MCFaults |-> {}]
MCTierOf == [f \in MCFaults |-> IF f = f004 THEN "R2" ELSE "R3"]
MCClears == [t \in Tiers |-> CASE t = "R1" -> {}
                               [] t = "R2" -> {stateDirMode, binaryMode}
                               [] t = "R3" -> MCResidues \ {portTaken}]
MCSuiteBreaking == {stateDirMode, binaryMode, portTaken}
MCLightBreaking == {stateDirMode, portTaken}

Line(op) == [NoCommand EXCEPT !.op = op]
Apply(f, force, yes) == [Line("apply") EXCEPT !.fault = f, !.force = force, !.yes = yes]
Reset(tier) == [Line("reset") EXCEPT !.tier = tier]
Reprovision == [Line("provision") EXCEPT !.tier = "R3"]
MCCommands ==
  {Apply(f004, FALSE, FALSE), Apply(f004, TRUE, FALSE), Apply(f008, FALSE, FALSE),
   Apply(f008, TRUE, TRUE), Reset(""), Reset("R1"), Reset("other"),
   Reprovision, Line("status"), Line("validate")}

\* Without the two command lines that end before they change anything.
MCActiveCommands == MCCommands \ {Apply(f008, FALSE, FALSE), Reset("other")}

\* The command lines of the larger instances.
MCTroubledCommands == MCActiveCommands \ {Apply(f004, TRUE, FALSE), Reset("R1")}
MCCalmCommands == MCActiveCommands \ {Apply(f004, TRUE, FALSE), Reprovision}

Classified(s, v, f) == [state |-> s, valid |-> v, fault |-> f]
MCInitials ==
  {[file |-> Classified("CONFORMANT", TRUE, null), env |-> {}],
   [file |-> Classified("CONFORMANT", FALSE, null), env |-> {binaryMode}],
   [file |-> Classified("DEGRADED", TRUE, f004), env |-> {stateDirMode, chaosEnv}],
   [file |-> Classified("BROKEN", TRUE, null), env |-> {binaryMode, portTaken}],
   [file |-> unreadable, env |-> {stateDirMode}]}

\* Interrupts and drift reach the others.
MCTroubledInitials ==
  {i \in MCInitials : i.file # unreadable => i.file.state # "BROKEN" /\ i.file.valid}

-----------------------------------------------------------------------------
(* A smaller instance for the temporal properties and for the shortest       *)
(* counterexamples:                                                          *)
(*   f010: the log file is unlinked, which fails no blocking check; applied  *)
(*         only while the process check P-001 passes, reversible, tier R1    *)
CONSTANTS f010, logUnlinked

MCSmallFaults == {f010}
MCSmallResidues == {logUnlinked, portTaken}
MCSmallLeaves == [f \in MCSmallFaults |-> {logUnlinked}]
MCSmallPreBlocked == [f \in MCSmallFaults |-> {portTaken}]
MCSmallTierOf == [f \in MCSmallFaults |-> "R1"]
MCSmallClears == [t \in Tiers |-> {logUnlinked}]
MCSmallBreaking == {portTaken}
MCSmallCommands ==
  {Apply(f010, FALSE, FALSE), Reset(""), Reset("other"), Line("status"), Line("validate")}
MCSmallInitials ==
  {[file |-> Classified("CONFORMANT", TRUE, null), env |-> {}],
   [file |-> Classified("BROKEN", FALSE, null), env |-> {portTaken}]}

-----------------------------------------------------------------------------
(* Both instances are what the catalog says.  LabCatalog has the machine     *)
(* behind each residue but the foreign process; the constants are compared   *)
(* with what its operations do to that machine and what its checks see of it. *)
Machine == INSTANCE LabCatalog WITH
  Faults <- {}, MaxTrouble <- 0,
  host <- {}, record <- {}, cmd <- {}, todo <- {}, dirt <- {}, trouble <- 0
Seqs == INSTANCE SequencesExt

Id == f004 :> "F-004" @@ f008 :> "F-008" @@ f010 :> "F-010"

Clean == Machine!Serving @@ Machine!Installed
Deviating ==
  stateDirMode :> [Clean EXCEPT !.stateMode = FALSE]
  @@ chaosEnv :> [Clean EXCEPT !.chaos = "nosigterm", !.deaf = TRUE]
  @@ binaryMode :> [Clean EXCEPT !.binaryMode = FALSE]
  @@ logUnlinked :> [Clean EXCEPT !.log = "removed"]

\* The machine after operations to which nothing happens from outside.
After(ops, h) == Seqs!FoldLeft(LAMBDA hosts, op : Machine!Carry(op, hosts), {h}, ops)

\* One fault of an instance with the given residues.
FaultJustified(f, residues, leaves, undoes, preBlocked, tier, reversible, confirm) ==
  LET entry == Machine!Catalog[Id[f]]
  IN /\ leaves = {r \in residues : After(entry.apply, Clean) = {Deviating[r]}}
     /\ undoes = {r \in residues : After(entry.recover, Deviating[r]) = {Clean}}
     /\ preBlocked = {r \in residues :
                        Machine!Failing(Deviating[r]) \cap Machine!PreconditionChecks(Id[f]) # {}}
     /\ tier = entry.tier
     /\ reversible <=> Id[f] \notin Machine!Irreversible
     /\ confirm <=> Id[f] \in Machine!Irreversible

\* What the tiers clear and the two kinds of checks see of the residues.
ResiduesJustified(residues, clears, suiteBreaking, lightBreaking) ==
  /\ \A t \in Tiers :
       clears[t] = {r \in residues : After(Machine!TierOps(t), Deviating[r]) = {Clean}}
  /\ suiteBreaking = {r \in residues : ~Machine!IsConformant(Deviating[r])}
  /\ lightBreaking = {r \in residues : ~Machine!LooksHealthy(Deviating[r])}

ASSUME InstanceAssumption ==
  /\ \A f \in MCFaults :
       FaultJustified(f, MCResidues \ {portTaken}, MCLeaves[f], MCUndoes[f], MCPreBlocked[f],
                      MCTierOf[f], f \in MCReversible, f \in MCConfirm)
  /\ ResiduesJustified(MCResidues \ {portTaken}, MCClears, MCSuiteBreaking \ {portTaken},
                       MCLightBreaking \ {portTaken})

ASSUME SmallInstanceAssumption ==
  /\ \A f \in MCSmallFaults :
       FaultJustified(f, {logUnlinked}, MCSmallLeaves[f], MCSmallLeaves[f], {},
                      MCSmallTierOf[f], TRUE, FALSE)
  /\ ResiduesJustified({logUnlinked}, MCSmallClears, {}, {})
=============================================================================
