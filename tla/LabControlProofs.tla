-------------------------- MODULE LabControlProofs --------------------------
(***************************************************************************)
(* What LabControl promises for every catalog, every set of processes and  *)
(* any bound on failures.  The type invariant and the two invariants on    *)
(* the content of state.json are inductive together with the shape of a    *)
(* command in flight; the two that rest on the lock are derived from       *)
(* LockExclusion, which carries over because the commands use the lock as  *)
(* LabLock says.                                                           *)
(***************************************************************************)
EXTENDS LabControl, LabLockProofs

\* The disjuncts of Advance that do not call the lock.
Work(p) ==
  \/ GiveUp(p)
  \/ ApplyRead(p) \/ ApplyCheck(p) \/ ApplyOk(p)
  \/ ResetRead(p) \/ ResetVerify(p) \/ ProvisionBegin(p)
  \/ RecoverOk(p) \/ TierOk(p) \/ BootstrapFails(p) \/ UnknownTier(p) \/ Suite(p)
  \/ Commit(p) \/ InvalidateRead(p)
  \/ StatusRead(p) \/ StatusObserve(p) \/ ValidateRead(p) \/ SideWrite(p)

\* The hindrances that leave the process alive.
Obstacle(p) ==
  \/ ApplyPart(p) \/ ApplyFail(p) \/ RestorePart(p) \/ RestoreFail(p)
  \/ CommitFail(p) \/ SideWriteFail(p)

LEMMA NextCases ==
  ASSUME [Next]_vars
  PROVE  \/ \E p \in Procs : \E c \in Commands : Start(p, c)
         \/ \E p \in Procs : Locking(p)
         \/ \E p \in Procs : Unlock(p)
         \/ \E p \in Procs : LockTrouble(p)
         \/ \E p \in Procs : Vanish(p) /\ (UNCHANGED trouble \/ Trouble)
         \/ \E p \in Procs : Work(p)
         \/ \E p \in Procs : Obstacle(p)
         \/ \E p \in Procs : Interrupt(p) \/ HandlerRead(p) \/ HandlerWrite(p)
         \/ Drift
         \/ UNCHANGED vars
  BY DEF Next, Advance, Handler, Hindrance, Work, Obstacle, Exit, Crash, HandlerExit

-----------------------------------------------------------------------------
(* The lock. *)

LEMMA WorkLeavesLock ==
  ASSUME NEW p \in Procs, Work(p) \/ Obstacle(p)
  PROVE  UNCHANGED lockVars
<1>1. CASE Work(p)
  BY <1>1 DEF Work, GiveUp, ApplyRead, ApplyCheck, ApplyOk, ResetRead, ResetVerify,
     ProvisionBegin, RecoverOk, TierOk, BootstrapFails, UnknownTier, Suite, Commit,
     InvalidateRead, StatusRead, StatusObserve, ValidateRead, SideWrite
<1>2. CASE Obstacle(p)
  BY <1>2 DEF Obstacle, ApplyPart, ApplyFail, RestorePart, RestoreFail, CommitFail, SideWriteFail
<1> QED BY <1>1, <1>2

LEMMA NextUsesLock == [Next]_vars => [LockNext]_lockVars
<1> SUFFICES ASSUME [Next]_vars PROVE [LockNext]_lockVars
  OBVIOUS
<1>1. ASSUME NEW p \in Procs, NEW c \in Commands, Start(p, c) PROVE LockNext
  BY <1>1 DEF Start, LockNext
<1>2. ASSUME NEW p \in Procs, Locking(p) PROVE LockNext
  BY <1>2 DEF Locking, LockNext
<1>3. ASSUME NEW p \in Procs, Unlock(p) PROVE LockNext
  BY <1>3 DEF Unlock, LockNext
<1>t. ASSUME NEW p \in Procs, LockTrouble(p) PROVE LockNext
  BY <1>t DEF LockTrouble, IgnoredError, LockNext
<1>4. ASSUME NEW p \in Procs, Vanish(p) PROVE LockNext
  BY <1>4 DEF Vanish, LockNext
<1>5. ASSUME NEW p \in Procs, Work(p) \/ Obstacle(p) PROVE UNCHANGED lockVars
  BY <1>5, WorkLeavesLock
<1>6. ASSUME NEW p \in Procs, Interrupt(p) \/ HandlerRead(p) \/ HandlerWrite(p)
      PROVE  UNCHANGED lockVars
  BY <1>6 DEF Interrupt, HandlerRead, HandlerWrite
<1>7. CASE Drift
  BY <1>7 DEF Drift
<1>8. CASE UNCHANGED vars
  BY <1>8 DEF vars
<1> QED BY <1>1, <1>2, <1>3, <1>t, <1>4, <1>5, <1>6, <1>7, <1>8, NextCases

\* The control plane implements LabLock: no command, handler or failure touches
\* the lock file other than by Acquire, Release or dying.
THEOREM ControlUsesLock == Spec => UsesLock
<1>1. Init => LockInit
  BY DEF Init
<1> QED BY <1>1, NextUsesLock, PTL DEF Spec, LockSpec, UsesLock

\* What is proved of the lock alone holds in the whole system.
THEOREM ControlLock == Spec => [](LockTypeOK /\ ExclusiveUnlessStolen /\ NoLockLeak)
  BY ControlUsesLock, LockTypeInvariant, LockExclusion, LockLeak, PTL DEF UsesLock

-----------------------------------------------------------------------------
(* Types.  An apply in flight has a fault of the catalog: with that the type *)
(* invariant is inductive.                                                   *)

ApplyHasFault ==
  \A p \in Procs :
    /\ Runs(p, "apply") => cmd[p].fault \in Faults
    /\ pc[p] \in {"precheck", "apply"} => Runs(p, "apply")

Typed == TypeOK /\ ApplyHasFault

LEMMA FreshRecord ==
  ASSUME NEW s \in States
  PROVE  Fresh(s) \in Record
  BY DEF Fresh, Record

LEMMA RevisedRecord ==
  ASSUME NEW r \in Record, NEW s \in States, NEW v \in BOOLEAN
  PROVE  /\ [r EXCEPT !.state = s] \in Record
         /\ [r EXCEPT !.valid = v] \in Record
  BY DEF Record

LEMMA InvalidatedRecord ==
  ASSUME NEW r \in Record \cup {Unreadable}
  PROVE  Invalidated(r) \in Record \cup {Unreadable}
  BY DEF Invalidated, Record

LEMMA DetectedState ==
  ASSUME NEW r, NEW h
  PROVE  Detected(r, h) \in {"CONFORMANT", "DEGRADED", "BROKEN"}
  BY DEF Detected

LEMMA SelectedTier ==
  ASSUME NEW r \in Record
  PROVE  SelectTier(r) \in Tiers
<1>1. CASE r.fault = NoFault
  BY <1>1 DEF SelectTier, Tiers
<1>2. CASE r.fault # NoFault
  BY <1>2, CatalogAssumption DEF SelectTier, Record
<1> QED BY <1>1, <1>2

LEMMA TypedInit == Init => Typed
<1> SUFFICES ASSUME Init PROVE Typed
  OBVIOUS
<1>1. LockTypeOK
  BY LockTypeInit DEF Init
<1>2. PICK i \in Initials : /\ file = i.file
                           /\ env = i.env
                           /\ injected = IF i.file = Unreadable THEN {}
                                         ELSE {i.file.fault} \ {NoFault}
  BY DEF Init
<1>3. file \in Record \cup {Unreadable} /\ env \in SUBSET Residues /\ injected \in SUBSET Faults
  BY <1>2, InitialAssumption DEF Record
<1>4. /\ pc \in [Procs -> Labels]
      /\ cmd \in [Procs -> Command \cup {NoCommand}]
      /\ mem \in [Procs -> Record \cup {Unreadable}]
      /\ verdict \in [Procs -> States \cup {"none"}]
  BY DEF Init, Labels
<1>5. /\ hs \in [Procs -> {"none", "grace", "writing", "exiting"}]
      /\ hmem \in [Procs -> Record \cup {Unreadable}]
      /\ dirty \in [Procs -> SUBSET {"transition", "other"}]
  BY DEF Init
<1>6. lost \in BOOLEAN
  BY DEF Init
<1>7. trouble \in 0 .. MaxTrouble
  BY BoundAssumption DEF Init
<1>8. ApplyHasFault
  BY DEF Init, ApplyHasFault, Runs, NoCommand
<1> QED BY <1>1, <1>3, <1>4, <1>5, <1>6, <1>7, <1>8 DEF Typed, TypeOK

LEMMA TypedStep == Typed /\ [Next]_vars => Typed'
<1> SUFFICES ASSUME Typed, [Next]_vars PROVE Typed'
  OBVIOUS
<1>0. LockTypeOK'
  BY NextUsesLock, LockTypeStep DEF Typed, TypeOK
<1>1. ASSUME NEW p \in Procs, NEW c \in Commands, Start(p, c) PROVE Typed'
  BY <1>0, <1>1, CommandAssumption
     DEF Typed, TypeOK, ApplyHasFault, At, Runs, Goto, procVars, handlerVars, ghostVars, Labels, Start
<1>2. ASSUME NEW p \in Procs, Locking(p) PROVE Typed'
  BY <1>0, <1>2 DEF Typed, TypeOK, ApplyHasFault, At, Runs, Goto, procVars, handlerVars, ghostVars, Labels, Locking
<1>3. ASSUME NEW p \in Procs, Unlock(p) PROVE Typed'
  BY <1>0, <1>3 DEF Typed, TypeOK, ApplyHasFault, At, Runs, Goto, procVars, handlerVars, ghostVars, Labels, Unlock
<1>t. ASSUME NEW p \in Procs, LockTrouble(p) PROVE Typed'
  BY <1>0, <1>t, BoundAssumption
     DEF Typed, TypeOK, ApplyHasFault, At, Runs, Goto, handlerVars, ghostVars, Labels, LockTrouble, Trouble
<1>4. ASSUME NEW p \in Procs, Vanish(p), UNCHANGED trouble \/ Trouble PROVE Typed'
  <2>1. trouble' \in 0 .. MaxTrouble
    BY <1>4, BoundAssumption DEF Typed, TypeOK, Trouble
  <2>2. cmd' \in [Procs -> Command \cup {NoCommand}] /\ pc' \in [Procs -> Labels]
    BY <1>4 DEF Typed, TypeOK, Vanish, Goto, Labels
  <2>3. ApplyHasFault'
    BY <1>4 DEF Typed, TypeOK, ApplyHasFault, Runs, Vanish, Goto, NoCommand
  <2> QED BY <1>0, <1>4, <2>1, <2>2, <2>3 DEF Typed, TypeOK, Vanish
<1>5. ASSUME NEW p \in Procs, Work(p) PROVE Typed'
  <2>1. CASE GiveUp(p)
    BY <1>0, <2>1
       DEF Typed, TypeOK, ApplyHasFault, At, Runs, Goto, procVars, handlerVars, ghostVars, Labels, GiveUp
  <2>2. CASE ApplyRead(p)
    BY <1>0, <2>2
       DEF Typed, TypeOK, ApplyHasFault, At, Runs, Goto, procVars, handlerVars, ghostVars, Labels, ApplyRead, ReadFile
  <2>3. CASE ApplyCheck(p)
    BY <1>0, <2>3
       DEF Typed, TypeOK, ApplyHasFault, At, Runs, Goto, procVars, handlerVars, ghostVars, Labels, ApplyCheck
  <2>4. CASE ApplyOk(p)
    BY <1>0, <2>4, CatalogAssumption
       DEF Typed, TypeOK, ApplyHasFault, At, Runs, Goto, procVars, handlerVars, ghostVars, Labels, ApplyOk, Record, States
  <2>5. CASE ResetRead(p)
    <3>1. PICK r : /\ r = IF file = Unreadable THEN Fresh("BROKEN") ELSE file
                   /\ ReadFile(p, r)
                   /\ cmd' = [cmd EXCEPT ![p].tier = IF @ = "" THEN SelectTier(r) ELSE @]
                   /\ Goto(p, IF Pristine(r) THEN "verify" ELSE FirstOfTier(r))
      BY <2>5 DEF ResetRead
    <3>2. r \in Record /\ SelectTier(r) \in Tiers
      BY <3>1, FreshRecord, SelectedTier DEF Typed, TypeOK, States
    <3>3. cmd[p] \in Command
      <4>1. cmd[p] \in Command \cup {NoCommand}
        BY DEF Typed, TypeOK
      <4>2. cmd[p].op = "reset" /\ NoCommand.op = "none"
        BY <2>5 DEF ResetRead, Runs, NoCommand
      <4> QED BY <4>1, <4>2
    <3>4. cmd' \in [Procs -> Command \cup {NoCommand}]
      BY <3>1, <3>2, <3>3 DEF Typed, TypeOK, Command
    <3>5. /\ \A q \in Procs : cmd'[q].op = cmd[q].op /\ cmd'[q].fault = cmd[q].fault
          /\ pc'[p] \notin {"precheck", "apply"}
          /\ \A q \in Procs \ {p} : pc'[q] = pc[q]
      BY <3>1, <3>3 DEF Typed, TypeOK, Goto, FirstOfTier, Command
    <3>6. ApplyHasFault'
      BY <3>5 DEF Typed, ApplyHasFault, Runs
    <3>7. pc' \in [Procs -> Labels]
      BY <3>1 DEF Typed, TypeOK, Goto, FirstOfTier, Labels
    <3>8. /\ mem' \in [Procs -> Record \cup {Unreadable}]
          /\ dirty' \in [Procs -> SUBSET {"transition", "other"}]
      BY <3>1, <3>2 DEF Typed, TypeOK, ReadFile
    <3> QED BY <1>0, <2>5, <3>1, <3>4, <3>6, <3>7, <3>8
        DEF Typed, TypeOK, ResetRead, ReadFile, handlerVars
  <2>6. CASE ResetVerify(p)
    BY <1>0, <2>6
       DEF Typed, TypeOK, ApplyHasFault, At, Runs, Goto, procVars, handlerVars, ghostVars, Labels, ResetVerify
  <2>7. CASE ProvisionBegin(p)
    BY <1>0, <2>7
       DEF Typed, TypeOK, ApplyHasFault, At, Runs, Goto, procVars, handlerVars, ghostVars, Labels, ProvisionBegin
  <2>8. CASE RecoverOk(p)
    BY <1>0, <2>8
       DEF Typed, TypeOK, ApplyHasFault, At, Runs, Goto, procVars, handlerVars, ghostVars, Labels, RecoverOk
  <2>9. CASE TierOk(p)
    BY <1>0, <2>9
       DEF Typed, TypeOK, ApplyHasFault, At, Runs, Goto, procVars, handlerVars, ghostVars, Labels, TierOk
  <2>10. CASE BootstrapFails(p)
    BY <1>0, <2>10
       DEF Typed, TypeOK, ApplyHasFault, At, Runs, Goto, procVars, handlerVars, ghostVars, Labels, BootstrapFails
  <2>11. CASE UnknownTier(p)
    BY <1>0, <2>11
       DEF Typed, TypeOK, ApplyHasFault, At, Runs, Goto, procVars, handlerVars, ghostVars, Labels, UnknownTier
  <2>12. CASE Suite(p)
    <3>1. PICK s \in {"CONFORMANT", "BROKEN"} : /\ verdict' = [verdict EXCEPT ![p] = s]
                                               /\ mem' = [mem EXCEPT ![p] = Fresh(s)]
      BY <2>12 DEF Suite
    <3>2. s \in States /\ Fresh(s) \in Record
      BY FreshRecord DEF States
    <3> QED BY <1>0, <2>12, <3>1, <3>2 DEF Typed, TypeOK, ApplyHasFault, At, Runs, Goto, procVars, handlerVars, ghostVars, Labels, Suite
  <2>13. CASE Commit(p)
    BY <1>0, <2>13
       DEF Typed, TypeOK, ApplyHasFault, At, Runs, Goto, procVars, handlerVars, ghostVars, Labels, Commit, Write
  <2>14. CASE InvalidateRead(p)
    <3>1. Invalidated(file) \in Record \cup {Unreadable}
      BY InvalidatedRecord DEF Typed, TypeOK
    <3> QED BY <1>0, <2>14, <3>1
        DEF Typed, TypeOK, ApplyHasFault, At, Runs, Goto, procVars, handlerVars, ghostVars, Labels, InvalidateRead, ReadFile
  <2>15. CASE StatusRead(p)
    BY <1>0, <2>15
       DEF Typed, TypeOK, ApplyHasFault, At, Runs, Goto, procVars, handlerVars, ghostVars, Labels, StatusRead, ReadFile
  <2>16. CASE StatusObserve(p)
    <3> DEFINE r == mem[p]
               d == Detected(r, LightHealthy)
               m == IF r = Unreadable THEN Fresh(d)
                    ELSE IF r.valid /\ r.state # d THEN [r EXCEPT !.state = d]
                    ELSE [r EXCEPT !.valid = TRUE]
    <3>1. d \in States /\ Fresh(d) \in Record
      BY DetectedState, FreshRecord DEF States
    <3>2. m \in Record
      BY <3>1, RevisedRecord DEF Typed, TypeOK
    <3>3. mem' = [mem EXCEPT ![p] = m] /\ verdict' = [verdict EXCEPT ![p] = d]
      BY <2>16 DEF StatusObserve
    <3>4. pc' \in [Procs -> Labels] /\ ApplyHasFault'
      BY <2>16 DEF StatusObserve, Typed, TypeOK, ApplyHasFault, At, Runs, Goto, Labels
    <3>5. /\ mem' \in [Procs -> Record \cup {Unreadable}]
          /\ verdict' \in [Procs -> States \cup {"none"}]
      <4> HIDE DEF d, m
      <4> QED BY <3>1, <3>2, <3>3 DEF Typed, TypeOK
    <3> QED BY <1>0, <2>16, <3>4, <3>5
        DEF Typed, TypeOK, StatusObserve, handlerVars, ghostVars
  <2>17. CASE ValidateRead(p)
    BY <1>0, <2>17
       DEF Typed, TypeOK, ApplyHasFault, At, Runs, Goto, procVars, handlerVars, ghostVars, Labels, ValidateRead, ReadFile
  <2>18. CASE SideWrite(p)
    BY <1>0, <2>18
       DEF Typed, TypeOK, ApplyHasFault, At, Runs, Goto, procVars, handlerVars, ghostVars, Labels, SideWrite, Write, SideWriting
  <2> QED BY <1>5, <2>1, <2>2, <2>3, <2>4, <2>5, <2>6, <2>7, <2>8, <2>9, <2>10, <2>11, <2>12, <2>13, <2>14, <2>15, <2>16, <2>17, <2>18 DEF Work
<1>6. ASSUME NEW p \in Procs, Obstacle(p) PROVE Typed'
  <2>1. CASE ApplyPart(p)
    BY <1>0, <2>1, CatalogAssumption
       DEF Typed, TypeOK, ApplyHasFault, At, Runs, Goto, procVars, handlerVars, ghostVars, Labels, ApplyPart
  <2>2. CASE ApplyFail(p)
    BY <1>0, <2>2, BoundAssumption
       DEF Typed, TypeOK, ApplyHasFault, At, Runs, Goto, procVars, handlerVars, ghostVars, Labels, ApplyFail, Trouble
  <2>3. CASE RestorePart(p)
    BY <1>0, <2>3
       DEF Typed, TypeOK, ApplyHasFault, At, Runs, Goto, procVars, handlerVars, ghostVars, Labels, RestorePart
  <2>4. CASE RestoreFail(p)
    BY <1>0, <2>4, BoundAssumption
       DEF Typed, TypeOK, ApplyHasFault, At, Runs, Goto, procVars, handlerVars, ghostVars, Labels, RestoreFail, Trouble
  <2>5. CASE CommitFail(p)
    BY <1>0, <2>5, BoundAssumption
       DEF Typed, TypeOK, ApplyHasFault, At, Runs, Goto, procVars, handlerVars, ghostVars, Labels, CommitFail, Trouble
  <2>6. CASE SideWriteFail(p)
    BY <1>0, <2>6, BoundAssumption
       DEF Typed, TypeOK, ApplyHasFault, At, Runs, Goto, procVars, handlerVars, ghostVars, Labels, SideWriteFail, Trouble, SideWriting
  <2> QED BY <1>6, <2>1, <2>2, <2>3, <2>4, <2>5, <2>6 DEF Obstacle
<1>7. ASSUME NEW p \in Procs, Interrupt(p) \/ HandlerRead(p) \/ HandlerWrite(p) PROVE Typed'
  <2>1. CASE Interrupt(p)
    BY <1>0, <2>1, BoundAssumption
       DEF Typed, TypeOK, ApplyHasFault, At, Runs, Goto, procVars, handlerVars, ghostVars, Labels, Interrupt, Trouble
  <2>2. CASE HandlerRead(p)
    <3>1. Invalidated(file) \in Record \cup {Unreadable}
      BY InvalidatedRecord DEF Typed, TypeOK
    <3> QED BY <1>0, <2>2, <3>1
        DEF Typed, TypeOK, ApplyHasFault, At, Runs, Goto, procVars, handlerVars, ghostVars, Labels, HandlerRead
  <2>3. CASE HandlerWrite(p)
    BY <1>0, <2>3, BoundAssumption
       DEF Typed, TypeOK, ApplyHasFault, At, Runs, Goto, procVars, handlerVars, ghostVars, Labels, HandlerWrite, Trouble
  <2> QED BY <1>7, <2>1, <2>2, <2>3
<1>8. CASE Drift
  BY <1>0, <1>8, BoundAssumption DEF Typed, TypeOK, ApplyHasFault, At, Runs, Goto, procVars, handlerVars, ghostVars, Labels, Drift, Trouble
<1>9. CASE UNCHANGED vars
  BY <1>9 DEF Typed, TypeOK, ApplyHasFault, At, Runs, Goto, procVars, handlerVars, ghostVars, Labels, vars, LockTypeOK, lockVars
<1> QED BY <1>1, <1>2, <1>3, <1>t, <1>4, <1>5, <1>6, <1>7, <1>8, <1>9, NextCases

\* TypeOK is an invariant for every catalog and every set of processes.
THEOREM ControlTypeInvariant == Spec => []TypeOK
<1>1. Typed => TypeOK
  BY DEF Typed
<1> QED BY <1>1, TypedInit, TypedStep, PTL DEF Spec

-----------------------------------------------------------------------------
(* The content of state.json.  Every copy of it that a process may write     *)
(* back, and not only the file, is DEGRADED exactly with a fault, and with    *)
(* one that has been injected: a Write of a stale copy cannot break either.   *)

SoundRecord(r, faults) ==
  r # Unreadable => Consistent(r) /\ r.fault \in faults \cup {NoFault}

SoundCopies ==
  /\ SoundRecord(file, injected)
  /\ \A p \in Procs : SoundRecord(mem[p], injected) /\ SoundRecord(hmem[p], injected)

LEMMA SoundUnreadable ==
  ASSUME NEW faults
  PROVE  SoundRecord(Unreadable, faults)
  BY DEF SoundRecord

LEMMA SoundFresh ==
  ASSUME NEW s \in {"CONFORMANT", "BROKEN"}, NEW faults
  PROVE  SoundRecord(Fresh(s), faults)
  BY DEF SoundRecord, Fresh, Consistent

LEMMA SoundInvalidated ==
  ASSUME NEW r \in Record \cup {Unreadable}, NEW faults, SoundRecord(r, faults)
  PROVE  SoundRecord(Invalidated(r), faults)
  BY DEF SoundRecord, Invalidated, Consistent, Record

LEMMA SoundRevised ==
  ASSUME NEW r \in Record, NEW faults, NEW h, SoundRecord(r, faults)
  PROVE  /\ SoundRecord([r EXCEPT !.valid = TRUE], faults)
         /\ SoundRecord([r EXCEPT !.state = Detected(r, h)], faults)
  BY CatalogAssumption DEF SoundRecord, Detected, Consistent, Record

LEMMA SoundMore ==
  ASSUME NEW r, NEW some, NEW more, some \subseteq more, SoundRecord(r, some)
  PROVE  SoundRecord(r, more)
  BY DEF SoundRecord

LEMMA SoundInit == Init => SoundCopies
<1> SUFFICES ASSUME Init PROVE SoundCopies
  OBVIOUS
<1>1. SoundRecord(file, injected)
  BY InitialAssumption DEF Init, SoundRecord
<1>2. \A p \in Procs : SoundRecord(mem[p], injected) /\ SoundRecord(hmem[p], injected)
  BY SoundUnreadable DEF Init
<1> QED BY <1>1, <1>2 DEF SoundCopies

LEMMA SoundStep == Typed /\ SoundCopies /\ [Next]_vars => SoundCopies'
<1> SUFFICES ASSUME Typed, SoundCopies, [Next]_vars PROVE SoundCopies'
  OBVIOUS
<1>1. ASSUME NEW p \in Procs, NEW c \in Commands, Start(p, c) PROVE SoundCopies'
  BY <1>1 DEF SoundCopies, Start, handlerVars, ghostVars
<1>2. ASSUME NEW p \in Procs, Locking(p) \/ Unlock(p) \/ LockTrouble(p) PROVE SoundCopies'
  BY <1>2 DEF SoundCopies, Locking, Unlock, LockTrouble, procVars, handlerVars, ghostVars
<1>3. ASSUME NEW p \in Procs, Vanish(p) PROVE SoundCopies'
  BY <1>3, SoundUnreadable DEF Typed, TypeOK, SoundCopies, Vanish
<1>4. ASSUME NEW p \in Procs, Work(p) PROVE SoundCopies'
  <2>1. CASE \/ GiveUp(p) \/ ApplyCheck(p) \/ ResetVerify(p) \/ ProvisionBegin(p)
            \/ RecoverOk(p) \/ TierOk(p) \/ BootstrapFails(p) \/ UnknownTier(p)
    BY <2>1 DEF SoundCopies, GiveUp, ApplyCheck, ResetVerify, ProvisionBegin, RecoverOk, TierOk,
       BootstrapFails, UnknownTier, handlerVars, ghostVars
  <2>2. CASE ApplyRead(p) \/ StatusRead(p) \/ ValidateRead(p)
    BY <2>2 DEF Typed, TypeOK, SoundCopies, ApplyRead, StatusRead, ValidateRead, ReadFile,
       handlerVars
  <2>3. CASE ResetRead(p)
    BY <2>3, SoundFresh DEF Typed, TypeOK, SoundCopies, ResetRead, ReadFile, handlerVars
  <2>4. CASE InvalidateRead(p)
    BY <2>4, SoundInvalidated DEF Typed, TypeOK, SoundCopies, InvalidateRead, ReadFile, handlerVars
  <2>5. CASE ApplyOk(p)
    <3> DEFINE m == [state |-> "DEGRADED", valid |-> TRUE, fault |-> cmd[p].fault]
    <3>1. /\ injected' = injected \cup {cmd[p].fault}
          /\ mem' = [mem EXCEPT ![p] = m]
          /\ UNCHANGED <<file, hmem>>
      BY <2>5 DEF ApplyOk, handlerVars
    <3>2. SoundRecord(m, injected')
      BY <2>5, <3>1, CatalogAssumption
         DEF ApplyOk, At, Typed, ApplyHasFault, Runs, SoundRecord, Consistent
    <3>3. injected \subseteq injected'
      BY <3>1
    <3> HIDE DEF m
    <3> QED BY <3>1, <3>2, <3>3, SoundMore DEF Typed, TypeOK, SoundCopies
  <2>6. CASE Suite(p)
    BY <2>6, SoundFresh DEF Typed, TypeOK, SoundCopies, Suite, handlerVars, ghostVars
  <2>7. CASE Commit(p) \/ SideWrite(p)
    BY <2>7 DEF Typed, TypeOK, SoundCopies, Commit, SideWrite, Write, handlerVars
  <2>8. CASE StatusObserve(p)
    <3> DEFINE r == mem[p]
               d == Detected(r, LightHealthy)
               m == IF r = Unreadable THEN Fresh(d)
                    ELSE IF r.valid /\ r.state # d THEN [r EXCEPT !.state = d]
                    ELSE [r EXCEPT !.valid = TRUE]
    <3>1. SoundRecord(m, injected)
      <4>1. CASE r = Unreadable
        BY <4>1, SoundFresh DEF Detected
      <4>2. CASE r # Unreadable
        <5>1. r \in Record /\ SoundRecord(r, injected)
          BY <4>2 DEF Typed, TypeOK, SoundCopies
        <5> QED BY <4>2, <5>1, SoundRevised
      <4> QED BY <4>1, <4>2
    <3>2. mem' = [mem EXCEPT ![p] = m] /\ UNCHANGED <<file, hmem, injected>>
      BY <2>8 DEF StatusObserve, handlerVars, ghostVars
    <3> HIDE DEF m
    <3> QED BY <3>1, <3>2 DEF Typed, TypeOK, SoundCopies
  <2> QED BY <1>4, <2>1, <2>2, <2>3, <2>4, <2>5, <2>6, <2>7, <2>8 DEF Work
<1>5. ASSUME NEW p \in Procs, Obstacle(p) PROVE SoundCopies'
  BY <1>5 DEF SoundCopies, Obstacle, ApplyPart, ApplyFail, RestorePart, RestoreFail, CommitFail,
     SideWriteFail, procVars, handlerVars, ghostVars
<1>6. ASSUME NEW p \in Procs, Interrupt(p) \/ HandlerRead(p) \/ HandlerWrite(p)
      PROVE  SoundCopies'
  BY <1>6, SoundInvalidated DEF Typed, TypeOK, SoundCopies, Interrupt, HandlerRead, HandlerWrite,
     procVars, ghostVars
<1>7. CASE Drift
  BY <1>7, SoundUnreadable DEF SoundCopies, Drift, procVars, handlerVars, ghostVars
<1>8. CASE UNCHANGED vars
  BY <1>8 DEF SoundCopies, vars, procVars, handlerVars, ghostVars
<1> QED BY <1>1, <1>2, <1>3, <1>4, <1>5, <1>6, <1>7, <1>8, NextCases

\* Invariant I-2 of the state model: no interleaving of locked and unlocked
\* Writes, lost update, crash or failure makes state.json DEGRADED without a
\* fault or leaves a fault in another state.
THEOREM ControlFaultIffDegraded == Spec => []FaultIffDegraded
<1>1. SoundCopies => FaultIffDegraded
  BY DEF SoundCopies, SoundRecord, FaultIffDegraded
<1> QED BY <1>1, TypedInit, TypedStep, SoundInit, SoundStep, PTL DEF Spec

\* A fault is on record only after its Apply has completed.
THEOREM ControlRecordedFaultWasInjected == Spec => []RecordedFaultWasInjected
<1>1. SoundCopies => RecordedFaultWasInjected
  BY DEF SoundCopies, SoundRecord, RecordedFaultWasInjected
<1> QED BY <1>1, TypedInit, TypedStep, SoundInit, SoundStep, PTL DEF Spec

-----------------------------------------------------------------------------
(* Transitions are serialized.  A command between its Read under the lock and *)
(* its last Write holds the lock, and LockExclusion says it is alone there.   *)

\* The critical sections: from the Read under the lock to Release, and from
\* that Read to the Write of the transition.
Locked == {"precheck", "apply", "verify", "recover", "tier", "suite", "record",
           "invalidate", "invalidated", "release"}
Section == {"precheck", "apply", "verify", "recover", "tier", "suite", "record"}

LockHeld == \A p \in Procs : pc[p] \in Locked => lk[p] = "held"

Serialized ==
  \A p \in Procs : pc[p] \in Section /\ ~stolen => "transition" \notin dirty[p]

Authorised ==
  \A p \in Procs :
    /\ pc[p] \in {"precheck", "apply"} /\ ~cmd[p].force
    /\ ~stolen /\ "other" \notin dirty[p] /\ file # Unreadable
    => Pristine(file)

\* A process moves its own phase of the lock and no other.
LEMMA LockStepIsLocal ==
  ASSUME NEW p \in Procs, LockTypeOK, StartAcquire(p) \/ AcquireStep(p)
  PROVE  \A q \in Procs \ {p} : lk'[q] = lk[q]
  BY DEF LockTypeOK, StartAcquire, AcquireStep, CreateLock, LockExists, OpenError, WritePid,
     HolderUnknown, ReadHolder, Deny, FindStale, Reclaim, ReclaimFails, Phase

LEMMA StolenStays ==
  ASSUME [LockNext]_lockVars, LockTypeOK, stolen
  PROVE  stolen'
  BY DEF LockNext, lockVars, Launch, StartAcquire, AcquireStep, CreateLock, LockExists, OpenError,
     WritePid, HolderUnknown, ReadHolder, Deny, FindStale, Reclaim, ReclaimFails, Release, Die,
     IgnoredError, WritePidFails, HolderUnreadable, ReleaseFails

\* Where a step of p's own command takes it.
LEMMA WorkMoves ==
  ASSUME NEW p \in Procs, Typed, Work(p) \/ Obstacle(p)
  PROVE  /\ \A q \in Procs \ {p} : pc'[q] = pc[q]
         /\ pc'[p] \in Locked => pc[p] \in Locked \/ lk[p] = "held"
         /\ pc'[p] \in Section => pc[p] \in Section \/ (pc[p] = "lock" /\ dirty'[p] = {})
<1>1. CASE Work(p)
  BY <1>1, ZenonT(60) DEF Work, GiveUp, ApplyRead, ApplyCheck, ApplyOk, ResetRead, ResetVerify, ProvisionBegin,
     RecoverOk, TierOk, BootstrapFails, UnknownTier, Suite, Commit, InvalidateRead, StatusRead,
     StatusObserve, ValidateRead, SideWrite, SideWriting, ReadFile, FirstOfTier, At, Goto, Typed,
     TypeOK, Locked, Section
<1>2. CASE Obstacle(p)
  BY <1>2 DEF Obstacle, ApplyPart, ApplyFail, RestorePart, RestoreFail, CommitFail, SideWriteFail,
     SideWriting, At, Goto, procVars, Typed, TypeOK, Locked, Section
<1> QED BY <1>1, <1>2

LEMMA LockHeldStep == Typed /\ LockHeld /\ [Next]_vars => LockHeld'
<1> SUFFICES ASSUME Typed, LockHeld, [Next]_vars PROVE LockHeld'
  OBVIOUS
<1>1. ASSUME NEW p \in Procs, NEW c \in Commands, Start(p, c) PROVE LockHeld'
  BY <1>1 DEF Typed, TypeOK, LockTypeOK, LockHeld, Start, Launch, Phase, Goto, Locked
<1>2. ASSUME NEW p \in Procs, Locking(p) PROVE LockHeld'
  BY <1>2, LockStepIsLocal DEF Typed, TypeOK, LockHeld, Locking, procVars, Locked
<1>3. ASSUME NEW p \in Procs, Unlock(p) PROVE LockHeld'
  BY <1>3 DEF Typed, TypeOK, LockTypeOK, LockHeld, Unlock, Release, Phase, Goto, Locked
<1>t. ASSUME NEW p \in Procs, LockTrouble(p) PROVE LockHeld'
  BY <1>t DEF Typed, TypeOK, LockTypeOK, LockHeld, LockTrouble, WritePidFails, HolderUnreadable,
     ReleaseFails, Phase, At, Goto, Locked
<1>4. ASSUME NEW p \in Procs, Vanish(p) PROVE LockHeld'
  BY <1>4 DEF Typed, TypeOK, LockTypeOK, LockHeld, Vanish, Die, Goto, Locked
<1>5. ASSUME NEW p \in Procs, Work(p) \/ Obstacle(p) PROVE LockHeld'
  BY <1>5, WorkMoves, WorkLeavesLock DEF LockHeld, lockVars
<1>6. ASSUME NEW p \in Procs, Interrupt(p) \/ HandlerRead(p) \/ HandlerWrite(p)
      PROVE  LockHeld'
  BY <1>6 DEF LockHeld, Interrupt, HandlerRead, HandlerWrite, lockVars, procVars
<1>7. CASE Drift
  BY <1>7 DEF LockHeld, Drift, lockVars, procVars
<1>8. CASE UNCHANGED vars
  BY <1>8 DEF LockHeld, vars, lockVars, procVars
<1> QED BY <1>1, <1>2, <1>3, <1>t, <1>4, <1>5, <1>6, <1>7, <1>8, NextCases

\* Nobody commits while another process is between its Read under the lock and
\* its Write, as long as no lock is stolen.
LEMMA CommitAlone ==
  ASSUME LockHeld, ExclusiveUnlessStolen, ~stolen,
         NEW p \in Procs, Commit(p), NEW q \in Procs, pc[q] \in Section
  PROVE  q = p
<1>1. lk[p] = "held" /\ lk[q] = "held"
  BY DEF Commit, At, LockHeld, Locked, Section
<1> QED BY <1>1 DEF ExclusiveUnlessStolen, MutualExclusion, Holds

LEMMA SerializedStep ==
  Typed /\ LockHeld /\ ExclusiveUnlessStolen /\ Serialized /\ [Next]_vars => Serialized'
<1> SUFFICES ASSUME Typed, LockHeld, ExclusiveUnlessStolen, Serialized, [Next]_vars,
                    NEW q \in Procs, pc'[q] \in Section, ~stolen'
             PROVE  "transition" \notin dirty'[q]
  BY DEF Serialized
<1>0. ~stolen
  BY NextUsesLock, StolenStays DEF Typed, TypeOK
<1>1. ASSUME NEW p \in Procs, NEW c \in Commands, Start(p, c) PROVE "transition" \notin dirty'[q]
  BY <1>0, <1>1 DEF Typed, TypeOK, Serialized, Start, Goto, ghostVars, Section
<1>2. ASSUME NEW p \in Procs, Locking(p) \/ Unlock(p) \/ LockTrouble(p)
      PROVE  "transition" \notin dirty'[q]
  BY <1>0, <1>2 DEF Typed, TypeOK, Serialized, Locking, Unlock, LockTrouble, Goto, procVars,
     ghostVars, Section
<1>3. ASSUME NEW p \in Procs, Vanish(p) PROVE "transition" \notin dirty'[q]
  BY <1>0, <1>3 DEF Typed, TypeOK, Serialized, Vanish, Goto
<1>4. ASSUME NEW p \in Procs, Work(p) PROVE "transition" \notin dirty'[q]
  <2>1. pc[q] \in Section \/ dirty'[q] = {}
    BY <1>4, WorkMoves
  <2>2. CASE Commit(p)
    BY <1>0, <2>1, <2>2, CommitAlone DEF Typed, TypeOK, Serialized, Commit, Write
  <2>3. CASE SideWrite(p)
    BY <1>0, <2>1, <2>3 DEF Typed, TypeOK, Serialized, SideWrite, Write
  <2>4. CASE \/ ApplyRead(p) \/ ResetRead(p) \/ ProvisionBegin(p)
            \/ InvalidateRead(p) \/ StatusRead(p) \/ ValidateRead(p)
    <3>1. dirty' = [dirty EXCEPT ![p] = {}]
      BY <2>4 DEF ApplyRead, ResetRead, ProvisionBegin, InvalidateRead, StatusRead, ValidateRead,
         ReadFile
    <3> QED BY <1>0, <2>1, <3>1 DEF Typed, TypeOK, Serialized
  <2>5. CASE \/ GiveUp(p) \/ ApplyCheck(p) \/ ApplyOk(p) \/ ResetVerify(p) \/ RecoverOk(p)
            \/ TierOk(p) \/ BootstrapFails(p) \/ UnknownTier(p) \/ Suite(p) \/ StatusObserve(p)
    <3>1. dirty' = dirty
      BY <2>5 DEF GiveUp, ApplyCheck, ApplyOk, ResetVerify, RecoverOk, TierOk, BootstrapFails,
         UnknownTier, Suite, StatusObserve, ghostVars
    <3> QED BY <1>0, <2>1, <3>1 DEF Serialized
  <2> QED BY <1>4, <2>2, <2>3, <2>4, <2>5 DEF Work
<1>5. ASSUME NEW p \in Procs, Obstacle(p) PROVE "transition" \notin dirty'[q]
  <2>1. dirty' = dirty /\ (pc[q] \in Section \/ dirty'[q] = {})
    BY <1>5, WorkMoves DEF Obstacle, ApplyPart, ApplyFail, RestorePart, RestoreFail, CommitFail,
       SideWriteFail, ghostVars
  <2> QED BY <1>0, <2>1 DEF Serialized
<1>6. ASSUME NEW p \in Procs, Interrupt(p) \/ HandlerRead(p) \/ HandlerWrite(p)
      PROVE  "transition" \notin dirty'[q]
  BY <1>0, <1>6 DEF Typed, TypeOK, Serialized, Interrupt, HandlerRead, HandlerWrite, procVars,
     ghostVars
<1>7. CASE Drift
  BY <1>0, <1>7 DEF Serialized, Drift, procVars, ghostVars
<1>8. CASE UNCHANGED vars
  BY <1>0, <1>8 DEF Serialized, vars, procVars, ghostVars
<1> QED BY <1>1, <1>2, <1>3, <1>4, <1>5, <1>6, <1>7, <1>8, NextCases

\* No apply, reset or provision commits between the Read of another and its
\* Write, unless a lock has been stolen.
THEOREM ControlSerializedTransitions == Spec => []SerializedTransitions
<1>1. Init => LockHeld /\ Serialized
  BY DEF Init, LockHeld, Serialized, Locked, Section
<1>2. Serialized => SerializedTransitions
  BY DEF Serialized, SerializedTransitions, Section
<1> QED BY <1>1, <1>2, TypedInit, TypedStep, ControlLock, LockHeldStep, SerializedStep, PTL DEF Spec

-----------------------------------------------------------------------------
(* Authorisation: what an unforced apply has read stays true until it begins *)
(* to mutate, because only a Write outside the lock can change it.           *)

LEMMA AuthorisedStep ==
  Typed /\ LockHeld /\ ExclusiveUnlessStolen /\ Authorised /\ [Next]_vars => Authorised'
<1> DEFINE Entitled(q) == /\ pc[q] \in {"precheck", "apply"} /\ ~cmd[q].force
                          /\ "other" \notin dirty[q] /\ file # Unreadable
<1> SUFFICES ASSUME Typed, LockHeld, ExclusiveUnlessStolen, Authorised, [Next]_vars,
                    NEW q \in Procs, Entitled(q)', ~stolen'
             PROVE  Pristine(file')
  BY DEF Authorised, Pristine
<1>0. ~stolen
  BY NextUsesLock, StolenStays DEF Typed, TypeOK
<1>a. ASSUME file' = file, Entitled(q) PROVE Pristine(file')
  BY <1>0, <1>a DEF Authorised
<1>1. ASSUME NEW p \in Procs, NEW c \in Commands, Start(p, c) PROVE Pristine(file')
  BY <1>a, <1>1 DEF Typed, TypeOK, Start, Goto, ghostVars
<1>2. ASSUME NEW p \in Procs, Locking(p) \/ Unlock(p) \/ LockTrouble(p) PROVE Pristine(file')
  BY <1>a, <1>2 DEF Typed, TypeOK, Locking, Unlock, LockTrouble, Goto, procVars, ghostVars
<1>3. ASSUME NEW p \in Procs, Vanish(p) PROVE Pristine(file')
  BY <1>a, <1>3 DEF Typed, TypeOK, Vanish, Goto
<1>4. ASSUME NEW p \in Procs, Work(p) PROVE Pristine(file')
  <2>1. CASE Commit(p)
    <3>1. q # p /\ pc[q] \in Section
      BY <2>1 DEF Typed, TypeOK, Commit, Goto, Section
    <3> QED BY <1>0, <2>1, <3>1, CommitAlone
  <2>2. CASE SideWrite(p)
    <3>1. q # p /\ pc[q] \in Window
      BY <2>2 DEF Typed, TypeOK, SideWrite, SideWriting, Goto, Window
    <3> QED BY <2>2, <3>1 DEF SideWrite, Write
  <2>3. CASE ApplyRead(p)
    BY <1>a, <2>3 DEF Typed, TypeOK, ApplyRead, ReadFile, Goto
  <2>4. CASE ApplyCheck(p)
    BY <1>a, <2>4 DEF Typed, TypeOK, ApplyCheck, At, Goto, ghostVars
  <2>5. CASE ResetRead(p)
    <3>1. q # p /\ pc[q] \in {"precheck", "apply"} /\ cmd'[q] = cmd[q] /\ dirty'[q] = dirty[q]
      BY <2>5 DEF Typed, TypeOK, ResetRead, ReadFile, FirstOfTier, Goto
    <3> QED BY <1>a, <2>5, <3>1 DEF ResetRead, ReadFile
  <2>6. CASE InvalidateRead(p) \/ StatusRead(p) \/ ValidateRead(p)
    BY <1>a, <2>6 DEF Typed, TypeOK, InvalidateRead, StatusRead, ValidateRead, ReadFile, Goto
  <2>7. CASE ProvisionBegin(p)
    BY <1>a, <2>7 DEF Typed, TypeOK, ProvisionBegin, Goto
  <2>8. CASE \/ GiveUp(p) \/ ApplyOk(p) \/ ResetVerify(p) \/ RecoverOk(p)
            \/ TierOk(p) \/ BootstrapFails(p) \/ UnknownTier(p) \/ Suite(p) \/ StatusObserve(p)
    <3>1. /\ file' = file /\ cmd' = cmd /\ dirty' = dirty
          /\ q # p /\ pc'[q] = pc[q]
      BY <2>8 DEF Typed, TypeOK, GiveUp, ApplyOk, ResetVerify, RecoverOk, TierOk, BootstrapFails,
         UnknownTier, Suite, StatusObserve, Goto, ghostVars
    <3> QED BY <1>a, <3>1
  <2> QED BY <1>4, <2>1, <2>2, <2>3, <2>4, <2>5, <2>6, <2>7, <2>8 DEF Work
<1>5. ASSUME NEW p \in Procs, Obstacle(p) PROVE Pristine(file')
  <2>1. /\ file' = file /\ cmd' = cmd /\ dirty' = dirty
        /\ pc'[q] \in {"precheck", "apply"} => pc[q] \in {"precheck", "apply"}
    BY <1>5 DEF Typed, TypeOK, Obstacle, ApplyPart, ApplyFail, RestorePart, RestoreFail,
       CommitFail, SideWriteFail, SideWriting, Goto, procVars, ghostVars
  <2> QED BY <1>a, <2>1
<1>6. ASSUME NEW p \in Procs, Interrupt(p) \/ HandlerRead(p) PROVE Pristine(file')
  BY <1>a, <1>6 DEF Interrupt, HandlerRead, procVars, ghostVars
<1>7. ASSUME NEW p \in Procs, HandlerWrite(p) PROVE Pristine(file')
  <2>1. pc[q] \in Window /\ cmd' = cmd /\ pc' = pc
    BY <1>7 DEF HandlerWrite, procVars, Window
  <2>2. CASE UNCHANGED <<file, dirty>>
    BY <1>a, <2>1, <2>2
  <2>3. CASE dirty' = [r \in Procs |-> IF pc[r] \in Window THEN dirty[r] \cup {"other"}
                                                          ELSE dirty[r]]
    BY <2>1, <2>3
  <2> QED BY <1>7, <2>2, <2>3 DEF HandlerWrite
<1>8. CASE Drift
  BY <1>a, <1>8 DEF Drift, procVars, ghostVars
<1>9. CASE UNCHANGED vars
  BY <1>a, <1>9 DEF vars, procVars, ghostVars
<1> QED BY <1>1, <1>2, <1>3, <1>4, <1>5, <1>6, <1>7, <1>8, <1>9, NextCases

\* An unforced apply begins to mutate only while state.json says CONFORMANT
\* without a fault, unless a lock has been stolen or somebody has written
\* without the lock since its Read.
THEOREM ControlInjectionIsAuthorised == Spec => []InjectionIsAuthorised
<1>1. Init => LockHeld /\ Authorised
  BY DEF Init, LockHeld, Authorised, Locked
<1>2. Authorised => InjectionIsAuthorised
  BY DEF Authorised, InjectionIsAuthorised, At
<1> QED BY <1>1, <1>2, TypedInit, TypedStep, ControlLock, LockHeldStep, AuthorisedStep, PTL DEF Spec
=============================================================================
