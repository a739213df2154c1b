--------------------------- MODULE LabRecordProofs ---------------------------
(***************************************************************************)
(* RecordMatchesEnvironment for every catalog and every set of processes.    *)
(* While nothing fails and no record is lost, a command that mutates is      *)
(* alone and ends with its Write; whoever reads or observes while it is at   *)
(* work has missed that Write, and loses a record by writing later.         *)
(***************************************************************************)
EXTENDS LabControlProofs

Agrees(r, e) == r # Unreadable => Coherent(r, e)

\* Between the Read and the Write of status and validate.
Observing == {"observe", "fresh", "relock", "observed"}

\* No handler runs and no Write of an apply has failed.
Undisturbed ==
  \A p \in Procs : hs[p] = "none" /\ pc[p] \notin {"invalidate", "invalidated"}

\* What is about to be recorded is true.
Truthful == \A p \in Procs : pc[p] = "record" => Agrees(mem[p], env)

\* While nobody mutates, what is recorded is true, and so is what those have who
\* have missed no Write.
Reliable ==
  Settled => /\ Agrees(file, env)
             /\ \A p \in Procs : pc[p] \in Observing /\ dirty[p] = {} => Agrees(mem[p], env)

CalmInv == Calm => Undisturbed /\ Truthful /\ Reliable

-----------------------------------------------------------------------------
\* What has gone wrong stays wrong.
LEMMA CalmBefore ==
  ASSUME Typed, [Next]_vars, Calm'
  PROVE  Calm
<1>1. ~stolen
  BY NextUsesLock, StolenStays DEF Typed, TypeOK, Calm
<1>2. trouble = 0 /\ ~lost
  <2> USE DEF Calm, Typed, TypeOK, Trouble
  <2>1. ASSUME NEW p \in Procs, NEW c \in Commands, Start(p, c) PROVE trouble = 0 /\ ~lost
    BY <2>1 DEF Start, ghostVars
  <2>2. ASSUME NEW p \in Procs, Locking(p) \/ Unlock(p) \/ LockTrouble(p)
        PROVE  trouble = 0 /\ ~lost
    BY <2>2 DEF Locking, Unlock, LockTrouble, ghostVars
  <2>3. ASSUME NEW p \in Procs, Vanish(p), UNCHANGED trouble \/ Trouble PROVE trouble = 0 /\ ~lost
    BY <2>3 DEF Vanish
  <2>4. ASSUME NEW p \in Procs, Work(p) PROVE trouble = 0 /\ ~lost
    BY <2>4 DEF Work, GiveUp, ApplyRead, ApplyCheck, ApplyOk, ResetRead, ResetVerify, ProvisionBegin,
       RecoverOk, TierOk, BootstrapFails, UnknownTier, Suite, Commit, InvalidateRead, StatusRead,
       StatusObserve, ValidateRead, SideWrite, ReadFile, Write, ghostVars
  <2>5. ASSUME NEW p \in Procs, Obstacle(p) PROVE trouble = 0 /\ ~lost
    BY <2>5 DEF Obstacle, ApplyPart, ApplyFail, RestorePart, RestoreFail, CommitFail, SideWriteFail, ghostVars
  <2>6. ASSUME NEW p \in Procs, Interrupt(p) \/ HandlerRead(p) \/ HandlerWrite(p)
        PROVE  trouble = 0 /\ ~lost
    BY <2>6 DEF Interrupt, HandlerRead, HandlerWrite, ghostVars
  <2>7. CASE Drift \/ UNCHANGED vars
    BY <2>7 DEF Drift, vars, ghostVars
  <2> QED BY <2>1, <2>2, <2>3, <2>4, <2>5, <2>6, <2>7, NextCases
<1> QED BY <1>1, <1>2 DEF Calm

\* The lock: two commands never mutate at the same time.
LEMMA MutateAlone ==
  ASSUME LockHeld, ExclusiveUnlessStolen, ~stolen,
         NEW p \in Procs, NEW q \in Procs, pc[p] \in Mutating, pc[q] \in Mutating
  PROVE  q = p
<1>1. lk[p] = "held" /\ lk[q] = "held"
  BY DEF LockHeld, Locked, Mutating
<1> QED BY <1>1 DEF ExclusiveUnlessStolen, MutualExclusion, Holds

\* A step that takes one process elsewhere, not to a Write, and nothing with it.
LEMMA IdleStep ==
  ASSUME Typed, CalmInv, Calm, NEW p \in Procs,
         UNCHANGED <<file, env, mem, hs, dirty>>,
         \A q \in Procs \ {p} : pc'[q] = pc[q],
         \/ pc'[p] = pc[p]
         \/ /\ pc'[p] \notin Observing \cup {"record", "invalidate", "invalidated"}
            /\ pc[p] \notin Mutating
  PROVE  CalmInv'
<1>1. Undisturbed' /\ Truthful'
  BY DEF CalmInv, Undisturbed, Truthful
<1>2. Settled' => Settled
  BY DEF Settled
<1>3. Reliable'
  BY <1>2 DEF CalmInv, Reliable
<1> QED BY <1>1, <1>3 DEF CalmInv

\* A step of the command of p that carries out operations, or looks at their result.
LEMMA MutatingStep ==
  ASSUME Typed, LockHeld, ExclusiveUnlessStolen, CalmInv, Calm, NEW p \in Procs,
         UNCHANGED hs, \A q \in Procs \ {p} : pc'[q] = pc[q] /\ mem'[q] = mem[q],
         pc[p] \in Mutating, pc'[p] \in Mutating, pc'[p] = "record" => Agrees(mem'[p], env')
  PROVE  CalmInv'
<1>1. ~Settled'
  BY DEF Settled
<1>2. Undisturbed'
  BY DEF CalmInv, Undisturbed, Mutating
<1>3. ASSUME NEW q \in Procs, pc'[q] = "record" PROVE q = p
  BY <1>3, MutateAlone DEF Calm, Mutating
<1>4. Truthful'
  BY <1>3 DEF Truthful
<1> QED BY <1>1, <1>2, <1>4 DEF CalmInv, Reliable

\* A Write of p, which has missed no other, makes everybody else's copy dirty.
LEMMA WriteStep ==
  ASSUME Typed, CalmInv, Calm, NEW p \in Procs, NEW k, Write(p, mem[p], k),
         UNCHANGED <<env, mem, hs>>, pc' = [pc EXCEPT ![p] = pc'[p]],
         pc'[p] \in {"release", "done"},
         Settled' => Agrees(mem[p], env)
  PROVE  CalmInv'
<1>1. Undisturbed' /\ Truthful'
  BY DEF CalmInv, Undisturbed, Truthful, Typed, TypeOK
<1>2. ASSUME NEW q \in Procs, pc'[q] \in Observing PROVE dirty'[q] # {}
  BY <1>2 DEF Write, Observing, Window, Typed, TypeOK
<1>3. Reliable'
  BY <1>2 DEF Reliable, Write
<1> QED BY <1>1, <1>3 DEF CalmInv

-----------------------------------------------------------------------------
(* The commands. *)

LEMMA ReadStep ==
  ASSUME Typed, CalmInv, Calm, NEW p \in Procs,
         \/ ApplyRead(p) \/ ResetRead(p) \/ ProvisionBegin(p) \/ StatusRead(p) \/ ValidateRead(p)
  PROVE  CalmInv'
<1>0. PICK l \in {"precheck", "release", "verify", "recover", "tier", "observe", "done", "observed"} :
        pc' = [pc EXCEPT ![p] = l]
  BY DEF ApplyRead, ResetRead, ProvisionBegin, StatusRead, ValidateRead, ReadFile, FirstOfTier, Goto
<1>1. /\ UNCHANGED <<file, env, hs>>
      /\ dirty' = [dirty EXCEPT ![p] = {}]
      /\ \A q \in Procs \ {p} : pc'[q] = pc[q] /\ mem'[q] = mem[q] /\ dirty'[q] = dirty[q]
      /\ pc[p] \notin Mutating
      /\ pc'[p] \notin {"record", "invalidate", "invalidated"}
  <2>1. UNCHANGED <<file, env, hs>> /\ dirty' = [dirty EXCEPT ![p] = {}] /\ pc[p] \in {"lock", "read"}
    BY DEF ApplyRead, ResetRead, ProvisionBegin, StatusRead, ValidateRead, ReadFile, At, handlerVars
  <2>2. \E r : mem' = [mem EXCEPT ![p] = r]
    <3>1. mem' = mem => mem' = [mem EXCEPT ![p] = mem[p]]
      BY DEF Typed, TypeOK
    <3> QED
      BY <3>1 DEF ApplyRead, ResetRead, ProvisionBegin, StatusRead, ValidateRead, ReadFile
  <2>3. DOMAIN pc = Procs /\ DOMAIN mem = Procs /\ DOMAIN dirty = Procs
    BY DEF Typed, TypeOK
  <2> QED BY <1>0, <2>1, <2>2, <2>3 DEF Mutating
<1>2. pc'[p] \in Observing => mem'[p] = file
  BY DEF ApplyRead, ResetRead, ProvisionBegin, StatusRead, ValidateRead, ReadFile, FirstOfTier, At,
     Goto, Typed, TypeOK, Observing
<1>3. Undisturbed' /\ Truthful'
  BY <1>1 DEF CalmInv, Undisturbed, Truthful
<1>4. Settled' => Settled
  BY <1>1 DEF Settled
<1>5. Reliable'
  BY <1>1, <1>2, <1>4 DEF CalmInv, Reliable
<1> QED BY <1>3, <1>5 DEF CalmInv

LEMMA ObserveStep ==
  ASSUME Typed, CalmInv, Calm, NEW p \in Procs, StatusObserve(p)
  PROVE  CalmInv'
<1>1. /\ UNCHANGED <<file, env, hs, dirty>>
      /\ \A q \in Procs \ {p} : pc'[q] = pc[q] /\ mem'[q] = mem[q]
      /\ pc[p] = "observe" /\ pc'[p] \in {"fresh", "relock", "done"}
  BY DEF StatusObserve, At, Goto, handlerVars, ghostVars, Typed, TypeOK
<1>2. Undisturbed' /\ Truthful'
  BY <1>1 DEF CalmInv, Undisturbed, Truthful
<1>3. Settled' => Settled
  BY <1>1 DEF Settled, Mutating
<1>4. Agrees(mem[p], env) => Agrees(mem'[p], env)
  <2> SUFFICES ASSUME Agrees(mem[p], env) PROVE Agrees(mem'[p], env)
    OBVIOUS
  <2> DEFINE r == mem[p]
             d == Detected(r, LightHealthy)
  <2>1. mem'[p] \in {Fresh(d), [r EXCEPT !.state = d], [r EXCEPT !.valid = TRUE]}
        /\ (r = Unreadable => mem'[p] = Fresh(d))
    BY DEF StatusObserve, Typed, TypeOK
  <2>2. d = "CONFORMANT" => LightHealthy /\ (r # Unreadable => r.fault = NoFault)
    BY DEF Detected
  <2>3. CASE mem'[p] = Fresh(d)
    BY <2>2, <2>3 DEF Agrees, Coherent, Fresh, LightHealthy
  <2>4. CASE r # Unreadable /\ mem'[p] \in {[r EXCEPT !.state = d], [r EXCEPT !.valid = TRUE]}
    <3>1. r \in Record
      BY <2>4 DEF Typed, TypeOK
    <3>2. mem'[p].fault = r.fault /\ mem'[p].state \in {r.state, d}
      BY <2>4, <3>1 DEF Record
    <3> QED BY <2>2, <2>4, <3>2 DEF Agrees, Coherent, LightHealthy
  <2> QED BY <2>1, <2>3, <2>4
<1>5. Reliable'
  BY <1>1, <1>3, <1>4 DEF CalmInv, Reliable, Observing
<1> QED BY <1>2, <1>5 DEF CalmInv

LEMMA OperationStep ==
  ASSUME Typed, LockHeld, ExclusiveUnlessStolen, CalmInv, Calm, NEW p \in Procs,
         ApplyOk(p) \/ RecoverOk(p) \/ TierOk(p) \/ Suite(p) \/ ApplyPart(p) \/ RestorePart(p)
  PROVE  CalmInv'
<1>1. /\ UNCHANGED hs
      /\ \A q \in Procs \ {p} : pc'[q] = pc[q] /\ mem'[q] = mem[q]
      /\ pc[p] \in Mutating /\ pc'[p] \in Mutating
  BY DEF ApplyOk, RecoverOk, TierOk, Suite, ApplyPart, RestorePart, At, Goto, handlerVars, procVars,
     Typed, TypeOK, Mutating
<1>2. pc'[p] = "record" => Agrees(mem'[p], env')
  <2>1. CASE ApplyOk(p)
    <3>1. env' = env \cup Leaves[cmd[p].fault]
          /\ mem'[p] = [state |-> "DEGRADED", valid |-> TRUE, fault |-> cmd[p].fault]
      BY <2>1 DEF ApplyOk, Typed, TypeOK
    <3> QED BY <3>1 DEF Agrees, Coherent
  <2>2. CASE Suite(p)
    <3>1. PICK s \in {"CONFORMANT", "BROKEN"} :
            /\ mem'[p] = Fresh(s)
            /\ env' = env
            /\ s = "CONFORMANT" => SuiteConformant
      BY <2>2 DEF Suite, Typed, TypeOK
    <3>2. SuiteConformant => env \cap LightBreaking = {}
      BY CatalogAssumption DEF SuiteConformant
    <3>3. mem'[p].state = s /\ mem'[p].fault = NoFault
      BY <3>1 DEF Fresh
    <3>4. s = "CONFORMANT" => env' \cap LightBreaking = {}
      BY <3>1, <3>2
    <3> QED BY <3>3, <3>4 DEF Agrees, Coherent
  <2>3. CASE RecoverOk(p) \/ TierOk(p) \/ ApplyPart(p) \/ RestorePart(p)
    BY <2>3 DEF RecoverOk, TierOk, ApplyPart, RestorePart, At, Goto, procVars, Typed, TypeOK
  <2> QED BY <2>1, <2>2, <2>3
<1> QED BY <1>1, <1>2, MutatingStep

LEMMA WorkStep ==
  ASSUME Typed, LockHeld, ExclusiveUnlessStolen, CalmInv, Calm, Calm', NEW p \in Procs, Work(p)
  PROVE  CalmInv'
<1>1. CASE GiveUp(p) \/ ApplyCheck(p) \/ ResetVerify(p)
  <2>1. /\ UNCHANGED <<file, env, mem, hs, dirty>>
        /\ \A q \in Procs \ {p} : pc'[q] = pc[q]
        /\ pc[p] \notin Mutating
        /\ pc'[p] \notin Observing \cup {"record", "invalidate", "invalidated"}
    BY <1>1 DEF GiveUp, ApplyCheck, ResetVerify, At, Goto, handlerVars, ghostVars, Typed, TypeOK,
       Mutating, Observing
  <2> QED BY <2>1, IdleStep
<1>2. CASE ApplyRead(p) \/ ResetRead(p) \/ ProvisionBegin(p) \/ StatusRead(p) \/ ValidateRead(p)
  BY <1>2, ReadStep
<1>3. CASE ApplyOk(p) \/ RecoverOk(p) \/ TierOk(p) \/ Suite(p)
  BY <1>3, OperationStep
<1>4. CASE StatusObserve(p)
  BY <1>4, ObserveStep
<1>5. CASE BootstrapFails(p) \/ UnknownTier(p)
  BY <1>5 DEF BootstrapFails, UnknownTier, Calm
<1>6. CASE InvalidateRead(p)
  BY <1>6 DEF InvalidateRead, At, CalmInv, Undisturbed
<1>7. CASE Commit(p)
  <2>1. Agrees(mem[p], env)
    BY <1>7 DEF Commit, At, CalmInv, Truthful
  <2>2. /\ Write(p, mem[p], "transition") /\ UNCHANGED <<env, mem, hs>>
        /\ pc' = [pc EXCEPT ![p] = pc'[p]] /\ pc'[p] \in {"release", "done"}
    BY <1>7 DEF Commit, Goto, handlerVars, Typed, TypeOK
  <2> QED BY <2>1, <2>2, WriteStep
<1>8. CASE SideWrite(p)
  <2>1. pc[p] \in Observing
    BY <1>8 DEF SideWrite, SideWriting, CalmInv, Undisturbed, Observing
  <2>2. /\ Write(p, mem[p], "other") /\ UNCHANGED <<env, mem, hs>>
        /\ pc' = [pc EXCEPT ![p] = pc'[p]] /\ pc'[p] \in {"release", "done"}
    BY <1>8 DEF SideWrite, SideWriting, Goto, handlerVars, Typed, TypeOK
  <2>3. dirty[p] = {}
    BY <2>2 DEF Write, Calm
  <2>4. Settled' => Settled
    BY <2>1, <2>2 DEF Settled, Observing, Mutating, Typed, TypeOK
  <2>5. Settled' => Agrees(mem[p], env)
    BY <2>1, <2>3, <2>4 DEF CalmInv, Reliable
  <2> QED BY <2>2, <2>5, WriteStep
<1> QED BY <1>1, <1>2, <1>3, <1>4, <1>5, <1>6, <1>7, <1>8 DEF Work

LEMMA CalmStep ==
  Typed /\ LockHeld /\ ExclusiveUnlessStolen /\ CalmInv /\ [Next]_vars => CalmInv'
<1> SUFFICES ASSUME Typed, LockHeld, ExclusiveUnlessStolen, CalmInv, [Next]_vars, Calm'
             PROVE  CalmInv'
  BY DEF CalmInv
<1>0. Calm
  BY CalmBefore
<1>a. \A p \in Procs : hs[p] = "none"
  BY <1>0 DEF CalmInv, Undisturbed
<1>1. ASSUME NEW p \in Procs, NEW c \in Commands, Start(p, c) PROVE CalmInv'
  <2>1. /\ UNCHANGED <<file, env, mem, hs, dirty>>
        /\ \A q \in Procs \ {p} : pc'[q] = pc[q]
        /\ pc[p] \notin Mutating
        /\ pc'[p] \notin Observing \cup {"record", "invalidate", "invalidated"}
    BY <1>1 DEF Start, At, Goto, handlerVars, ghostVars, Typed, TypeOK, Mutating, Observing
  <2> QED BY <1>0, <2>1, IdleStep
<1>2. ASSUME NEW p \in Procs, Locking(p) \/ Unlock(p) PROVE CalmInv'
  <2>1. /\ UNCHANGED <<file, env, mem, hs, dirty>>
        /\ \A q \in Procs \ {p} : pc'[q] = pc[q]
        /\ \/ pc'[p] = pc[p]
           \/ /\ pc[p] \notin Mutating
              /\ pc'[p] \notin Observing \cup {"record", "invalidate", "invalidated"}
    BY <1>2 DEF Locking, Unlock, At, Goto, procVars, handlerVars, ghostVars, Typed, TypeOK,
       Mutating, Observing
  <2> QED BY <1>0, <2>1, IdleStep
<1>3. ASSUME NEW p \in Procs, Exit(p) PROVE CalmInv'
  <2>1. /\ UNCHANGED <<file, env>>
        /\ \A q \in Procs \ {p} : /\ pc'[q] = pc[q] /\ mem'[q] = mem[q]
                                  /\ dirty'[q] = dirty[q] /\ hs'[q] = hs[q]
        /\ pc[p] = "done" /\ pc'[p] = "gone" /\ hs'[p] = "none"
    BY <1>3 DEF Exit, Vanish, At, Goto, Typed, TypeOK
  <2>2. Undisturbed' /\ Truthful'
    BY <1>0, <2>1 DEF CalmInv, Undisturbed, Truthful
  <2>3. Settled' => Settled
    BY <2>1 DEF Settled, Mutating
  <2>4. Reliable'
    BY <1>0, <2>1, <2>3 DEF CalmInv, Reliable, Observing
  <2> QED BY <2>2, <2>4 DEF CalmInv
<1>4. ASSUME NEW p \in Procs, Work(p) PROVE CalmInv'
  BY <1>0, <1>4, WorkStep
<1>5. ASSUME NEW p \in Procs, ApplyPart(p) \/ RestorePart(p) PROVE CalmInv'
  BY <1>0, <1>5, OperationStep
<1>6. ASSUME NEW p \in Procs, \/ ApplyFail(p) \/ RestoreFail(p) \/ CommitFail(p) \/ SideWriteFail(p)
                              \/ LockTrouble(p) \/ Interrupt(p) \/ Crash(p)
      PROVE  FALSE
  BY <1>6 DEF ApplyFail, RestoreFail, CommitFail, SideWriteFail, LockTrouble, Interrupt, Crash, Trouble,
     Calm, Typed, TypeOK
<1>7. ASSUME NEW p \in Procs, Handler(p) PROVE FALSE
  BY <1>a, <1>7 DEF Handler, HandlerRead, HandlerWrite, HandlerExit
<1>8. ~Drift
  BY DEF Drift, Trouble, Calm, Typed, TypeOK
<1>9. CASE UNCHANGED vars
  BY <1>9 DEF CalmInv, Calm, Undisturbed, Truthful, Reliable, Settled, vars, procVars, handlerVars,
     ghostVars, lockVars
<1> QED
  BY <1>1, <1>2, <1>3, <1>4, <1>5, <1>6, <1>7, <1>8, <1>9 DEF Next, Advance, Hindrance, Work

\* As long as nothing fails and no record is lost, what state.json says is true
\* of the machine whenever no command is mutating it: a recorded fault is there,
\* and CONFORMANT is not recorded while the lightweight checks fail, for any
\* catalog and any number of concurrent commands (fault.go, reset.go, status.go).
THEOREM ControlRecordMatchesEnvironment == Spec => []RecordMatchesEnvironment
<1>1. Init => LockHeld
  BY DEF Init, LockHeld, Locked
<1>2. Init => CalmInv
  BY InitialAssumption DEF Init, CalmInv, Undisturbed, Truthful, Reliable, Agrees, Observing
<1>3. CalmInv => RecordMatchesEnvironment
  BY DEF CalmInv, Reliable, Agrees, RecordMatchesEnvironment
<1> QED
  BY <1>1, <1>2, <1>3, TypedInit, TypedStep, ControlLock, LockHeldStep, CalmStep, PTL DEF Spec
=============================================================================
