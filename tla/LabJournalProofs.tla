-------------------------- MODULE LabJournalProofs --------------------------
(***************************************************************************)
(* Proofs about LabJournal, for any processes, histories and bounds: every   *)
(* step uses state.json as LabStore says, the history is the newest part of  *)
(* what was recorded, and the audit log is true and in order.                *)
(***************************************************************************)
EXTENDS LabJournal, LabStoreProofs, FiniteSetTheorems, SequenceTheorems

USE JournalAssumption

-----------------------------------------------------------------------------
(* Use of the store. *)

\* What a command writes is something that Read accepts.
LEMMA HistoryIsValue == \A p \in Procs : NewHistory(p) \in Values
<1> SUFFICES ASSUME NEW p \in Procs PROVE NewHistory(p) \in Values
  OBVIOUS
<1> DEFINE read == IF sf[p] \in Values THEN sf[p] ELSE <<>>
<1>1. read \in Values
  OBVIOUS
<1>2. Newest(Append(read, p)) \in Values /\ Newest(Append(<<>>, p)) \in Values
  BY <1>1 DEF Newest
<1> QED
  BY <1>1, <1>2 DEF NewHistory

LEMMA StepUsesStore == [Next]_vars => [StoreNext]_storeVars
<1> SUFFICES ASSUME [Next]_vars PROVE [StoreNext]_storeVars
  OBVIOUS
<1>1. CASE UNCHANGED vars
  BY <1>1 DEF vars, storeVars
<1>2. ASSUME NEW p \in Procs, Run(p) PROVE [StoreNext]_storeVars
  <2>1. CASE OpenState(p) \/ ReadState(p) \/ ReadStateFails(p) \/ WriteCall(p)
    BY <2>1 DEF OpenState, ReadState, ReadStateFails, WriteCall, StoreNext
  <2>2. CASE Record(p)
    BY <2>2, HistoryIsValue DEF Record, StoreNext
  <2>3. CASE \/ \E c \in Commands : Start(p, c)
             \/ Lock(p) \/ Steal(p) \/ Denied(p) \/ Release(p) \/ Operate(p) \/ Refused(p)
             \/ LogOp(p) \/ Log(p) \/ LogError(p)
    BY <2>3 DEF Start, Lock, Steal, Denied, Release, CommandOnly, Operate, Refused, LogOp, Log, LogError
  <2> QED
    BY <1>2, <2>1, <2>2, <2>3 DEF Run
<1>3. CASE World
  BY <1>3 DEF World, Crash, PowerFails, StoreNext
<1> QED
  BY <1>1, <1>2, <1>3 DEF Next

\* The control plane uses the store by its system calls, and in no other way.
THEOREM JournalUsesStore == Spec => StoreSpec
  BY StepUsesStore, PTL DEF Spec, Init, StoreSpec

\* Also under the commands and the handler, with their retries after a failed
\* Write, state.json is an atomic register.
THEOREM JournalRefinesRegister == Spec => ImplementsRegister
  BY JournalUsesStore, StoreRefinesRegister

\* No command ever finds, or leaves after a power cut, a partial state.json.
THEOREM JournalAlwaysWhole == Spec => []PublishedIsWhole
  BY JournalUsesStore, AlwaysWhole

\* No command leaves a temporary file, unless it died.
THEOREM JournalAlwaysClean == Spec => []NoTempAfterWrite
  BY JournalUsesStore, AlwaysClean

LEMMA StoreInvariance == Spec => []StoreInv
  BY JournalUsesStore, Invariance

-----------------------------------------------------------------------------
(* Types. *)

\* host has a number of entries of each process.
LEMMA OpsOfNat == \A p \in Procs : host \in Seq(Entry) => OpsOf(p) \in Nat
<1> SUFFICES ASSUME NEW p \in Procs, host \in Seq(Entry) PROVE OpsOf(p) \in Nat
  OBVIOUS
<1> DEFINE mine == {i \in DOMAIN host : host[i].by = p}
<1>1. mine \subseteq 1..Len(host) /\ Len(host) \in Nat
  OBVIOUS
<1>2. IsFiniteSet(1..Len(host))
  BY <1>1, FS_Interval
<1>3. IsFiniteSet(mine)
  BY <1>1, <1>2, FS_Subset
<1> QED
  BY <1>3, FS_CardinalityType DEF OpsOf

LEMMA LineIsEntry ==
  \A p \in Procs, n \in Nat :
    \A k \in {"op", "transition", "run", "reconciliation", "interrupt", "error"} :
      Line(k, p, n) \in Entry
  BY DEF Line, Entry

\* An entry is appended, cut short, or lost, and each of the two failures counts.
LEMMA AppendType ==
  ASSUME TypeOK, NEW e \in Entry, Append1(e)
  PROVE /\ audit' \in Seq(Entry \cup {Garbled}) /\ ragged' \in BOOLEAN
        /\ trouble' \in 0..MaxTrouble
<1> DEFINE Lines == Seq(Entry \cup {Garbled})
<1>1. Append(audit, e) \in Lines /\ Append(audit, Garbled) \in Lines /\ audit \in Lines
  BY DEF TypeOK
<1>2. audit' \in Lines
  BY <1>1 DEF Append1, auditVars
<1>3. ragged' \in BOOLEAN
  BY DEF TypeOK, Append1, auditVars
<1>4. trouble' \in 0..MaxTrouble
  BY DEF TypeOK, Append1, Trouble
<1> QED
  BY <1>2, <1>3, <1>4

LEMMA TroubleType ==
  ASSUME TypeOK, Trouble
  PROVE  trouble' \in 0..MaxTrouble /\ trouble' = trouble + 1
  BY DEF TypeOK, Trouble

LEMMA StepTypeOK == TypeOK /\ StoreTypeOK' /\ [Next]_vars => TypeOK'
<1> SUFFICES ASSUME TypeOK, StoreTypeOK', [Next]_vars PROVE TypeOK'
  OBVIOUS
<1> USE DEF Goto, Moves, CommandOnly, commandVars, auditVars, ghostVars
<1>1. CASE UNCHANGED vars
  BY <1>1 DEF vars, TypeOK
<1>2. ASSUME NEW p \in Procs, Run(p) PROVE TypeOK'
  <2>1. ASSUME NEW c \in Commands, Start(p, c) PROVE TypeOK'
    BY <2>1 DEF Start, TypeOK, Labels
  <2>2. CASE Lock(p) \/ Steal(p)
    <3>1. pc' \in [Procs -> Labels]
      BY <2>2 DEF Lock, Steal, Locked, TypeOK, Labels
    <3>2. stolen' \in BOOLEAN /\ holders' \subseteq Procs
      BY <2>2 DEF Lock, Steal, Locked, TypeOK
    <3> QED
      BY <2>2, <3>1, <3>2 DEF Lock, Steal, Locked, TypeOK
  <2>3. CASE Denied(p) \/ Release(p)
    BY <2>3 DEF Denied, Release, TypeOK, Labels
  <2>4. CASE OpenState(p)
    BY <2>4 DEF OpenState, TypeOK
  <2>5. CASE ReadState(p)
    <3>1. pc' \in [Procs -> Labels]
      BY <2>5 DEF ReadState, Found, TypeOK, Labels
    <3> QED
      BY <2>5, <3>1 DEF ReadState, TypeOK
  <2>6. CASE Operate(p)
    <3>1. host' \in Seq(Entry)
      BY <2>6, OpsOfNat, LineIsEntry DEF Operate, TypeOK
    <3> QED
      BY <2>6, <3>1 DEF Operate, TypeOK, Labels
  <2>7. CASE Refused(p)
    BY <2>7, TroubleType DEF Refused, TypeOK, Labels
  <2>8. CASE LogOp(p)
    <3>1. Line("op", p, OpsOf(p)) \in Entry
      BY OpsOfNat, LineIsEntry DEF TypeOK
    <3>2. pc' \in [Procs -> Labels]
      BY <2>8 DEF LogOp, TypeOK, Labels
    <3> QED
      BY <2>8, <3>1, <3>2, AppendType DEF LogOp, TypeOK
  <2>9. CASE Record(p)
    BY <2>9 DEF Record, TypeOK, Labels
  <2>10. CASE WriteCall(p)
    <3>1. pc' \in [Procs -> Labels]
      BY <2>10 DEF WriteCall, AfterWrite, TypeOK, Labels
    <3>2. trouble' \in 0..MaxTrouble
      BY <2>10, TroubleType DEF WriteCall, TypeOK
    <3>3. /\ recorded' \in Seq(Old \cup Procs)
          /\ committed' \subseteq Procs /\ behind' \subseteq Procs
          /\ blind' \subseteq Procs /\ stolen' \in BOOLEAN
          /\ erased' \in BOOLEAN /\ blackout' \in BOOLEAN
      <4>1. Append(recorded, p) \in Seq(Old \cup Procs) /\ <<p>> \in Seq(Old \cup Procs)
        BY DEF TypeOK
      <4>2. (erased \/ p \in behind \cup blind) \in BOOLEAN /\ (erased \/ p \in blind) \in BOOLEAN
        OBVIOUS
      <4>3. Published(p)
        BY <2>10 DEF WriteCall
      <4>4. CASE at'[p] # "ok" \/ pc[p] = "rewriting" \/ cmd[p] \notin Mutating
        BY <4>2, <4>3, <4>4 DEF Published, ghostVars, TypeOK
      <4>5. CASE at'[p] = "ok" /\ pc[p] # "rewriting" /\ cmd[p] \in Mutating
        BY <4>1, <4>2, <4>3, <4>5 DEF Published, TypeOK
      <4> QED
        BY <4>4, <4>5
    <3> QED
      BY <2>10, <3>1, <3>2, <3>3 DEF WriteCall, TypeOK
  <2>11. CASE Log(p)
    <3>1. Line(Kind(cmd[p]), p, 1) \in Entry
      BY LineIsEntry DEF Kind
    <3> QED
      BY <2>11, <3>1, AppendType DEF Log, TypeOK, Labels
  <2>12. CASE LogError(p)
    <3>1. Line("error", p, 1) \in Entry
      BY LineIsEntry
    <3> QED
      BY <2>12, <3>1, AppendType DEF LogError, TypeOK, Labels
  <2>13. CASE ReadStateFails(p)
    <3>1. pc' \in [Procs -> Labels]
      BY <2>13 DEF ReadStateFails, Found, TypeOK, Labels
    <3> QED
      BY <2>13, <3>1, TroubleType DEF ReadStateFails, TypeOK
  <2> QED
    BY <1>2, <2>1, <2>2, <2>3, <2>4, <2>5, <2>6, <2>7, <2>8, <2>9, <2>10, <2>11, <2>12, <2>13 DEF Run
<1>3. ASSUME NEW p \in Procs, Crash(p) PROVE TypeOK'
  BY <1>3, TroubleType DEF Crash, TypeOK, Labels
<1>4. CASE PowerFails
  <2>1. audit' \in Seq(Entry \cup {Garbled})
    BY <1>4 DEF PowerFails, TypeOK
  <2>2. pc' \in [Procs -> Labels]
    BY <1>4 DEF PowerFails, TypeOK, Labels
  <2>3. ragged' \in BOOLEAN /\ erased' \in BOOLEAN
    BY <1>4 DEF PowerFails, TypeOK
  <2> QED
    BY <1>4, <2>1, <2>2, <2>3, TroubleType DEF PowerFails, TypeOK
<1>5. CASE CommitDir /\ UNCHANGED <<commandVars, host, auditVars, ghostVars, trouble>>
  BY <1>5 DEF TypeOK
<1> QED
  BY <1>1, <1>2, <1>3, <1>4, <1>5 DEF Next, World

LEMMA InitTypeOK == Init => TypeOK
<1> SUFFICES ASSUME Init PROVE TypeOK
  OBVIOUS
<1>1. StoreTypeOK
  BY InitInv DEF Init, StoreInv
<1>2. recorded \in Seq(Old \cup Procs)
  BY DEF Init, StoreInit, Whole
<1>3. audit \in Seq(Entry \cup {Garbled}) /\ host \in Seq(Entry) /\ trouble \in 0..MaxTrouble
  BY DEF Init
<1> QED
  BY <1>1, <1>2, <1>3 DEF Init, TypeOK, Labels

\* Every variable of the journal keeps its type.
THEOREM TypeInvariance == Spec => []TypeOK
<1>1. StoreInv => StoreTypeOK
  BY DEF StoreInv
<1> QED
  BY StoreInvariance, InitTypeOK, StepTypeOK, <1>1, PTL DEF Spec

-----------------------------------------------------------------------------
(* Where the commands are. *)

\* The part of apply, reset and provision in which the lock keeps the others out.
Changing(p) ==
  cmd[p] \in Mutating /\ pc[p] \in {"read", "operate", "logop", "record", "write"}

\* p has read state.json and has not written it.
Informed(p) ==
  \/ cmd[p] # "provision" /\ pc[p] \in {"operate", "logop", "record", "rewrite"}
  \/ cmd[p] = "status" /\ pc[p] \in {"lock", "log"}

ControlInv ==
  \A p \in Procs :
    /\ ~stolen /\ Changing(p) => holders = {p}
    /\ ~stolen /\ Changing(p) /\ cmd[p] # "provision" /\ (pc[p] # "read" \/ at[p] = "reading")
         => p \notin behind
    /\ Informed(p) => at[p] = "idle"
    /\ at[p] = "reading" => pc[p] \in {"read", "invalidate"}
    /\ at[p] \in Writing => pc[p] \in {"write", "rewriting"}
    /\ pc[p] = "new" => cmd[p] = "none" /\ at[p] = "new"
    /\ pc[p] \in {"read", "error", "invalidate", "rewrite", "rewriting"} => cmd[p] # "provision"
    /\ pc[p] \in {"operate", "logop"} => cmd[p] \in Mutating

\* One call of a Write: it goes on or ends, and only then the command does.
LEMMA WriteCallEffect ==
  ASSUME TypeOK, NEW p \in Procs, WriteCall(p)
  PROVE  /\ at[p] \in Writing /\ pc[p] \in {"write", "rewriting"}
         /\ at' = [at EXCEPT ![p] = at'[p]]
         /\ \/ at'[p] \in Writing /\ pc' = pc
            \/ /\ at'[p] \in {"ok", "failed"}
               /\ pc' = [pc EXCEPT ![p] = pc'[p]]
               /\ pc'[p] \in {"release", "error", "log"}
               /\ cmd[p] \in {"status", "provision"} => pc'[p] = "release"
  BY DEF TypeOK, StoreTypeOK, WriteCall, WriteStep, Fails, CreateTemp, WriteData, Sync, Chmod,
         Rename, Cleanup, CreateFails, CallFails, Step, Goto, AfterWrite, Writing

\* ... and the other processes do not notice.
LEMMA WriteCallOthers ==
  ASSUME TypeOK, NEW p \in Procs, WriteCall(p), NEW q \in Procs, q # p
  PROVE  at'[q] = at[q] /\ pc'[q] = pc[q]
<1>1. DOMAIN at = Procs /\ DOMAIN pc = Procs
  BY DEF TypeOK, StoreTypeOK
<1>2. at' = [at EXCEPT ![p] = at'[p]] /\ (pc' = pc \/ pc' = [pc EXCEPT ![p] = pc'[p]])
  BY WriteCallEffect
<1>3. at'[q] = at[q]
  BY <1>1, <1>2
<1>4. pc'[q] = pc[q]
  BY <1>1, <1>2
<1> QED
  BY <1>3, <1>4

\* A step of p that leaves the others where they are, and at most takes the lock
\* from p.
LEMMA MoveControl ==
  ASSUME ControlInv, NEW p \in Procs, UNCHANGED <<cmd, stolen>>, behind' \subseteq behind,
         \A q \in Procs \ {p} : pc'[q] = pc[q] /\ at'[q] = at[q],
         holders' \in {holders, holders \ {p}},
         ControlInv!(p)'
  PROVE  ControlInv'
<1> SUFFICES ASSUME NEW q \in Procs, q # p PROVE ControlInv!(q)'
  BY DEF ControlInv
<1>1. Changing(q)' = Changing(q) /\ Informed(q)' = Informed(q)
  BY DEF Changing, Informed
<1>2. holders = {q} => holders' = {q}
  OBVIOUS
<1> QED
  BY <1>1, <1>2 DEF ControlInv

\* A process that gets the lock is the only one in it, unless it has stolen it.
LEMMA LockControl ==
  ASSUME TypeOK, ControlInv, NEW p \in Procs, Lock(p) \/ Steal(p)
  PROVE  ControlInv'
<1>1. PICK l : /\ pc' = [pc EXCEPT ![p] = l]
               /\ l \in {"operate", "log", "record", "read"}
               /\ cmd[p] = "provision" <=> l = "operate"
               /\ cmd[p] = "status" <=> l \in {"log", "record"}
  BY DEF Lock, Steal, Locked, Goto
<1>2. /\ pc[p] = "lock" /\ holders' = holders \cup {p} /\ UNCHANGED <<cmd, at, behind>>
      /\ stolen' \/ (holders = {} /\ stolen' = stolen)
  BY DEF Lock, Steal, Locked, CommandOnly, storeVars, ghostVars
<1>3. pc'[p] = l /\ \A q \in Procs : q # p => pc'[q] = pc[q]
  BY <1>1 DEF TypeOK
<1>4. at[p] # "reading" /\ at[p] \notin Writing /\ (cmd[p] = "status" => at[p] = "idle")
  BY <1>2 DEF ControlInv, Informed
<1> SUFFICES ASSUME NEW q \in Procs PROVE ControlInv!(q)'
  BY DEF ControlInv
<1>5. CASE q = p
  <2>1. ~stolen' => holders' = {q}
    BY <1>2, <1>5
  <2> QED
    BY <1>1, <1>2, <1>3, <1>4, <1>5, <2>1 DEF Changing, Informed, Mutating
<1>6. CASE q # p
  <2>1. ASSUME ~stolen' PROVE ~stolen /\ ~Changing(q)
    <3>1. ~stolen /\ holders = {}
      BY <1>2, <2>1
    <3>2. Changing(q) => holders = {q}
      BY <3>1 DEF ControlInv
    <3> QED
      BY <3>1, <3>2
  <2>2. Changing(q)' = Changing(q) /\ Informed(q)' = Informed(q) /\ pc'[q] = pc[q]
    BY <1>2, <1>3, <1>6 DEF Changing, Informed
  <2> QED
    BY <1>2, <2>1, <2>2 DEF ControlInv
<1> QED
  BY <1>5, <1>6

LEMMA ReleaseControl ==
  ASSUME TypeOK, ControlInv, NEW p \in Procs, Release(p)
  PROVE  ControlInv'
<1>1. /\ pc[p] = "release" /\ pc' = [pc EXCEPT ![p] = "done"]
      /\ holders' = holders \ {p} /\ UNCHANGED <<cmd, at, behind, stolen>>
  BY DEF Release, Moves, Goto, CommandOnly, storeVars, ghostVars
<1>2. pc'[p] = "done" /\ \A q \in Procs : q # p => pc'[q] = pc[q]
  BY <1>1 DEF TypeOK
<1>3. at[p] # "reading" /\ at[p] \notin Writing
  BY <1>1 DEF ControlInv
<1>4. ControlInv!(p)'
  BY <1>1, <1>2, <1>3 DEF Changing, Informed
<1> QED
  BY <1>1, <1>2, <1>4, MoveControl

\* Only a transition leaves others behind, and nobody else is changing anything.
LEMMA WriteControl ==
  ASSUME TypeOK, ControlInv, NEW p \in Procs, WriteCall(p)
  PROVE  ControlInv'
<1>1. UNCHANGED <<cmd, holders, stolen>>
  BY DEF WriteCall, Published, ghostVars
<1>2. behind' = behind \/ (behind' = Procs \ {p} /\ pc[p] = "write" /\ cmd[p] \in Mutating)
  BY WriteCallEffect DEF WriteCall, Published, ghostVars
<1> SUFFICES ASSUME NEW q \in Procs PROVE ControlInv!(q)'
  BY DEF ControlInv
<1>3. CASE q = p
  <2>1. at[p] \in Writing /\ pc[p] \in {"write", "rewriting"}
    BY WriteCallEffect
  <2>2. \/ at'[p] \in Writing /\ pc'[p] = pc[p]
        \/ /\ at'[p] \in {"ok", "failed"} /\ pc'[p] \in {"release", "error", "log"}
           /\ cmd[p] \in {"status", "provision"} => pc'[p] = "release"
    BY WriteCallEffect DEF TypeOK, StoreTypeOK
  <2>3. p \notin behind => p \notin behind'
    BY <1>2
  <2>4. (cmd[p] # "provision" /\ pc[p] = "rewriting") \/ pc[p] = "write"
    BY <2>1 DEF ControlInv
  <2>5. ~Informed(p)' /\ at'[p] # "reading" /\ (Changing(p)' => Changing(p) /\ pc[p] # "read")
    BY <1>1, <2>1, <2>2 DEF Informed, Changing, Writing
  <2>6. /\ at'[p] \in Writing => pc'[p] \in {"write", "rewriting"}
        /\ pc'[p] \notin {"new", "operate", "logop"}
        /\ pc'[p] \in {"read", "error", "invalidate", "rewrite", "rewriting"} => cmd'[p] # "provision"
    <3>1. CASE at'[p] \in Writing /\ pc'[p] = pc[p]
      BY <1>1, <2>1, <2>4, <3>1
    <3>2. CASE at'[p] \in {"ok", "failed"} /\ pc'[p] \in {"release", "error", "log"}
      BY <1>1, <2>2, <3>2 DEF Writing
    <3> QED
      BY <2>2, <3>1, <3>2
  <2> QED
    BY <1>1, <1>3, <2>3, <2>5, <2>6 DEF ControlInv
<1>4. CASE q # p
  <2>1. at'[q] = at[q] /\ pc'[q] = pc[q]
    BY <1>4, WriteCallOthers
  <2>2. ASSUME ~stolen, Changing(q) PROVE behind' = behind
    <3>1. holders = {q}
      BY <2>2 DEF ControlInv
    <3>2. ~Changing(p)
      <4>1. Changing(p) => holders = {p}
        BY <2>2 DEF ControlInv
      <4> QED
        BY <1>4, <3>1, <4>1
    <3> QED
      BY <1>2, <3>2 DEF Changing
  <2>3. Changing(q)' = Changing(q) /\ Informed(q)' = Informed(q)
    BY <1>1, <2>1 DEF Changing, Informed
  <2> QED
    BY <1>1, <2>1, <2>2, <2>3 DEF ControlInv
<1> QED
  BY <1>3, <1>4

LEMMA StepControl == TypeOK /\ ControlInv /\ [Next]_vars => ControlInv'
<1> SUFFICES ASSUME TypeOK, ControlInv, [Next]_vars PROVE ControlInv'
  OBVIOUS
<1>1. CASE UNCHANGED vars
  BY <1>1 DEF vars, storeVars, commandVars, ghostVars, ControlInv, Changing, Informed
<1>2. ASSUME NEW p \in Procs, Run(p) PROVE ControlInv'
  <2>1. ASSUME NEW c \in Commands, Start(p, c) PROVE ControlInv'
    <3>1. PICK l : /\ pc' = [pc EXCEPT ![p] = l] /\ l \in {"lock", "error", "read"}
                   /\ c \in Mutating <=> l # "read"
                   /\ l = "error" => c = "apply"
      BY <2>1 DEF Start, Goto, Mutating, Commands
    <3>2. /\ pc[p] = "new" /\ cmd' = [cmd EXCEPT ![p] = c]
          /\ UNCHANGED <<holders, at, behind, stolen>>
      BY <2>1 DEF Start, CommandOnly, storeVars, ghostVars
    <3>3. pc'[p] = l /\ cmd'[p] = c
      BY <3>1, <3>2 DEF TypeOK
    <3>4. \A q \in Procs : q # p => pc'[q] = pc[q] /\ cmd'[q] = cmd[q]
      BY <3>1, <3>2 DEF TypeOK
    <3> SUFFICES ASSUME NEW q \in Procs PROVE ControlInv!(q)'
      BY DEF ControlInv
    <3>5. CASE q = p
      <4>1. at'[p] = "new"
        BY <3>2 DEF ControlInv
      <4> QED
        BY <3>1, <3>3, <3>5, <4>1 DEF Changing, Informed, Mutating, Commands, Writing
    <3>6. CASE q # p
      <4>1. Changing(q)' = Changing(q) /\ Informed(q)' = Informed(q)
        BY <3>2, <3>4, <3>6 DEF Changing, Informed
      <4> QED
        BY <3>2, <3>4, <3>6, <4>1 DEF ControlInv
    <3> QED
      BY <3>5, <3>6
  <2>2. CASE Lock(p) \/ Steal(p)
    BY <2>2, LockControl
  <2>3. CASE Denied(p)
    <3>1. /\ pc[p] = "lock"
          /\ UNCHANGED <<cmd, stolen, holders>> /\ behind' \subseteq behind
          /\ \A q \in Procs \ {p} : pc'[q] = pc[q] /\ at'[q] = at[q]
          /\ at'[p] = at[p] /\ pc'[p] \in {"done", "error"} /\ (pc'[p] = "error" => cmd[p] = "apply")
      BY <2>3 DEF Denied, Moves, Goto, CommandOnly, storeVars, ghostVars, TypeOK
    <3>2. ControlInv!(p)'
      BY <3>1 DEF ControlInv, Changing, Informed, Mutating, Writing
    <3> QED
      BY <3>1, <3>2, MoveControl
  <2>4. CASE Release(p)
    BY <2>4, ReleaseControl
  <2>5. CASE OpenState(p)
    <3>1. /\ pc[p] \in {"read", "invalidate"}
          /\ UNCHANGED <<cmd, stolen, holders>> /\ behind' \subseteq behind
          /\ \A q \in Procs \ {p} : pc'[q] = pc[q] /\ at'[q] = at[q]
          /\ pc'[p] = pc[p] /\ at'[p] = "reading" /\ p \notin behind'
      <4>1. /\ UNCHANGED <<cmd, pc, holders, stolen>> /\ behind' = behind \ {p}
            /\ at' = [at EXCEPT ![p] = "reading"] /\ pc[p] \in {"read", "invalidate"}
        BY <2>5 DEF OpenState, Open, commandVars
      <4>2. DOMAIN at = Procs
        BY DEF TypeOK, StoreTypeOK
      <4> QED
        BY <4>1, <4>2
    <3>2. ControlInv!(p)'
      BY <3>1 DEF ControlInv, Changing, Informed, Mutating, Writing
    <3> QED
      BY <3>1, <3>2, MoveControl
  <2>6. CASE ReadState(p) \/ ReadStateFails(p)
    <3>1. /\ at[p] = "reading" /\ at' = [at EXCEPT ![p] = "idle"] /\ pc[p] \in {"read", "invalidate"}
          /\ UNCHANGED <<cmd, holders, behind, stolen>>
      BY <2>6 DEF ReadState, ReadStateFails, ReadAll, ReadFails, Step, ghostVars, ControlInv
    <3>2. PICK l \in Found(p, TRUE) \cup Found(p, FALSE) : pc' = [pc EXCEPT ![p] = l]
      <4>1. Found(p, sf'[p] \in Values) \subseteq Found(p, TRUE) \cup Found(p, FALSE)
        BY DEF Found
      <4> QED
        BY <2>6, <4>1 DEF ReadState, ReadStateFails, Goto
    <3>3. /\ l \in {"operate", "error", "release", "record", "rewrite", "lock", "done", "log"}
          /\ l = "lock" => cmd[p] = "status"
          /\ pc[p] = "invalidate" => l \in {"rewrite", "release"}
          /\ cmd[p] \in {"apply", "reset"} => l \notin {"record", "log", "lock"}
          /\ l = "error" => cmd[p] = "apply"
          /\ l = "rewrite" => pc[p] = "invalidate"
          /\ l = "operate" => cmd[p] \in {"apply", "reset"}
      <4>1. CASE pc[p] = "invalidate"
        BY <3>2, <4>1 DEF Found
      <4>2. CASE pc[p] # "invalidate"
        BY <3>1, <3>2, <4>2 DEF Found, ControlInv, TypeOK, Commands, Mutating
      <4> QED
        BY <4>1, <4>2
    <3>4. pc'[p] = l /\ at'[p] = "idle"
      BY <3>1, <3>2 DEF TypeOK, StoreTypeOK
    <3>5. \A q \in Procs \ {p} : pc'[q] = pc[q] /\ at'[q] = at[q]
      BY <3>1, <3>2 DEF TypeOK, StoreTypeOK
    <3>6. ControlInv!(p)'
      BY <3>1, <3>3, <3>4 DEF ControlInv, Changing, Informed, Mutating, Writing
    <3> QED
      BY <3>1, <3>5, <3>6, MoveControl
  <2>7. CASE Operate(p)
    <3>1. /\ pc[p] = "operate"
          /\ UNCHANGED <<cmd, stolen, holders>> /\ behind' \subseteq behind
          /\ \A q \in Procs \ {p} : pc'[q] = pc[q] /\ at'[q] = at[q]
          /\ at'[p] = at[p] /\ pc'[p] = "logop"
      BY <2>7 DEF Operate, Moves, Goto, storeVars, ghostVars, TypeOK
    <3>2. ControlInv!(p)'
      BY <3>1 DEF ControlInv, Changing, Informed, Mutating, Writing
    <3> QED
      BY <3>1, <3>2, MoveControl
  <2>8. CASE Refused(p)
    <3>1. /\ pc[p] = "operate" /\ cmd[p] # "provision"
          /\ UNCHANGED <<cmd, stolen, holders>> /\ behind' \subseteq behind
          /\ \A q \in Procs \ {p} : pc'[q] = pc[q] /\ at'[q] = at[q]
          /\ at'[p] = at[p] /\ pc'[p] = "error"
      BY <2>8 DEF Refused, Moves, Goto, storeVars, ghostVars, TypeOK
    <3>2. ControlInv!(p)'
      BY <3>1 DEF ControlInv, Changing, Informed, Mutating, Writing
    <3> QED
      BY <3>1, <3>2, MoveControl
  <2>9. CASE LogOp(p)
    <3>1. /\ pc[p] = "logop"
          /\ UNCHANGED <<cmd, stolen, holders>> /\ behind' \subseteq behind
          /\ \A q \in Procs \ {p} : pc'[q] = pc[q] /\ at'[q] = at[q]
          /\ at'[p] = at[p] /\ pc'[p] \in {"operate", "record", "error", "release"}
          /\ cmd[p] = "provision" => pc'[p] \in {"record", "release"}
      BY <2>9 DEF LogOp, Moves, Goto, storeVars, ghostVars, TypeOK
    <3>2. ControlInv!(p)'
      BY <3>1 DEF ControlInv, Changing, Informed, Mutating, Writing
    <3> QED
      BY <3>1, <3>2, MoveControl
  <2>10. CASE Record(p)
    <3>1. /\ pc[p] \in {"record", "rewrite"}
          /\ UNCHANGED <<cmd, stolen, holders>> /\ behind' \subseteq behind
          /\ \A q \in Procs \ {p} : pc'[q] = pc[q] /\ at'[q] = at[q]
          /\ at'[p] = "create" /\ pc'[p] = IF pc[p] = "record" THEN "write" ELSE "rewriting"
      BY <2>10 DEF Record, Call, Goto, ghostVars, TypeOK, StoreTypeOK
    <3>2. ControlInv!(p)'
      BY <3>1 DEF ControlInv, Changing, Informed, Mutating, Writing
    <3> QED
      BY <3>1, <3>2, MoveControl
  <2>11. CASE WriteCall(p)
    BY <2>11, WriteControl
  <2>12. CASE Log(p)
    <3>1. /\ pc[p] = "log"
          /\ UNCHANGED <<cmd, stolen, holders>> /\ behind' \subseteq behind
          /\ \A q \in Procs \ {p} : pc'[q] = pc[q] /\ at'[q] = at[q]
          /\ at'[p] = at[p] /\ pc'[p] = IF cmd[p] = "status" THEN "record" ELSE "release"
      BY <2>12 DEF Log, Moves, Goto, storeVars, ghostVars, TypeOK
    <3>2. ControlInv!(p)'
      BY <3>1 DEF ControlInv, Changing, Informed, Mutating, Writing
    <3> QED
      BY <3>1, <3>2, MoveControl
  <2>13. CASE LogError(p)
    <3>1. /\ pc[p] = "error"
          /\ UNCHANGED <<cmd, stolen, holders>> /\ behind' \subseteq behind
          /\ \A q \in Procs \ {p} : pc'[q] = pc[q] /\ at'[q] = at[q]
          /\ at'[p] = at[p] /\ pc'[p] \in {"invalidate", "release"}
      BY <2>13 DEF LogError, Moves, Goto, storeVars, ghostVars, TypeOK
    <3>2. ControlInv!(p)'
      BY <3>1 DEF ControlInv, Changing, Informed, Mutating, Writing
    <3> QED
      BY <3>1, <3>2, MoveControl
  <2> QED
    BY <1>2, <2>1, <2>2, <2>3, <2>4, <2>5, <2>6, <2>7, <2>8, <2>9, <2>10, <2>11, <2>12, <2>13 DEF Run
<1>3. ASSUME NEW p \in Procs, Crash(p) PROVE ControlInv'
  <2>1. /\ pc'[p] = "dead" /\ at'[p] = "died" /\ UNCHANGED <<cmd, stolen, behind>>
        /\ holders' = holders \ {p} /\ \A q \in Procs \ {p} : pc'[q] = pc[q] /\ at'[q] = at[q]
    BY <1>3 DEF Crash, Goto, Dies, ghostVars, TypeOK, StoreTypeOK
  <2>2. ControlInv!(p)'
    BY <2>1 DEF Changing, Informed, Writing
  <2> QED
    BY <2>1, <2>2, MoveControl
<1>4. CASE PowerFails
  <2> SUFFICES ASSUME NEW q \in Procs PROVE ControlInv!(q)'
    BY DEF ControlInv
  <2>1. /\ UNCHANGED cmd /\ pc'[q] \in {"new", "done", "dead"} /\ at'[q] \in {"new", "died"}
        /\ pc'[q] = "new" => pc[q] = "new" /\ (at[q] = "new" => at'[q] = "new")
    BY <1>4 DEF PowerFails, PowerLoss, TypeOK
  <2> QED
    BY <2>1 DEF ControlInv, Changing, Informed, Writing
<1>5. CASE CommitDir /\ UNCHANGED <<commandVars, host, auditVars, ghostVars, trouble>>
  BY <1>5 DEF CommitDir, commandVars, ghostVars, ControlInv, Changing, Informed
<1> QED
  BY <1>1, <1>2, <1>3, <1>4, <1>5 DEF Next, World

LEMMA ControlInvariance == Spec => []ControlInv
<1>1. Init => ControlInv
  BY DEF Init, StoreInit, ControlInv, Changing, Informed, Writing
<1> QED
  BY <1>1, TypeInvariance, StepControl, PTL DEF Spec

-----------------------------------------------------------------------------
(* The history. *)

\* h is the newest part of r: all of it, or as much as is kept.
Fits(h, r, bounded) ==
  /\ Len(h) <= Len(r)
  /\ \A i \in DOMAIN h : h[i] = r[Len(r) - Len(h) + i]
  /\ Len(h) < Len(r) => Len(h) = HistoryMax
  /\ bounded => Len(h) <= HistoryMax

\* The history of a file, where there is none an empty one.
Copy(v) == IF v \in Values THEN v ELSE <<>>
HasNewest(v) == Fits(Copy(v), recorded, committed # {})

\* p is writing a transition, which makes this of what is recorded.
Transition(p) == at[p] \in Writing /\ pc[p] = "write" /\ cmd[p] \in Mutating
Successor(p) == IF cmd[p] = "provision" THEN <<p>> ELSE Append(recorded, p)

\* What the file has, and what those who are neither behind nor blind read, have
\* read and write.
FitInv ==
  ~erased /\ ~stolen =>
    /\ HasNewest(Content(cur))
    /\ \A p \in Procs \ (behind \cup blind) :
         /\ at[p] = "reading" => HasNewest(Content(fd[p]))
         /\ at[p] = "idle" => HasNewest(sf[p])
         /\ at[p] \in Writing /\ ~Transition(p) => HasNewest(sf[p])
    /\ \A p \in Procs \ blind : Transition(p) => Fits(sf[p], Successor(p), TRUE)

\* AppendHistory keeps the newest entries if it is given the newest entries.
LEMMA NewestFits ==
  ASSUME NEW h \in Seq(Old \cup Procs), NEW r \in Seq(Old \cup Procs), NEW p \in Procs,
         Fits(h, r, FALSE)
  PROVE  Fits(Newest(Append(h, p)), Append(r, p), TRUE)
<1> DEFINE g == Append(h, p)
           q == Append(r, p)
<1>1. /\ g \in Seq(Old \cup Procs) /\ Len(g) = Len(h) + 1 /\ g[Len(g)] = p
      /\ \A i \in 1..Len(h) : g[i] = h[i]
  OBVIOUS
<1>2. /\ q \in Seq(Old \cup Procs) /\ Len(q) = Len(r) + 1 /\ q[Len(q)] = p
      /\ \A i \in 1..Len(r) : q[i] = r[i]
  OBVIOUS
<1>3. \A i \in 1..Len(g) : g[i] = q[Len(q) - Len(g) + i]
  <2> HIDE DEF g, q
  <2> SUFFICES ASSUME NEW i \in 1..Len(g) PROVE g[i] = q[Len(q) - Len(g) + i]
    OBVIOUS
  <2>1. CASE i = Len(g)
    BY <1>1, <1>2, <2>1
  <2>2. CASE i \in 1..Len(h)
    <3>0. Len(h) \in Nat /\ Len(r) \in Nat /\ DOMAIN h = 1..Len(h)
      OBVIOUS
    <3>1. Len(q) - Len(g) + i = Len(r) - Len(h) + i /\ Len(r) - Len(h) + i \in 1..Len(r)
      <4>1. Len(h) <= Len(r)
        BY DEF Fits
      <4>2. i \in Nat /\ 1 <= i /\ i <= Len(h)
        BY <2>2, <3>0
      <4>3. Len(g) = Len(h) + 1 /\ Len(q) = Len(r) + 1
        BY <1>1, <1>2
      <4> QED
        BY <3>0, <4>1, <4>2, <4>3
    <3>2. h[i] = r[Len(r) - Len(h) + i]
      BY <2>2, <3>0, Zenon DEF Fits
    <3> QED
      BY <1>1, <1>2, <2>2, <3>1, <3>2
  <2> QED
    BY <1>1, <2>1, <2>2
<1>4. CASE Len(g) > HistoryMax
  <2> DEFINE k == Len(g) - HistoryMax
             n == SubSeq(g, k + 1, Len(g))
  <2>1. k \in Nat /\ k + 1 \in 1..Len(g)
    BY <1>1, <1>4
  <2>2. Len(n) = HistoryMax /\ DOMAIN n = 1..HistoryMax /\ \A i \in 1..HistoryMax : n[i] = g[k + i]
    <3> HIDE DEF g
    <3> QED
      BY <1>1, <2>1, SubSeqProperties
  <2>3. Newest(g) = n
    BY <1>4 DEF Newest, Kept
  <2>4. \A i \in 1..HistoryMax : n[i] = q[Len(q) - HistoryMax + i]
    <3> HIDE DEF n, g, q
    <3> SUFFICES ASSUME NEW i \in 1..HistoryMax PROVE n[i] = q[Len(q) - HistoryMax + i]
      OBVIOUS
    <3>1. k + i \in 1..Len(g) /\ Len(q) - Len(g) + (k + i) = Len(q) - HistoryMax + i
      BY <1>1, <1>2, <2>1
    <3> QED
      BY <1>3, <2>2, <3>1
  <2>5. Len(n) <= Len(q)
    BY <1>1, <1>2, <1>4, <2>2 DEF Fits
  <2>6. Fits(n, q, TRUE)
    <3> HIDE DEF n, g, q
    <3>1. Len(n) = HistoryMax /\ DOMAIN n = 1..HistoryMax /\ HistoryMax \in Nat
      BY <2>2
    <3>2. \A i \in DOMAIN n : n[i] = q[Len(q) - Len(n) + i]
      BY <2>4, <3>1, Zenon
    <3>3. TRUE => Len(n) <= HistoryMax
      BY <3>1
    <3> QED
      BY <2>5, <3>1, <3>2, <3>3, Zenon DEF Fits
  <2>7. Fits(Newest(g), q, TRUE)
    BY <2>3, <2>6, Zenon
  <2> QED
    BY <2>7, Zenon DEF g, q
<1>5. CASE ~(Len(g) > HistoryMax)
  <2>1. Newest(g) = g
    BY <1>5 DEF Newest, Kept
  <2>2. Len(h) = Len(r)
    BY <1>1, <1>5 DEF Fits
  <2>3. Fits(g, q, TRUE)
    <3> HIDE DEF g, q
    <3>1. Len(g) = Len(q) /\ Len(g) <= HistoryMax /\ Len(g) \in Nat /\ DOMAIN g = 1..Len(g)
      BY <1>1, <1>2, <1>5, <2>2
    <3>2. \A i \in DOMAIN g : g[i] = q[Len(q) - Len(g) + i]
      BY <1>3, <3>1, Zenon
    <3>3. Len(g) <= Len(q) /\ (Len(g) < Len(q) => Len(g) = HistoryMax)
      <4>1. \A l \in Nat : l <= l /\ ~(l < l)
        OBVIOUS
      <4> QED
        BY <3>1, <4>1, Zenon
    <3>4. TRUE => Len(g) <= HistoryMax
      BY <3>1
    <3> QED
      BY <3>2, <3>3, <3>4, Zenon DEF Fits
  <2>4. Fits(Newest(g), q, TRUE)
    BY <2>1, <2>3, Zenon
  <2> QED
    BY <2>4, Zenon DEF g, q
<1> QED
  BY <1>4, <1>5

\* The history that is written is the newest part of what it makes of the record.
LEMMA RecordFits ==
  ASSUME StoreInv, TypeOK, ControlInv, FitInv, ~erased, ~stolen, NEW p \in Procs \ blind, Record(p)
  PROVE  IF pc[p] = "record" /\ cmd[p] \in Mutating
         THEN Fits(NewHistory(p), Successor(p), TRUE)
         ELSE p \notin behind => HasNewest(NewHistory(p))
<1> USE DEF Mutating
<1>1. NewHistory(p) = IF pc[p] = "rewrite" \/ cmd[p] \notin Mutating THEN Copy(sf[p])
                      ELSE Newest(Append(IF cmd[p] = "provision" THEN <<>> ELSE Copy(sf[p]), p))
  BY DEF NewHistory, Copy
<1>2. Copy(sf[p]) \in Values /\ Copy(sf[p]) \in Seq(Old \cup Procs)
  BY DEF Copy
<1>3. pc[p] \in {"record", "rewrite"}
  BY DEF Record
<1>4. CASE pc[p] = "record" /\ cmd[p] = "provision"
  <2>1. Fits(<<>>, <<>>, FALSE) /\ Append(<<>>, p) = <<p>> /\ <<>> \in Seq(Old \cup Procs)
    BY DEF Fits
  <2> QED
    BY <1>1, <1>4, <2>1, NewestFits DEF Successor
<1>5. CASE pc[p] = "record" /\ cmd[p] \in {"apply", "reset"}
  <2>1. p \notin behind /\ at[p] = "idle"
    BY <1>5 DEF ControlInv, Changing, Informed
  <2>2. HasNewest(sf[p])
    BY <2>1 DEF FitInv
  <2>3. Fits(Copy(sf[p]), recorded, FALSE)
    BY <2>2 DEF HasNewest, Fits
  <2>4. recorded \in Seq(Old \cup Procs)
    BY DEF TypeOK
  <2> QED
    BY <1>1, <1>2, <1>5, <2>3, <2>4, NewestFits DEF Successor
<1>6. CASE pc[p] = "rewrite" \/ cmd[p] \notin Mutating
  <2>1. at[p] = "idle"
    <3>1. pc[p] = "rewrite" => cmd[p] # "provision"
      BY DEF ControlInv
    <3> QED
      BY <1>3, <1>6, <3>1 DEF ControlInv, Informed
  <2>2. p \notin behind => HasNewest(sf[p])
    BY <2>1 DEF FitInv
  <2>3. NewHistory(p) = Copy(sf[p]) /\ Copy(NewHistory(p)) = Copy(sf[p])
    BY <1>1, <1>2, <1>6 DEF Copy
  <2> QED
    BY <1>6, <2>2, <2>3 DEF HasNewest
<1> QED
  BY <1>3, <1>4, <1>5, <1>6

\* A step that changes neither a history nor a label of a writer.
LEMMA FitFrame ==
  ASSUME FitInv, UNCHANGED <<cur, fd, sf, at, recorded, committed, behind, blind, erased, stolen>>,
         \A q \in Procs : at[q] \in Writing => pc'[q] = pc[q] /\ cmd'[q] = cmd[q]
  PROVE  FitInv'
<1> SUFFICES ASSUME ~erased, ~stolen PROVE FitInv'
  BY DEF FitInv
<1>1. \A v : HasNewest(v)' = HasNewest(v)
  BY DEF HasNewest, Copy
<1>2. \A q \in Procs : at[q] \in Writing =>
        (Transition(q)' = Transition(q) /\ Successor(q)' = Successor(q))
  BY DEF Transition, Successor
<1>3. \A q \in Procs : Transition(q)' => at[q] \in Writing
  BY DEF Transition
<1> HIDE DEF FitInv
<1> QED
  BY <1>1, <1>2, <1>3 DEF FitInv

\* The calls of a Write that change what the others, or a power cut, would find.
LEMMA WriteCallFits ==
  ASSUME StoreInv, TypeOK, ControlInv, FitInv, NEW p \in Procs, WriteCall(p)
  PROVE  FitInv'
<1> SUFFICES ASSUME ~erased', ~stolen' PROVE FitInv'
  BY DEF FitInv
<1>0. ~erased /\ ~stolen /\ UNCHANGED <<sf, fd, cmd, blind>> /\ at[p] \in Writing
      /\ at' = [at EXCEPT ![p] = at'[p]]
  <2>1. ~erased /\ ~stolen /\ UNCHANGED blind
    BY DEF WriteCall, Published, ghostVars
  <2>2. UNCHANGED <<sf, fd>>
    BY DEF WriteCall, WriteStep, Fails, CreateTemp, WriteData, Sync, Chmod, Rename, Cleanup,
           CreateFails, CallFails
  <2> QED
    BY <2>1, <2>2, WriteCallEffect DEF WriteCall
<1>1. CASE at'[p] # "ok"
  <2>1. UNCHANGED <<cur, recorded, committed, behind>>
    BY <1>1 DEF WriteCall, WriteStep, Fails, CreateTemp, WriteData, Sync, Chmod, Rename, Cleanup,
           CreateFails, CallFails, Step, Published, ghostVars, StoreInv, StoreTypeOK
  <2>2. \A v : HasNewest(v)' = HasNewest(v)
    BY <2>1 DEF HasNewest, Copy
  <2>3. \A q \in Procs : at'[q] \in Writing => at[q] \in Writing /\ pc'[q] = pc[q]
    <3>1. \A q \in Procs \ {p} : at'[q] = at[q] /\ pc'[q] = pc[q]
      BY WriteCallOthers
    <3>2. at'[p] \in Writing => pc' = pc
      BY WriteCallEffect DEF Writing
    <3> QED
      BY <1>0, <3>1, <3>2
  <2>4. \A q \in Procs : at'[q] \in {"idle", "reading"} => at'[q] = at[q]
    <3>1. \A q \in Procs \ {p} : at'[q] = at[q]
      BY WriteCallOthers
    <3>2. at'[p] \notin {"idle", "reading"}
      BY WriteCallEffect DEF Writing
    <3> QED
      BY <3>1, <3>2
  <2>5. \A q \in Procs : at'[q] \in Writing =>
          (Transition(q)' = Transition(q) /\ Successor(q)' = Successor(q))
    BY <1>0, <2>1, <2>3 DEF Transition, Successor
  <2>6. \A q \in Procs : Transition(q)' => at'[q] \in Writing
    BY DEF Transition
  <2> QED
    BY <1>0, <2>1, <2>2, <2>3, <2>4, <2>5, <2>6 DEF FitInv
<1>2. CASE at'[p] = "ok"
  <2>1. cur' = tmp[p] /\ at[p] = "rename"
    BY <1>2, <1>0 DEF WriteCall, WriteStep, Fails, CreateTemp, WriteData, Sync, Chmod, Rename,
           Cleanup, CreateFails, CallFails, Step, StoreInv, StoreTypeOK, Writing
  <2>2. Content(cur') = sf[p] /\ sf[p] \in Values
    BY <2>1 DEF StoreInv, Phases, Content, Writing
  <2>3. \A q \in Procs : at'[q] \in Writing \cup {"idle", "reading"} =>
          q # p /\ at'[q] = at[q] /\ pc'[q] = pc[q]
    <3>1. \A q \in Procs \ {p} : at'[q] = at[q] /\ pc'[q] = pc[q]
      BY WriteCallOthers
    <3> QED
      BY <1>2, <3>1 DEF Writing
  <2>4. pc[p] \in {"write", "rewriting"}
    BY DEF WriteCall
  <2>5. CASE pc[p] = "write" /\ cmd[p] \in Mutating
    <3>1. recorded' = Successor(p) /\ committed' = committed \cup {p} /\ behind' = Procs \ {p}
      BY <1>2, <2>5 DEF WriteCall, Published, Successor
    <3>0. p \notin blind
      <4>1. erased' = (erased \/ p \in blind)
        BY <1>2, <2>5 DEF WriteCall, Published
      <4> QED
        BY <4>1, Zenon
    <3>2. Fits(sf[p], Successor(p), TRUE)
      BY <1>0, <2>5, <3>0 DEF FitInv, Transition
    <3>3. HasNewest(Content(cur))'
      <4>1. (committed # {})' = TRUE
        BY <3>1
      <4>2. Copy(Content(cur))' = sf[p]
        BY <2>2 DEF Copy
      <4> QED
        BY <2>2, <3>1, <3>2, <4>1, <4>2 DEF HasNewest, Copy
    <3>4. \A q \in Procs : ~Transition(q)'
      <4> SUFFICES ASSUME NEW q \in Procs, Transition(q)' PROVE FALSE
        OBVIOUS
      <4>1. q # p /\ pc[q] = "write" /\ cmd[q] \in Mutating
        BY <1>0, <2>3 DEF Transition
      <4> QED
        BY <1>0, <2>5, <4>1 DEF ControlInv, Changing
    <3> QED
      BY <2>3, <3>1, <3>3, <3>4 DEF FitInv
  <2>6. CASE ~(pc[p] = "write" /\ cmd[p] \in Mutating)
    <3>1. UNCHANGED <<recorded, committed, behind>> /\ p \notin behind \cup blind
      BY <1>2, <2>4, <2>6 DEF WriteCall, Published
    <3>2. \A v : HasNewest(v)' = HasNewest(v)
      BY <3>1 DEF HasNewest, Copy
    <3>3. HasNewest(Content(cur'))
      BY <1>0, <2>2, <2>6, <3>1 DEF FitInv, Transition
    <3>4. \A q \in Procs : at'[q] \in Writing =>
            (Transition(q)' = Transition(q) /\ Successor(q)' = Successor(q))
      BY <1>0, <2>3, <3>1 DEF Transition, Successor
    <3>5. \A q \in Procs : Transition(q)' => at'[q] \in Writing
      BY DEF Transition
    <3> QED
      BY <1>0, <2>3, <3>1, <3>2, <3>3, <3>4, <3>5 DEF FitInv
  <2> QED
    BY <2>5, <2>6
<1> QED
  BY <1>1, <1>2

LEMMA StepFit ==
  StoreInv /\ TypeOK /\ ControlInv /\ FitInv /\ [Next]_vars => FitInv'
<1> SUFFICES ASSUME StoreInv, TypeOK, ControlInv, FitInv, [Next]_vars PROVE FitInv'
  OBVIOUS
<1> DEFINE Frame == /\ UNCHANGED <<cur, fd, sf, at, recorded, committed, behind, blind, erased, stolen>>
                    /\ \A q \in Procs : at[q] \in Writing => pc'[q] = pc[q] /\ cmd'[q] = cmd[q]
<1>0. Frame => FitInv'
  BY FitFrame
<1>1. CASE UNCHANGED vars
  BY <1>0, <1>1 DEF vars, storeVars, commandVars, ghostVars
<1>2. ASSUME NEW p \in Procs, Run(p) PROVE FitInv'
  <2>1. CASE \/ \E c \in Commands : Start(p, c)
             \/ Lock(p) \/ Denied(p) \/ Release(p) \/ Operate(p) \/ Refused(p)
             \/ LogOp(p) \/ Log(p) \/ LogError(p)
    <3>1. UNCHANGED <<cur, fd, sf, at, recorded, committed, behind, blind, erased, stolen>>
      BY <2>1 DEF Start, Lock, Locked, Denied, Release, Operate, Refused, LogOp, Log, LogError,
                  CommandOnly, storeVars, ghostVars
    <3>2. at[p] \notin Writing
      BY <2>1 DEF Start, Lock, Locked, Denied, Release, Operate, Refused, LogOp, Log, LogError, Moves,
                  ControlInv
    <3>3. \A q \in Procs \ {p} : pc'[q] = pc[q] /\ cmd'[q] = cmd[q]
      BY <2>1 DEF Start, Lock, Locked, Denied, Release, Operate, Refused, LogOp, Log, LogError, Moves,
                  Goto, TypeOK
    <3> QED
      BY <1>0, <3>1, <3>2, <3>3
  <2>2. ASSUME OpenState(p), ~erased, ~stolen PROVE FitInv'
    <3>1. /\ UNCHANGED <<cur, sf, pc, cmd, recorded, committed>>
          /\ behind' = behind \ {p} /\ blind' = blind \ {p}
          /\ at' = [at EXCEPT ![p] = "reading"] /\ fd' = [fd EXCEPT ![p] = cur]
      BY <2>2 DEF OpenState, Open, commandVars
    <3>2. \A v : HasNewest(v)' = HasNewest(v)
      BY <3>1 DEF HasNewest, Copy
    <3>3. \A q \in Procs : at'[q] \in Writing \cup {"idle"} => q # p /\ at'[q] = at[q]
      BY <3>1 DEF TypeOK, StoreTypeOK, Writing
    <3>4. \A q \in Procs : at'[q] \in Writing =>
            (Transition(q)' = Transition(q) /\ Successor(q)' = Successor(q))
      BY <3>1, <3>3 DEF Transition, Successor
    <3>5. \A q \in Procs : Transition(q)' => at'[q] \in Writing
      BY DEF Transition
    <3>6. \A q \in Procs \ (behind' \cup blind') : at'[q] = "reading" => HasNewest(Content(fd'[q]))
      BY <2>2, <3>1 DEF FitInv, TypeOK, StoreTypeOK
    <3> QED
      BY <2>2, <3>1, <3>2, <3>3, <3>4, <3>5, <3>6 DEF FitInv
  <2>3. ASSUME ReadState(p), ~erased, ~stolen PROVE FitInv'
    <3>1. /\ UNCHANGED <<cur, cmd, recorded, committed, behind, blind>> /\ at[p] = "reading"
          /\ at' = [at EXCEPT ![p] = "idle"] /\ fd' = [fd EXCEPT ![p] = NoFile]
          /\ sf' = [sf EXCEPT ![p] = Content(fd[p])]
      BY <2>3 DEF ReadState, ReadAll, Step, ghostVars
    <3>2. \A v : HasNewest(v)' = HasNewest(v)
      BY <3>1 DEF HasNewest, Copy
    <3>3. \A q \in Procs : at'[q] \in Writing \cup {"reading"} =>
            q # p /\ at'[q] = at[q] /\ pc'[q] = pc[q] /\ sf'[q] = sf[q] /\ fd'[q] = fd[q]
      BY <2>3, <3>1 DEF ReadState, Goto, TypeOK, StoreTypeOK, Writing
    <3>4. \A q \in Procs : at'[q] \in Writing =>
            (Transition(q)' = Transition(q) /\ Successor(q)' = Successor(q))
      BY <3>1, <3>3 DEF Transition, Successor
    <3>5. \A q \in Procs : Transition(q)' => at'[q] \in Writing
      BY DEF Transition
    <3>6. \A q \in Procs \ (behind \cup blind) : at'[q] = "idle" => HasNewest(sf'[q])
      BY <2>3, <3>1 DEF FitInv, TypeOK, StoreTypeOK
    <3> QED
      BY <2>3, <3>1, <3>2, <3>3, <3>4, <3>5, <3>6 DEF FitInv
  <2>4. ASSUME ReadStateFails(p), ~erased, ~stolen PROVE FitInv'
    <3>1. /\ UNCHANGED <<cur, cmd, recorded, committed, behind>> /\ at[p] = "reading"
          /\ at' = [at EXCEPT ![p] = "idle"] /\ blind' = blind \cup {p}
          /\ fd' = [fd EXCEPT ![p] = NoFile] /\ sf' = [sf EXCEPT ![p] = Torn]
      BY <2>4 DEF ReadStateFails, ReadFails, Step
    <3>2. \A v : HasNewest(v)' = HasNewest(v)
      BY <3>1 DEF HasNewest, Copy
    <3>3. \A q \in Procs \ {p} :
            at'[q] = at[q] /\ pc'[q] = pc[q] /\ sf'[q] = sf[q] /\ fd'[q] = fd[q]
      BY <2>4, <3>1 DEF ReadStateFails, Goto, TypeOK, StoreTypeOK
    <3>4. \A q \in Procs \ {p} : Transition(q)' = Transition(q) /\ Successor(q)' = Successor(q)
      BY <3>1, <3>3 DEF Transition, Successor
    <3> QED
      BY <2>4, <3>1, <3>2, <3>3, <3>4 DEF FitInv
  <2>5. ASSUME Record(p), ~erased, ~stolen PROVE FitInv'
    <3>1. /\ UNCHANGED <<cur, fd, cmd, recorded, committed, behind, blind>>
          /\ at' = [at EXCEPT ![p] = "create"] /\ sf' = [sf EXCEPT ![p] = NewHistory(p)]
          /\ pc' = [pc EXCEPT ![p] = IF pc[p] = "record" THEN "write" ELSE "rewriting"]
          /\ pc[p] \in {"record", "rewrite"}
      BY <2>5 DEF Record, Call, Goto, ghostVars
    <3>2. \A v : HasNewest(v)' = HasNewest(v)
      BY <3>1 DEF HasNewest, Copy
    <3>3. \A q \in Procs \ {p} : at'[q] = at[q] /\ sf'[q] = sf[q] /\ pc'[q] = pc[q]
      BY <3>1 DEF TypeOK, StoreTypeOK
    <3>4. \A q \in Procs : Successor(q)' = Successor(q)
      BY <3>1 DEF Successor
    <3>5. \A q \in Procs \ {p} : Transition(q)' = Transition(q)
      BY <3>1, <3>3 DEF Transition
    <3>6. /\ at'[p] = "create" /\ sf'[p] = NewHistory(p)
          /\ Transition(p)' = (pc[p] = "record" /\ cmd[p] \in Mutating)
      BY <3>1 DEF TypeOK, StoreTypeOK, Transition, Writing
    <3>7. p \notin blind' =>
            IF Transition(p)' THEN Fits(sf'[p], Successor(p)', TRUE)
            ELSE p \notin behind' => HasNewest(sf'[p])
      BY <2>5, <3>1, <3>4, <3>6, RecordFits
    <3>8. ASSUME NEW q \in Procs
          PROVE  /\ q \notin behind' \cup blind' =>
                      /\ at'[q] = "reading" => HasNewest(Content(fd'[q]))
                      /\ at'[q] = "idle" => HasNewest(sf'[q])
                      /\ at'[q] \in Writing /\ ~Transition(q)' => HasNewest(sf'[q])
                 /\ q \notin blind' /\ Transition(q)' => Fits(sf'[q], Successor(q)', TRUE)
      <4>1. CASE q = p
        BY <3>6, <3>7, <4>1
      <4>2. CASE q # p
        BY <2>5, <3>1, <3>3, <3>4, <3>5, <4>2 DEF FitInv
      <4> QED
        BY <4>1, <4>2
    <3>9. HasNewest(Content(cur'))
      BY <2>5, <3>1 DEF FitInv
    <3>10. /\ HasNewest(Content(cur))'
           /\ \A q \in Procs \ (behind \cup blind)' :
                /\ at'[q] = "reading" => HasNewest(Content(fd[q]))'
                /\ at'[q] = "idle" => HasNewest(sf[q])'
                /\ at'[q] \in Writing /\ ~Transition(q)' => HasNewest(sf[q])'
           /\ \A q \in (Procs \ blind)' : Transition(q)' => Fits(sf'[q], Successor(q)', TRUE)
      BY <3>2, <3>8, <3>9
    <3> QED
      BY <3>10 DEF FitInv
  <2>6. CASE WriteCall(p)
    BY <2>6, WriteCallFits
  <2>7. CASE Steal(p)
    BY <2>7 DEF Steal, FitInv
  <2>8. CASE erased \/ stolen
    <3>1. ASSUME OpenState(p) \/ ReadState(p) \/ ReadStateFails(p) \/ Record(p)
          PROVE  erased' \/ stolen'
      <4>1. UNCHANGED <<erased, stolen>>
        BY <3>1 DEF OpenState, ReadState, ReadStateFails, Record, ghostVars
      <4> QED
        BY <2>8, <4>1
    <3>2. erased' \/ stolen' => FitInv'
      BY DEF FitInv
    <3> QED
      BY <1>2, <2>1, <2>6, <2>7, <3>1, <3>2 DEF Run
  <2> QED
    BY <1>2, <2>1, <2>2, <2>3, <2>5, <2>6, <2>8, <2>4, <2>7 DEF Run
<1>3. ASSUME NEW p \in Procs, Crash(p) PROVE FitInv'
  <2> SUFFICES ASSUME ~erased, ~stolen PROVE FitInv'
    BY <1>3 DEF Crash, ghostVars, FitInv
  <2>1. /\ UNCHANGED <<cur, cmd, recorded, committed, behind, blind, erased, stolen>>
        /\ \A q \in Procs : at'[q] \in Writing \cup {"reading", "idle"} =>
             at'[q] = at[q] /\ sf'[q] = sf[q] /\ fd'[q] = fd[q] /\ pc'[q] = pc[q]
    BY <1>3 DEF Crash, Dies, Goto, ghostVars, TypeOK, StoreTypeOK, Writing
  <2>2. \A v : HasNewest(v)' = HasNewest(v)
    BY <2>1 DEF HasNewest, Copy
  <2>3. \A q \in Procs : at'[q] \in Writing =>
          (Transition(q)' = Transition(q) /\ Successor(q)' = Successor(q))
    BY <2>1 DEF Transition, Successor
  <2>4. \A q \in Procs : Transition(q)' => at'[q] \in Writing
    BY DEF Transition
  <2> QED
    BY <2>1, <2>2, <2>3, <2>4 DEF FitInv
<1>4. CASE PowerFails
  <2> SUFFICES ASSUME ~erased', ~stolen' PROVE FitInv'
    BY DEF FitInv
  <2>1. /\ ~erased /\ ~stolen /\ Content(cur') = Content(cur)
        /\ UNCHANGED <<recorded, committed>>
    BY <1>4 DEF PowerFails
  <2>2. \A q \in Procs : at'[q] \in {"new", "died"}
    BY <1>4 DEF PowerFails, PowerLoss
  <2>3. HasNewest(Content(cur))'
    BY <2>1 DEF FitInv, HasNewest, Copy
  <2> QED
    BY <2>2, <2>3 DEF FitInv, Transition, Writing
<1>5. CASE CommitDir /\ UNCHANGED <<commandVars, host, auditVars, ghostVars, trouble>>
  BY <1>0, <1>5 DEF CommitDir, commandVars, ghostVars
<1> QED
  BY <1>1, <1>2, <1>3, <1>4, <1>5 DEF Next, World

\* The history in state.json is always the newest part of the transitions made
\* since the last provision, for any number of commands and failures, as long as
\* the lock has excluded and nobody has written back a stale copy, or a new file
\* after a Read that failed.
THEOREM HistoryIsAlwaysNewest == Spec => []HistoryIsNewest
<1>1. Init => FitInv
  <2> SUFFICES ASSUME Init PROVE FitInv
    OBVIOUS
  <2>1. Copy(Content(cur)) = recorded /\ committed = {}
    <3>1. CASE cur = NoFile
      BY <3>1, StoreAssumption DEF Init, Copy, Content
    <3>2. ASSUME NEW v \in Values, cur = Whole(v)
          PROVE  Copy(Content(cur)) = recorded /\ committed = {}
      BY <3>2, WholeIsFile, FileFields DEF Init, Copy, Content, Whole
    <3> QED
      BY <3>1, <3>2 DEF Init, StoreInit
  <2>2. recorded \in Seq(Old \cup Procs)
    BY InitTypeOK DEF TypeOK
  <2>3. HasNewest(Content(cur))
    BY <2>1, <2>2 DEF HasNewest, Fits
  <2> QED
    BY <2>3 DEF Init, StoreInit, FitInv, Transition, Writing
<1>2. StoreInv /\ TypeOK /\ FitInv => HistoryIsNewest
  <2> SUFFICES ASSUME StoreInv, TypeOK, FitInv, ~erased, ~stolen, cur # NoFile PROVE HistoryIsNewest
    BY DEF HistoryIsNewest
  <2>1. cur.data \in Values /\ Copy(Content(cur)) = cur.data
    BY DEF StoreInv, PublishedIsWhole, Copy, Content
  <2>2. Fits(cur.data, recorded, committed # {})
    BY <2>1 DEF FitInv, HasNewest
  <2>3. Len(cur.data) \in Nat /\ Len(recorded) \in Nat
    BY <2>1 DEF TypeOK
  <2> QED
    BY <2>2, <2>3 DEF HistoryIsNewest, Fits
<1> QED
  BY <1>1, <1>2, StoreInvariance, TypeInvariance, ControlInvariance, StepFit, PTL DEF Spec
=============================================================================
