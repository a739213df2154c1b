--------------------------- MODULE LabAuditProofs ---------------------------
(***************************************************************************)
(* Proofs about the audit log of LabJournal, for any processes and bounds:  *)
(* its transitions are those of state.json, its operations are in order,    *)
(* and a failure or a crash costs it a line or two, never more.             *)
(***************************************************************************)
EXTENDS LabJournalProofs

USE JournalAssumption

-----------------------------------------------------------------------------
(* The transitions in the audit log. *)

\* Those whose transition line is justified, once and for all.
Entitled ==
  {p \in Procs : pc[p] # "new" /\ (p \in committed \/ (cmd[p] = "reset" /\ trouble > 0))}

LineInv ==
  /\ \A i \in DOMAIN audit : audit[i].kind = "transition" => audit[i].by \in Entitled
  /\ \A p \in Procs :
       /\ cmd[p] \in Mutating /\ pc[p] = "log" => p \in Entitled
       /\ at[p] = "cleanup" => trouble > 0
       /\ p \in committed => pc[p] # "new" /\ cmd[p] \in Mutating

LEMMA TroubleGrows == TypeOK /\ [Next]_vars => trouble' \in Nat /\ trouble' >= trouble
<1> SUFFICES ASSUME TypeOK, [Next]_vars PROVE trouble' \in Nat /\ trouble' >= trouble
  OBVIOUS
<1> USE DEF TypeOK, Trouble
<1>1. CASE UNCHANGED vars
  BY <1>1 DEF vars
<1>2. Trouble \/ UNCHANGED trouble => trouble' \in Nat /\ trouble' >= trouble
  OBVIOUS
<1>3. ASSUME NEW p \in Procs, Run(p) PROVE trouble' \in Nat /\ trouble' >= trouble
  <2>1. Trouble \/ UNCHANGED trouble
    <3> HIDE DEF TypeOK, Trouble
    <3> QED
      BY <1>3 DEF Run, Start, Lock, Steal, Denied, Release, OpenState, ReadState, ReadStateFails,
              Operate, Refused, LogOp, Record, WriteCall, Log, LogError, CommandOnly, Append1
  <2> QED
    BY <1>2, <2>1
<1>4. CASE World
  <2>1. Trouble \/ UNCHANGED trouble
    BY <1>4 DEF World, Crash, PowerFails
  <2> QED
    BY <1>2, <2>1
<1> QED
  BY <1>1, <1>3, <1>4 DEF Next

\* A command that has been started is not another one later.
LEMMA CommandStays ==
  ASSUME TypeOK, [Next]_vars, NEW p \in Procs, pc[p] # "new"
  PROVE  (pc[p] # "new")' /\ cmd'[p] = cmd[p]
<1> USE DEF TypeOK, Goto, Moves
<1>1. CASE UNCHANGED vars
  BY <1>1 DEF vars, commandVars
<1>2. ASSUME NEW q \in Procs, Run(q) PROVE (pc[p] # "new")' /\ cmd'[p] = cmd[p]
  <2>1. CASE OpenState(q) \/ Record(q) \/ LogOp(q) \/ Log(q) \/ LogError(q)
             \/ Operate(q) \/ Refused(q) \/ Denied(q) \/ Release(q)
             \/ \E c \in Commands : Start(q, c)
    BY <2>1 DEF OpenState, Record, LogOp, Log, LogError, Operate, Refused, Denied, Release,
                Start, commandVars
  <2>2. CASE Lock(q) \/ Steal(q)
    BY <2>2 DEF Lock, Steal, Locked
  <2>3. CASE ReadState(q) \/ ReadStateFails(q)
    BY <2>3 DEF ReadState, ReadStateFails, Found
  <2>4. CASE WriteCall(q)
    BY <2>4, WriteCallEffect DEF WriteCall
  <2> QED
    BY <1>2, <2>1, <2>2, <2>3, <2>4 DEF Run
<1>3. CASE World
  BY <1>3 DEF World, Crash, PowerFails, commandVars
<1> QED
  BY <1>1, <1>2, <1>3 DEF Next

\* The line of a transition, once it is justified, stays so.
LEMMA EntitledForever ==
  ASSUME TypeOK, ControlInv, [Next]_vars, NEW p \in Procs, p \in Entitled
  PROVE  p \in Entitled'
<1>1. (pc[p] # "new")' /\ cmd'[p] = cmd[p]
  BY CommandStays DEF Entitled
<1>2. committed \subseteq committed'
  <2>1. CASE UNCHANGED vars
    BY <2>1 DEF vars, ghostVars
  <2>2. ASSUME NEW q \in Procs, Run(q) PROVE committed \subseteq committed'
    BY <2>2 DEF Run, Start, Lock, Steal, Locked, Denied, Release, OpenState, ReadState,
           ReadStateFails, Operate, Refused, LogOp, Record, WriteCall, Log, LogError,
           CommandOnly, Published, ghostVars
  <2>3. CASE World
    BY <2>3 DEF World, Crash, PowerFails, ghostVars
  <2> QED
    BY <2>1, <2>2, <2>3 DEF Next
<1> QED
  BY <1>1, <1>2, TroubleGrows DEF Entitled, TypeOK

\* An append adds one element.
LEMMA AppendElements ==
  ASSUME NEW S, NEW s \in Seq(S), NEW e \in S
  PROVE  \A d \in Elements(Append(s, e)) : d \in Elements(s) \/ d = e
<1> DEFINE t == Append(s, e)
<1>1. /\ DOMAIN s = 1..Len(s) /\ Len(s) \in Nat /\ DOMAIN t = 1..(Len(s) + 1)
      /\ t[Len(s) + 1] = e /\ \A i \in DOMAIN s : t[i] = s[i]
  OBVIOUS
<1> HIDE DEF t
<1>2. \A l \in Nat : \A i \in 1..(l + 1) : i \in 1..l \/ i = l + 1
  OBVIOUS
<1>3. \A i \in DOMAIN t : i \in DOMAIN s \/ i = Len(s) + 1
  BY <1>1, <1>2
<1>4. \A d \in Elements(t) : d \in Elements(s) \/ d = e
  BY <1>1, <1>3 DEF Elements
<1> QED
  BY <1>4 DEF t

\* What an append does to the lines: it adds at most one, e or a garbled one.
LEMMA AppendLines ==
  ASSUME TypeOK, NEW e \in Entry, Append1(e), NEW i \in DOMAIN audit'
  PROVE  /\ i \in DOMAIN audit => audit'[i] = audit[i]
         /\ i \notin DOMAIN audit => i > Len(audit) /\ audit'[i] \in {e, Garbled}
<1> DEFINE Lines == Seq(Entry \cup {Garbled})
<1>1. audit \in Lines
  BY DEF TypeOK
<1>2. ASSUME NEW f \in {e, Garbled}, audit' = Append(audit, f)
      PROVE  /\ i \in DOMAIN audit => audit'[i] = audit[i]
             /\ i \notin DOMAIN audit => i > Len(audit) /\ audit'[i] = f
  BY <1>1, <1>2
<1>3. audit' = audit \/ audit' = Append(audit, e) \/ audit' = Append(audit, Garbled)
  BY DEF Append1, auditVars
<1> QED
  BY <1>2, <1>3

\* A power cut takes lines from the end.
LEMMA PrefixLines ==
  ASSUME TypeOK, NEW k \in 0..Len(audit), audit' = SubSeq(audit, 1, k), NEW i \in DOMAIN audit'
  PROVE  i \in DOMAIN audit /\ audit'[i] = audit[i]
<1>1. audit \in Seq(Entry \cup {Garbled})
  BY DEF TypeOK
<1>2. \A j \in 1..k : audit[j] \in Entry \cup {Garbled}
  BY <1>1
<1>3. /\ SubSeq(audit, 1, k) \in Seq(Entry \cup {Garbled})
      /\ Len(SubSeq(audit, 1, k)) = IF 1 <= k THEN k - 1 + 1 ELSE 0
      /\ \A j \in 1..(k - 1 + 1) : SubSeq(audit, 1, k)[j] = audit[1 + j - 1]
  BY <1>2, SubSeqProperties
<1>4. DOMAIN audit' = 1..k /\ DOMAIN audit = 1..Len(audit) /\ Len(audit) \in Nat
  BY <1>1, <1>3
<1> QED
  BY <1>3, <1>4

\* Only a Write takes a command that changes something to the log.
LEMMA LogAfterWrite ==
  ASSUME TypeOK, ControlInv, [Next]_vars, NEW p \in Procs,
         cmd'[p] \in Mutating, pc'[p] = "log", pc[p] # "log"
  PROVE  WriteCall(p)
<1> USE DEF TypeOK, Goto, Moves, Mutating
<1>1. CASE UNCHANGED vars
  BY <1>1 DEF vars, commandVars
<1>2. ASSUME NEW q \in Procs, Run(q) PROVE WriteCall(p)
  <2>1. CASE OpenState(q) \/ Record(q) \/ LogOp(q) \/ Log(q) \/ LogError(q)
             \/ Operate(q) \/ Refused(q) \/ Denied(q) \/ Release(q)
             \/ \E c \in Commands : Start(q, c)
    BY <2>1 DEF OpenState, Record, LogOp, Log, LogError, Operate, Refused, Denied, Release,
                Start, commandVars
  <2>2. CASE Lock(q) \/ Steal(q)
    BY <2>2 DEF Lock, Steal, Locked
  <2>3. CASE ReadState(q) \/ ReadStateFails(q)
    <3>1. q = p /\ cmd[p] \in Mutating /\ at[p] = "reading"
      BY <2>3 DEF ReadState, ReadStateFails, ReadAll, ReadFails, Step
    <3>2. cmd[p] # "provision"
      BY <3>1 DEF ControlInv
    <3> QED
      BY <2>3, <3>1, <3>2 DEF ReadState, ReadStateFails, Found
  <2>4. CASE WriteCall(q)
    <3>1. q = p
      BY <2>4, WriteCallOthers
    <3> QED
      BY <2>4, <3>1
  <2> QED
    BY <1>2, <2>1, <2>2, <2>3, <2>4 DEF Run
<1>3. CASE World
  BY <1>3 DEF World, Crash, PowerFails, commandVars
<1> QED
  BY <1>1, <1>2, <1>3 DEF Next

LEMMA LineFields ==
  \A k, n : \A p \in Procs :
    Line(k, p, n).kind = k /\ Line(k, p, n).by = p /\ Line(k, p, n).n = n
    /\ Garbled.kind = "garbled"
  BY DEF Line, Garbled

LEMMA StepLine ==
  TypeOK /\ TypeOK' /\ ControlInv /\ LineInv /\ [Next]_vars => LineInv'
<1> SUFFICES ASSUME TypeOK, TypeOK', ControlInv, LineInv, [Next]_vars PROVE LineInv'
  OBVIOUS
<1>1. \A i \in DOMAIN audit : audit[i].kind = "transition" =>
        audit[i].by \in Procs /\ audit[i].by \in Entitled'
  <2> SUFFICES ASSUME NEW i \in DOMAIN audit, audit[i].kind = "transition"
               PROVE  audit[i].by \in Procs /\ audit[i].by \in Entitled'
    OBVIOUS
  <2>1. audit[i] \in Entry \cup {Garbled}
    BY DEF TypeOK
  <2>2. audit[i].by \in Procs
    BY <2>1 DEF Entry, Garbled
  <2>3. audit[i].by \in Entitled
    BY DEF LineInv
  <2> QED
    BY <2>2, <2>3, EntitledForever
<1>2. ASSUME NEW p \in Procs, Append1(Line(Kind(cmd[p]), p, 1)), pc[p] = "log"
      PROVE  \A i \in DOMAIN audit' : audit'[i].kind = "transition" => audit'[i].by \in Entitled'
  <2> SUFFICES ASSUME NEW i \in DOMAIN audit', audit'[i].kind = "transition"
               PROVE  audit'[i].by \in Entitled'
    OBVIOUS
  <2>1. Line(Kind(cmd[p]), p, 1) \in Entry
    BY LineIsEntry DEF Kind
  <2>2. CASE audit'[i] = Line(Kind(cmd[p]), p, 1)
    <3>1. Kind(cmd[p]) = "transition" /\ audit'[i].by = p
      BY <2>2, LineFields
    <3>2. cmd[p] \in Mutating
      BY <3>1 DEF Kind
    <3> QED
      BY <1>2, <3>1, <3>2, EntitledForever DEF LineInv
  <2> QED
    BY <1>1, <1>2, <2>1, <2>2, AppendLines, LineFields
<1>3. ASSUME NEW p \in Procs, NEW k \in {"op", "error"}, NEW n \in Nat, Append1(Line(k, p, n))
      PROVE  \A i \in DOMAIN audit' : audit'[i].kind = "transition" => audit'[i].by \in Entitled'
  <2>1. Line(k, p, n) \in Entry
    BY LineIsEntry
  <2> QED
    BY <1>1, <1>3, <2>1, AppendLines, LineFields
<1>4. \A i \in DOMAIN audit' : audit'[i].kind = "transition" => audit'[i].by \in Entitled'
  <2>1. ASSUME NEW p \in Procs, Log(p)
        PROVE  \A i \in DOMAIN audit' : audit'[i].kind = "transition" => audit'[i].by \in Entitled'
    BY <1>2, <2>1 DEF Log, Moves
  <2>2. ASSUME NEW p \in Procs, LogOp(p) \/ LogError(p)
        PROVE  \A i \in DOMAIN audit' : audit'[i].kind = "transition" => audit'[i].by \in Entitled'
    BY <1>3, <2>2, OpsOfNat DEF LogOp, LogError, TypeOK
  <2>3. CASE PowerFails
    <3>1. PICK k \in 0..Len(audit) : audit' = SubSeq(audit, 1, k)
      BY <2>3 DEF PowerFails
    <3>2. \A i \in DOMAIN audit' : i \in DOMAIN audit /\ audit'[i] = audit[i]
      BY <3>1, PrefixLines
    <3> QED
      BY <1>1, <3>2
  <2>4. CASE UNCHANGED audit
    BY <1>1, <2>4
  <2>5. UNCHANGED audit \/ PowerFails \/ \E p \in Procs : Log(p) \/ LogOp(p) \/ LogError(p)
    BY DEF Next, Run, World, vars, auditVars, CommandOnly, Start, Lock, Steal, Locked, Denied, Release, OpenState,
           ReadState, ReadStateFails, Operate, Refused, Record, WriteCall, Crash
  <2> QED
    BY <2>1, <2>2, <2>3, <2>4, <2>5
<1>5. ASSUME NEW p \in Procs PROVE (at[p] = "cleanup" => trouble > 0)'
  <2> SUFFICES ASSUME at'[p] = "cleanup" PROVE trouble' > 0
    OBVIOUS
  <2>1. CASE at[p] = "cleanup"
    BY <2>1, TroubleGrows DEF LineInv, TypeOK
  <2>2. CASE at[p] # "cleanup"
    <3>1. at' # at
      BY <2>2
    <3>2. PICK q \in Procs : \/ OpenState(q) \/ ReadState(q) \/ ReadStateFails(q) \/ Record(q)
                            \/ WriteCall(q) \/ Crash(q) \/ PowerFails
      BY <3>1 DEF Next, Run, World, vars, storeVars, CommandOnly, Start, Lock, Steal, Locked,
             Denied, Release, Operate, Refused, LogOp, Log, LogError, CommitDir
    <3>3. OpenState(q) \/ ReadState(q) \/ ReadStateFails(q) \/ Record(q) \/ Crash(q) \/ PowerFails
            => Trouble
      <4>1. DOMAIN at = Procs
        BY DEF TypeOK, StoreTypeOK
      <4>2. ~OpenState(q) /\ ~ReadState(q) /\ ~Record(q)
        BY <2>2, <4>1 DEF OpenState, ReadState, Record, Open, ReadAll, Call, Step
      <4> QED
        BY <4>2 DEF ReadStateFails, Crash, PowerFails
    <3>4. WriteCall(q) => Trouble
      <4>1. WriteStep(q) => at'[p] # "cleanup"
        <5>1. DOMAIN at = Procs
          BY DEF TypeOK, StoreTypeOK
        <5>2. WriteStep(q) => \E l : l # "cleanup" /\ at' = [at EXCEPT ![q] = l]
          BY DEF WriteStep, Step, CreateTemp, WriteData, Sync, Chmod, Rename, Cleanup
        <5> QED
          BY <2>2, <5>1, <5>2
      <4> QED
        BY <4>1 DEF WriteCall
    <3>5. Trouble
      BY <3>2, <3>3, <3>4
    <3> QED
      BY <3>5 DEF Trouble, TypeOK
  <2> QED
    BY <2>1, <2>2
<1>6. ASSUME NEW p \in Procs
      PROVE  (p \in committed => pc[p] # "new" /\ cmd[p] \in Mutating)'
  <2> SUFFICES ASSUME p \in committed' PROVE pc'[p] # "new" /\ cmd'[p] \in Mutating
    OBVIOUS
  <2>1. CASE p \in committed
    BY <2>1, CommandStays DEF LineInv
  <2>2. CASE p \notin committed
    <3>1. WriteCall(p) /\ committed' # committed
      <4>1. committed' # committed
        BY <2>2
      <4>2. PICK q \in Procs : WriteCall(q)
        BY <4>1 DEF Next, Run, World, vars, CommandOnly, Start, Lock, Steal, Locked, Denied,
               Release, OpenState, ReadState, ReadStateFails, Operate, Refused, LogOp, Record,
               Log, LogError, Crash, PowerFails, ghostVars
      <4>3. committed' = committed \/ committed' = committed \cup {q}
        BY <4>2 DEF WriteCall, Published, ghostVars
      <4> QED
        BY <2>2, <4>1, <4>2, <4>3
    <3>2. cmd[p] \in Mutating /\ UNCHANGED cmd
      BY <3>1 DEF WriteCall, Published, ghostVars
    <3> QED
      BY <3>1, <3>2, WriteCallEffect
  <2> QED
    BY <2>1, <2>2
<1>7. ASSUME NEW p \in Procs PROVE (cmd[p] \in Mutating /\ pc[p] = "log" => p \in Entitled)'
  <2> SUFFICES ASSUME cmd'[p] \in Mutating, pc'[p] = "log" PROVE p \in Entitled'
    OBVIOUS
  <2>1. CASE pc[p] = "log"
    <3>1. cmd[p] \in Mutating
      BY <2>1 DEF Next, Run, World, vars, CommandOnly, Start, Lock, Steal, Locked, Denied,
             Release, OpenState, ReadState, ReadStateFails, Operate, Refused, LogOp, Record,
             WriteCall, Log, LogError, Crash, PowerFails, commandVars, Moves, TypeOK
    <3> QED
      BY <2>1, <3>1, EntitledForever DEF LineInv
  <2>2. CASE pc[p] # "log"
    <3>1. WriteCall(p)
      BY <2>2, LogAfterWrite
    <3>2. pc'[p] = AfterWrite(p, at'[p] = "ok") /\ at'[p] \in {"ok", "failed"} /\ cmd'[p] = cmd[p]
      BY <2>2, <3>1 DEF WriteCall, Goto, TypeOK
    <3>3. pc[p] = "write"
      BY <3>1, <3>2 DEF WriteCall, AfterWrite
    <3>4. CASE at'[p] = "ok"
      BY <3>1, <3>3, <3>4 DEF WriteCall, Published, Entitled
    <3>5. CASE at'[p] = "failed"
      <4>1. cmd[p] = "reset"
        BY <3>2, <3>3, <3>5 DEF AfterWrite, Mutating
      <4>2. trouble' > 0
        <5>1. Trouble \/ at[p] = "cleanup"
          BY <3>1, <3>5 DEF WriteCall, WriteStep, Step, CreateTemp, WriteData, Sync, Chmod, Rename,
                 Cleanup, TypeOK, StoreTypeOK
        <5> QED
          BY <5>1, TroubleGrows DEF LineInv, Trouble, TypeOK
      <4> QED
        BY <3>2, <4>1, <4>2 DEF Entitled
    <3> QED
      BY <3>2, <3>4, <3>5
  <2> QED
    BY <2>1, <2>2
<1> QED
  BY <1>4, <1>5, <1>6, <1>7 DEF LineInv

LEMMA LineInvariance == Spec => []LineInv
<1>1. Init => LineInv
  BY DEF Init, StoreInit, LineInv, Mutating
<1> QED
  BY <1>1, TypeInvariance, ControlInvariance, StepLine, PTL DEF Spec

\* No transition is in the audit log that state.json has not had, but for those of
\* a reset whose Write failed: fault apply logs after it has written.
THEOREM TransitionLinesAreAlwaysTrue == Spec => []TransitionLinesAreTrue
<1>1. LineInv => TransitionLinesAreTrue
  BY DEF LineInv, TransitionLinesAreTrue, Positions, Entitled
<1> QED
  BY <1>1, LineInvariance, PTL

-----------------------------------------------------------------------------
(* The operations in the audit log. *)

Last == host[Len(host)]

\* Lines of operations are entries of host in that order, numbered up to the last
\* one; whoever is about to write a line is the last to have carried one out.
OpLines == {e \in Elements(audit) : e.kind = "op"}
Ordered ==
  /\ AuditOrder
  /\ \A e \in OpLines : e \in Elements(host) /\ e.n <= OpsOf(e.by)
  /\ \A p \in Procs : pc[p] = "logop" =>
       Len(host) > 0 /\ Last = Line("op", p, OpsOf(p)) /\ Last \notin OpLines

OrderInv == ~stolen => Ordered

\* An operation is counted once, and for its process.
LEMMA OpsOfAppend ==
  ASSUME TypeOK, NEW p \in Procs, NEW n \in Nat, host' = Append(host, Line("op", p, n)), NEW q \in Procs
  PROVE  OpsOf(q)' = OpsOf(q) + (IF q = p THEN 1 ELSE 0) /\ OpsOf(q) \in Nat
<1> DEFINE mine == {i \in DOMAIN host : host[i].by = q}
           mine2 == {i \in DOMAIN host' : host'[i].by = q}
           k == Len(host) + 1
<1>1. host \in Seq(Entry) /\ Len(host) \in Nat /\ DOMAIN host = 1..Len(host)
  BY DEF TypeOK
<1>2. Line("op", p, n) \in Entry /\ Line("op", p, n).by = p
  BY LineIsEntry, ZenonT(60) DEF Line
<1>3. /\ DOMAIN host' = 1..k /\ host'[k] = Line("op", p, n)
      /\ \A i \in DOMAIN host : host'[i] = host[i]
  BY <1>1, <1>2
<1>4. mine2 = IF q = p THEN mine \cup {k} ELSE mine
  <2>0. ASSUME NEW l \in Nat PROVE 1..(l + 1) = (1..l) \cup {l + 1} /\ l + 1 \notin 1..l
    <3>1. \A i \in 1..(l + 1) : i \in 1..l \/ i = l + 1
      OBVIOUS
    <3>2. (\A i \in 1..l : i \in 1..(l + 1)) /\ l + 1 \in 1..(l + 1) /\ l + 1 \notin 1..l
      OBVIOUS
    <3> QED
      BY <3>1, <3>2, Zenon
  <2>1. DOMAIN host' = DOMAIN host \cup {k} /\ k \notin DOMAIN host
    BY <1>1, <1>3, <2>0, Zenon
  <2>2. host'[k].by = p
    BY <1>2, <1>3
  <2> HIDE DEF k
  <2> QED
    BY <1>3, <2>1, <2>2
<1>5. mine \subseteq 1..Len(host) /\ k \notin mine
  <2>1. mine \subseteq 1..Len(host)
    BY <1>1
  <2>2. \A l \in Nat : l + 1 \notin 1..l
    OBVIOUS
  <2>3. k \notin 1..Len(host)
    BY <1>1, <2>2
  <2> HIDE DEF mine, k
  <2> QED
    BY <2>1, <2>3
<1>6. IsFiniteSet(mine)
  <2>1. IsFiniteSet(1..Len(host))
    BY <1>1, FS_Interval
  <2> HIDE DEF mine
  <2> QED
    BY <1>5, <2>1, FS_Subset
<1>7. Cardinality(mine \cup {k}) = Cardinality(mine) + 1 /\ Cardinality(mine) \in Nat
  <2> HIDE DEF mine, k
  <2> QED
    BY <1>5, <1>6, FS_AddElement, FS_CardinalityType
<1>8. OpsOf(q)' = Cardinality(mine2) /\ OpsOf(q) = Cardinality(mine)
  BY DEF OpsOf
<1> HIDE DEF mine, mine2, k
<1>9. CASE q = p
  <2>1. mine2 = mine \cup {k}
    BY <1>4, <1>9
  <2> QED
    BY <1>7, <1>8, <1>9, <2>1
<1>10. CASE q # p
  <2>1. mine2 = mine
    BY <1>4, <1>10
  <2> QED
    BY <1>7, <1>8, <1>10, <2>1
<1> QED
  BY <1>9, <1>10

LEMMA LineTypes ==
  ASSUME TypeOK
  PROVE  /\ Elements(audit) \subseteq Entry \cup {Garbled} /\ OpLines \subseteq Entry
         /\ \A e \in OpLines : e.by \in Procs /\ e.n \in Nat /\ e.kind = "op"
<1>1. Elements(audit) \subseteq Entry \cup {Garbled}
  BY DEF TypeOK, Elements
<1>2. OpLines \subseteq Entry
  BY <1>1 DEF OpLines, Garbled
<1> QED
  BY <1>1, <1>2 DEF OpLines, Entry

\* An order of lines is kept by what leaves the lines of operations alone.
LEMMA OrderFrame ==
  ASSUME TypeOK, Ordered, UNCHANGED <<host, stolen>>,
         \A i \in DOMAIN audit' : audit'[i].kind = "op" => i \in DOMAIN audit /\ audit'[i] = audit[i],
         \A q \in Procs : pc'[q] = "logop" => pc[q] = "logop"
  PROVE  Ordered'
<1>1. AuditOrder'
  BY DEF Ordered, AuditOrder
<1>2. OpLines' \subseteq OpLines
  BY DEF OpLines, Elements
<1>3. \A q : OpsOf(q)' = OpsOf(q)
  BY DEF OpsOf
<1>4. Elements(host)' = Elements(host) /\ Last' = Last /\ Len(host)' = Len(host)
  BY DEF Elements, Last
<1> QED
  BY <1>1, <1>2, <1>3, <1>4 DEF Ordered

LEMMA OperateOrder ==
  ASSUME TypeOK, ControlInv, Ordered, ~stolen, NEW p \in Procs, Operate(p)
  PROVE  Ordered'
<1> DEFINE n == OpsOf(p) + 1
<1>0. OpsOf(p) \in Nat
  BY OpsOfNat DEF TypeOK
<1>1. /\ host' = Append(host, Line("op", p, n)) /\ UNCHANGED audit
      /\ pc[p] = "operate" /\ pc' = [pc EXCEPT ![p] = "logop"] /\ n \in Nat
  BY <1>0 DEF Operate, Moves, Goto, auditVars
<1>2. /\ Len(host') = Len(host) + 1 /\ host'[Len(host')] = Line("op", p, n) /\ Len(host) \in Nat
      /\ \A i \in DOMAIN host : i \in DOMAIN host' /\ host'[i] = host[i]
  <2>1. Line("op", p, n) \in Entry /\ host \in Seq(Entry)
    BY <1>1, LineIsEntry DEF TypeOK
  <2> QED
    BY <1>1, <2>1
<1>3. \A q \in Procs : OpsOf(q)' = OpsOf(q) + (IF q = p THEN 1 ELSE 0) /\ OpsOf(q) \in Nat
  BY <1>1, OpsOfAppend
<1>4. AuditOrder'
  <2>1. ASSUME NEW i \in DOMAIN audit, NEW j \in DOMAIN audit,
               i < j, audit[i].kind = "op", audit[j].kind = "op"
        PROVE  \E k, l \in DOMAIN host' : k < l /\ host'[k] = audit[i] /\ host'[l] = audit[j]
    <3>1. PICK k, l \in DOMAIN host : k < l /\ host[k] = audit[i] /\ host[l] = audit[j]
      BY <2>1 DEF Ordered, AuditOrder
    <3> QED
      BY <1>2, <3>1
  <2>2. audit' = audit
    BY <1>1
  <2> QED
    BY <2>1, <2>2 DEF AuditOrder
<1>5. OpLines' = OpLines /\ Elements(host) \subseteq Elements(host)'
  BY <1>1, <1>2 DEF OpLines, Elements
<1>6. \A e \in OpLines : e.n <= OpsOf(e.by)' /\ e # Line("op", p, n)
  <2> SUFFICES ASSUME NEW e \in OpLines PROVE e.n <= OpsOf(e.by)' /\ e # Line("op", p, n)
    OBVIOUS
  <2>1. e.by \in Procs /\ e.n \in Nat /\ e.n <= OpsOf(e.by)
    BY LineTypes DEF Ordered
  <2>2. e.n <= OpsOf(e.by)'
    <3>1. /\ OpsOf(e.by) \in Nat
          /\ OpsOf(e.by)' = OpsOf(e.by) + (IF e.by = p THEN 1 ELSE 0)
      BY <1>3, <2>1, Zenon
    <3> QED
      BY <2>1, <3>1
  <2>3. Line("op", p, n).by = p /\ Line("op", p, n).n = n
    BY LineFields
  <2> QED
    BY <1>0, <2>1, <2>2, <2>3
<1>7. ASSUME NEW q \in Procs, pc'[q] = "logop" PROVE q = p
  BY <1>1, <1>7 DEF ControlInv, Changing, TypeOK
<1>8. Last' = Line("op", p, OpsOf(p)') /\ Len(host') > 0
  BY <1>2, <1>3 DEF Last
<1>9. Last' \notin OpLines'
  BY <1>2, <1>5, <1>6 DEF Last
<1> QED
  BY <1>4, <1>5, <1>6, <1>7, <1>8, <1>9 DEF Ordered

LEMMA LogOpOrder ==
  ASSUME TypeOK, ControlInv, Ordered, ~stolen, NEW p \in Procs, LogOp(p)
  PROVE  Ordered'
<1> DEFINE e == Line("op", p, OpsOf(p))
<1>1. /\ pc[p] = "logop" /\ pc' = [pc EXCEPT ![p] = pc'[p]] /\ pc'[p] # "logop"
      /\ UNCHANGED host /\ Append1(e)
  BY DEF LogOp, Goto, TypeOK
<1>2. e \in Entry /\ e.by = p /\ e.kind = "op" /\ e.n = OpsOf(p) /\ OpsOf(p) \in Nat
  <2>1. OpsOf(p) \in Nat
    BY OpsOfNat DEF TypeOK
  <2>2. e.by = p /\ e.kind = "op" /\ e.n = OpsOf(p)
    BY DEF Line
  <2> HIDE DEF e
  <2> QED
    BY <2>1, <2>2, LineIsEntry DEF e
<1>3. Len(host) > 0 /\ Last = e /\ e \notin OpLines /\ host \in Seq(Entry)
  BY <1>1 DEF Ordered, TypeOK
<1>4. \A q \in Procs : pc'[q] # "logop"
  <2>1. ASSUME NEW q \in Procs, q # p PROVE pc[q] # "logop"
    <3>1. Changing(p) /\ holders = {p}
      BY <1>1 DEF ControlInv, Changing
    <3>2. pc[q] = "logop" => holders = {q}
      BY DEF ControlInv, Changing
    <3> QED
      BY <2>1, <3>1, <3>2
  <2> QED
    BY <1>1, <2>1 DEF TypeOK
<1>5. \A i \in DOMAIN audit' : audit'[i].kind = "op" =>
        \/ i \in DOMAIN audit /\ audit'[i] = audit[i]
        \/ i \notin DOMAIN audit /\ i > Len(audit) /\ audit'[i] = e
  BY <1>1, <1>2, AppendLines, LineFields
<1>6. \A d \in OpLines' : d \in OpLines \/ d = e
  BY <1>5 DEF OpLines, Elements
<1>7. \A d \in OpLines : \E k \in DOMAIN host : host[k] = d /\ k < Len(host)
  <2> SUFFICES ASSUME NEW d \in OpLines PROVE \E k \in DOMAIN host : host[k] = d /\ k < Len(host)
    OBVIOUS
  <2>1. PICK k \in DOMAIN host : host[k] = d
    BY DEF Ordered, Elements
  <2>2. k # Len(host)
    BY <1>3, <2>1 DEF Last
  <2> QED
    BY <1>3, <2>1, <2>2
<1>8. AuditOrder'
  <2>1. ASSUME NEW i \in DOMAIN audit', NEW j \in DOMAIN audit',
               i < j, audit'[i].kind = "op", audit'[j].kind = "op"
        PROVE  \E k, l \in DOMAIN host : k < l /\ host[k] = audit'[i] /\ host[l] = audit'[j]
    <3>0. audit' \in Seq(Entry \cup {Garbled}) /\ audit \in Seq(Entry \cup {Garbled})
      BY <1>1, <1>2, AppendType DEF TypeOK
    <3>1. i \in DOMAIN audit /\ audit'[i] = audit[i]
      <4>0. Len(audit') <= Len(audit) + 1 /\ Len(audit) \in Nat /\ Len(audit') \in Nat
        <5>1. audit' = audit \/ \E f \in {e, Garbled} : audit' = Append(audit, f)
          BY <1>1 DEF Append1, auditVars
        <5>2. \A f \in {e, Garbled} : Len(Append(audit, f)) = Len(audit) + 1
          <6> HIDE DEF e
          <6> QED
            BY <1>2, <3>0
        <5> HIDE DEF e
        <5>3. Len(audit) \in Nat
          BY <3>0
        <5> QED
          BY <5>1, <5>2, <5>3
      <4>1. i \in Nat /\ j \in Nat /\ i \in 1..Len(audit') /\ j \in 1..Len(audit')
            /\ Len(audit') <= Len(audit) + 1 /\ DOMAIN audit = 1..Len(audit)
        <5> HIDE DEF e
        <5> QED
          BY <2>1, <3>0, <4>0
      <4>2. i \in DOMAIN audit
        BY <2>1, <3>0, <4>1
      <4> QED
        BY <1>5, <2>1, <4>2
    <3>2. CASE j \in DOMAIN audit
      <4>1. audit'[j] = audit[j]
        BY <1>5, <2>1, <3>2
      <4> QED
        BY <2>1, <3>1, <3>2, <4>1 DEF Ordered, AuditOrder
    <3>3. CASE j \notin DOMAIN audit
      <4>1. audit'[j] = e
        BY <1>5, <2>1, <3>3
      <4>2. audit[i] \in OpLines
        BY <2>1, <3>1 DEF OpLines, Elements
      <4>3. PICK k \in DOMAIN host : host[k] = audit[i] /\ k < Len(host)
        BY <1>7, <4>2
      <4>4. Len(host) \in DOMAIN host /\ host[Len(host)] = e
        BY <1>3 DEF Last
      <4> QED
        BY <3>1, <4>1, <4>3, <4>4
    <3> QED
      BY <3>2, <3>3
  <2>2. host' = host
    BY <1>1
  <2> QED
    BY <2>1, <2>2 DEF AuditOrder
<1>9. e \in Elements(host) /\ e.n <= OpsOf(e.by)
  BY <1>2, <1>3 DEF Last, Elements
<1>10. Elements(host)' = Elements(host) /\ \A q : OpsOf(q)' = OpsOf(q)
  BY <1>1 DEF Elements, OpsOf
<1>11. \A d \in OpLines' : d \in Elements(host)' /\ d.n <= OpsOf(d.by)'
  <2> HIDE DEF e
  <2> QED
    BY <1>6, <1>9, <1>10 DEF Ordered
<1> QED
  BY <1>4, <1>8, <1>11 DEF Ordered

LEMMA StepOrder ==
  TypeOK /\ TypeOK' /\ ControlInv /\ OrderInv /\ [Next]_vars => OrderInv'
<1> SUFFICES ASSUME TypeOK, TypeOK', ControlInv, OrderInv, [Next]_vars, ~stolen' PROVE Ordered'
  BY DEF OrderInv
<1>0. ~stolen /\ UNCHANGED stolen
  <2>1. stolen' = stolen \/ stolen' = TRUE
    BY DEF Next, Run, World, vars, CommandOnly, Start, Lock, Steal, Denied, Release, OpenState,
           ReadState, ReadStateFails, Operate, Refused, LogOp, Record, WriteCall, Log, LogError,
           Published, Crash, PowerFails, ghostVars
  <2> QED
    BY <2>1
<1> Ordered
  BY <1>0 DEF OrderInv
<1>1. ASSUME UNCHANGED <<host, audit>>, \A q \in Procs : pc'[q] = "logop" => pc[q] = "logop"
      PROVE  Ordered'
  BY <1>0, <1>1, OrderFrame
<1>2. CASE UNCHANGED vars
  BY <1>1, <1>2 DEF vars, commandVars, auditVars
<1>3. ASSUME NEW p \in Procs, Run(p) PROVE Ordered'
  <2>1. CASE Operate(p)
    BY <1>0, <2>1, OperateOrder
  <2>2. CASE LogOp(p)
    BY <1>0, <2>2, LogOpOrder
  <2>3. CASE Log(p) \/ LogError(p)
    <3>1. PICK k \in {"transition", "run", "reconciliation", "interrupt", "error"} :
            Append1(Line(k, p, 1))
      BY <2>3 DEF Log, LogError, Kind
    <3>2. Line(k, p, 1) \in Entry /\ Line(k, p, 1).kind # "op"
      BY LineIsEntry, LineFields
    <3>3. \A i \in DOMAIN audit' : audit'[i].kind = "op" => i \in DOMAIN audit /\ audit'[i] = audit[i]
      BY <3>1, <3>2, AppendLines, LineFields
    <3>4. UNCHANGED host /\ \A q \in Procs : pc'[q] = "logop" => pc[q] = "logop"
      BY <2>3 DEF Log, LogError, Moves, Goto, TypeOK
    <3> QED
      BY <1>0, <3>3, <3>4, OrderFrame
  <2>4. ~Steal(p)
    BY <1>0 DEF Steal
  <2>5. CASE \/ Lock(p) \/ Denied(p) \/ Release(p) \/ OpenState(p) \/ ReadState(p)
             \/ ReadStateFails(p) \/ Refused(p) \/ Record(p) \/ WriteCall(p)
             \/ \E c \in Commands : Start(p, c)
    <3>1. UNCHANGED <<host, audit>>
      BY <2>5 DEF Lock, Locked, Denied, Release, OpenState, ReadState, ReadStateFails, Refused,
             Record, WriteCall, Start, CommandOnly, auditVars
    <3>2. pc'[p] # "logop" \/ pc' = pc
      <4>1. CASE Lock(p) \/ Denied(p) \/ Release(p) \/ Refused(p) \/ Record(p) \/ OpenState(p)
                 \/ \E c \in Commands : Start(p, c)
        BY <4>1 DEF Lock, Locked, Denied, Release, Refused, Record, OpenState, Start, Moves, Goto,
               commandVars, TypeOK
      <4>2. CASE ReadState(p) \/ ReadStateFails(p)
        BY <4>2 DEF ReadState, ReadStateFails, Found, Goto, TypeOK
      <4>3. CASE WriteCall(p)
        BY <4>3, WriteCallEffect
      <4> QED
        BY <2>5, <4>1, <4>2, <4>3
    <3>3. \A q \in Procs \ {p} : pc'[q] = pc[q]
      <4>1. pc' = pc \/ \E l : pc' = [pc EXCEPT ![p] = l]
        BY <2>5 DEF Lock, Locked, Denied, Release, OpenState, ReadState, ReadStateFails, Refused,
               Record, WriteCall, Start, Moves, Goto, commandVars
      <4> QED
        BY <4>1 DEF TypeOK
    <3> QED
      BY <1>1, <3>1, <3>2, <3>3
  <2> QED
    BY <1>3, <2>1, <2>2, <2>3, <2>5, <2>4 DEF Run
<1>4. ASSUME NEW p \in Procs, Crash(p) PROVE Ordered'
  BY <1>1, <1>4 DEF Crash, Goto, auditVars, TypeOK
<1>5. CASE PowerFails
  <2>1. PICK k \in 0..Len(audit) : audit' = SubSeq(audit, 1, k)
    BY <1>5 DEF PowerFails
  <2>2. \A i \in DOMAIN audit' : i \in DOMAIN audit /\ audit'[i] = audit[i]
    BY <2>1, PrefixLines
  <2>3. UNCHANGED host /\ \A q \in Procs : pc'[q] = "logop" => pc[q] = "logop"
    BY <1>5 DEF PowerFails
  <2> QED
    BY <1>0, <2>2, <2>3, OrderFrame
<1>6. CASE CommitDir /\ UNCHANGED <<commandVars, host, auditVars, ghostVars, trouble>>
  BY <1>1, <1>6 DEF commandVars, auditVars
<1> QED
  BY <1>2, <1>3, <1>4, <1>5, <1>6 DEF Next, World

\* The operations are in the audit log in the order in which they were carried
\* out, although each is logged after it, unless the lock has let in a second
\* process, which it can (run lock_exclusion).
THEOREM AuditIsAlwaysOrdered == Spec => []AuditOrder
<1>1. Init => OrderInv
  BY DEF Init, OrderInv, Ordered, AuditOrder, OpLines, Elements
<1>2. OrderInv => AuditOrder
  BY DEF OrderInv, Ordered, AuditOrder
<1> QED
  BY <1>1, <1>2, TypeInvariance, ControlInvariance, StepOrder, PTL DEF Spec

-----------------------------------------------------------------------------
(* What is missing in the audit log. *)

\* Two lines for each failure or crash, one of them kept for the next append as
\* long as the last line is cut short.
AccountInv ==
  /\ \A e \in Elements(host) : e.kind = "op"
  /\ ~blackout => /\ IsFiniteSet(Unlogged)
                  /\ Cardinality(Unlogged) + (IF ragged THEN 1 ELSE 0) <= 2 * trouble

LEMMA OneLineMore ==
  ASSUME NEW U, IsFiniteSet(U), NEW e, NEW V, V \subseteq U \cup {e}
  PROVE  /\ IsFiniteSet(V) /\ Cardinality(V) \in Nat /\ Cardinality(U) \in Nat
         /\ Cardinality(V) <= Cardinality(U) + 1
         /\ V \subseteq U => Cardinality(V) <= Cardinality(U)
<1>1. /\ IsFiniteSet(U \cup {e}) /\ Cardinality(U) \in Nat
      /\ Cardinality(U \cup {e}) = IF e \in U THEN Cardinality(U) ELSE Cardinality(U) + 1
  BY FS_AddElement, FS_CardinalityType
<1>2. IsFiniteSet(V) /\ Cardinality(V) <= Cardinality(U \cup {e})
  BY <1>1, FS_Subset
<1>3. Cardinality(V) \in Nat
  BY <1>2, FS_CardinalityType
<1>4. V \subseteq U => Cardinality(V) <= Cardinality(U)
  BY FS_Subset
<1>5. Cardinality(V) <= Cardinality(U) + 1
  <2>1. Cardinality(U \cup {e}) \in Nat
    BY <1>1
  <2>2. Cardinality(U \cup {e}) <= Cardinality(U) + 1
    BY <1>1
  <2> QED
    BY <1>1, <1>2, <1>3, <2>1, <2>2
<1> QED
  BY <1>1, <1>2, <1>3, <1>4, <1>5

\* The account of a step that makes at most one more line missing.
Covered(e) ==
  /\ Unlogged' \subseteq Unlogged \cup {e}
  /\ \/ Unlogged' \subseteq Unlogged /\ (ragged' => ragged) /\ trouble' >= trouble
     \/ ragged /\ ~ragged' /\ trouble' = trouble
     \/ trouble' = trouble + 1
     \/ blackout'

LEMMA Accounting ==
  ASSUME TypeOK, TypeOK', AccountInv, NEW e, Covered(e), ~blackout' => ~blackout
  PROVE  ~blackout' => /\ IsFiniteSet(Unlogged')
                       /\ Cardinality(Unlogged') + (IF ragged' THEN 1 ELSE 0) <= 2 * trouble'
<1> SUFFICES ASSUME ~blackout'
             PROVE  /\ IsFiniteSet(Unlogged')
                    /\ Cardinality(Unlogged') + (IF ragged' THEN 1 ELSE 0) <= 2 * trouble'
  OBVIOUS
<1>1. IsFiniteSet(Unlogged) /\ Cardinality(Unlogged) + (IF ragged THEN 1 ELSE 0) <= 2 * trouble
  BY DEF AccountInv
<1>2. Unlogged' \subseteq Unlogged \cup {e}
  BY DEF Covered
<1>3. /\ IsFiniteSet(Unlogged') /\ Cardinality(Unlogged') \in Nat /\ Cardinality(Unlogged) \in Nat
      /\ Cardinality(Unlogged') <= Cardinality(Unlogged) + 1
      /\ Unlogged' \subseteq Unlogged => Cardinality(Unlogged') <= Cardinality(Unlogged)
  <2> DEFINE U == Unlogged
             V == Unlogged'
  <2>1. IsFiniteSet(U) /\ V \subseteq U \cup {e}
    BY <1>1, <1>2
  <2> HIDE DEF U, V
  <2>2. /\ IsFiniteSet(V) /\ Cardinality(V) \in Nat /\ Cardinality(U) \in Nat
        /\ Cardinality(V) <= Cardinality(U) + 1
        /\ V \subseteq U => Cardinality(V) <= Cardinality(U)
    BY <2>1, OneLineMore
  <2> QED
    BY <2>2 DEF U, V
<1>4. trouble \in Nat /\ trouble' \in Nat /\ ragged \in BOOLEAN /\ ragged' \in BOOLEAN
  BY DEF TypeOK
<1> QED
  BY <1>1, <1>3, <1>4 DEF Covered

\* A step that carries out and writes nothing, and takes nobody away from a line
\* that is due.
LEMMA NothingDue ==
  ASSUME TypeOK, TypeOK', UNCHANGED <<host, audit>>,
         \A q \in Procs : /\ pc[q] \in {"logop", "log"} => pc'[q] = pc[q]
                          /\ q \in committed => cmd'[q] = cmd[q]
                          /\ q \in committed' \ committed => cmd'[q] = "provision" \/ pc'[q] = "log"
  PROVE  Unlogged' \subseteq Unlogged
<1>1. UnloggedOps' \subseteq UnloggedOps
  <2> SUFFICES ASSUME NEW e \in UnloggedOps' PROVE e \in UnloggedOps
    OBVIOUS
  <2>1. e \in Elements(host) /\ e \notin Elements(audit) /\ OpsOf(e.by)' = OpsOf(e.by)
    BY DEF UnloggedOps, Elements, OpsOf
  <2>2. e.by \in Procs
    <3>1. Elements(host) \subseteq Entry
      BY DEF TypeOK, Elements
    <3> QED
      BY <2>1, <3>1 DEF Entry
  <2> QED
    BY <2>1, <2>2 DEF UnloggedOps
<1>2. UnloggedTransitions' \subseteq UnloggedTransitions
  <2> SUFFICES ASSUME NEW q \in UnloggedTransitions' PROVE q \in UnloggedTransitions
    OBVIOUS
  <2>1. q \in committed' /\ cmd'[q] # "provision" /\ pc'[q] # "log" /\ Positions("transition", q)' = {}
    BY DEF UnloggedTransitions
  <2>2. Positions("transition", q) = {}
    BY <2>1 DEF Positions
  <2>3. q \in Procs
    BY <2>1 DEF TypeOK
  <2> QED
    BY <2>1, <2>2, <2>3 DEF UnloggedTransitions
<1> QED
  BY <1>1, <1>2 DEF Unlogged

\* A step of p that takes it past a line, e, with or without writing it.
LEMMA OneLineDue ==
  ASSUME TypeOK, TypeOK', AccountInv, NEW p \in Procs, NEW e,
         UNCHANGED <<host, committed, cmd>>,
         \A i \in DOMAIN audit : i \in DOMAIN audit' /\ audit'[i] = audit[i],
         \A q \in Procs \ {p} : pc'[q] = pc[q],
         pc[p] = "logop" => e = Line("op", p, OpsOf(p)),
         pc[p] = "log" /\ p \in committed => e = Line("transition", p, 1)
  PROVE  Unlogged' \subseteq Unlogged \cup {e}
<1>1. UnloggedOps' \subseteq UnloggedOps \cup {e}
  <2> SUFFICES ASSUME NEW d \in UnloggedOps', d \notin UnloggedOps PROVE d = e
    OBVIOUS
  <2>1. /\ d \in Elements(host) /\ OpsOf(d.by)' = OpsOf(d.by)
        /\ ~(pc'[d.by] = "logop" /\ d.n = OpsOf(d.by))
    BY DEF UnloggedOps, Elements, OpsOf
  <2>2. d \notin Elements(audit)
    BY DEF UnloggedOps, Elements
  <2>3. pc[d.by] = "logop" /\ d.n = OpsOf(d.by)
    BY <2>1, <2>2 DEF UnloggedOps
  <2>4. d \in Entry /\ d.kind = "op"
    <3>1. Elements(host) \subseteq Entry
      BY DEF TypeOK, Elements
    <3> QED
      BY <2>1, <3>1 DEF AccountInv
  <2>5. d.by = p
    BY <2>1, <2>3, <2>4 DEF Entry
  <2>6. e = Line("op", p, OpsOf(p)) /\ d.n = OpsOf(p)
    BY <2>3, <2>5
  <2> QED
    BY <2>4, <2>5, <2>6 DEF Entry, Line
<1>2. \A q \in UnloggedTransitions' : q \in UnloggedTransitions \/ Line("transition", q, 1) = e
  <2> SUFFICES ASSUME NEW q \in UnloggedTransitions', q \notin UnloggedTransitions
               PROVE  Line("transition", q, 1) = e
    OBVIOUS
  <2>1. q \in committed /\ cmd[q] # "provision" /\ pc'[q] # "log" /\ Positions("transition", q)' = {}
    BY DEF UnloggedTransitions
  <2>2. Positions("transition", q) = {}
    BY <2>1 DEF Positions
  <2>3. pc[q] = "log" /\ q \in Procs
    BY <2>1, <2>2 DEF UnloggedTransitions, TypeOK
  <2> QED
    BY <2>1, <2>3
<1> QED
  BY <1>1, <1>2 DEF Unlogged

\* What is in the log is not missing.
LEMMA LoggedIsNotMissing == TypeOK => \A i \in DOMAIN audit : audit[i] \notin Unlogged
<1> SUFFICES ASSUME TypeOK, NEW i \in DOMAIN audit PROVE audit[i] \notin Unlogged
  OBVIOUS
<1>1. audit[i] \notin UnloggedOps
  BY DEF UnloggedOps, Elements
<1>2. ASSUME NEW q \in UnloggedTransitions, audit[i] = Line("transition", q, 1) PROVE FALSE
  <2>1. q \in Procs
    BY DEF UnloggedTransitions, TypeOK
  <2>2. i \in Positions("transition", q)
    BY <1>2, <2>1, LineFields DEF Positions
  <2> QED
    BY <2>2 DEF UnloggedTransitions
<1> QED
  BY <1>1, <1>2 DEF Unlogged

\* A line that is due and appended: it is there, or the failure is counted.
LEMMA AppendCovers ==
  ASSUME TypeOK, TypeOK', NEW e \in Entry, Append1(e), Unlogged' \subseteq Unlogged \cup {e}
  PROVE  Covered(e)
<1>1. CASE Trouble
  BY <1>1 DEF Trouble, Covered
<1>2. CASE ragged /\ ~ragged' /\ UNCHANGED trouble
  BY <1>2 DEF Covered
<1>3. CASE audit' = Append(audit, e) /\ ragged' = FALSE /\ UNCHANGED trouble
  <2>1. audit \in Seq(Entry \cup {Garbled}) /\ trouble \in Nat
    BY DEF TypeOK
  <2>2. Len(audit') \in DOMAIN audit' /\ audit'[Len(audit')] = e
    BY <1>3, <2>1
  <2>3. \A i \in DOMAIN audit' : audit'[i] \notin Unlogged'
    <3>1. TypeOK' => (\A i \in DOMAIN audit : audit[i] \notin Unlogged)'
      BY LoggedIsNotMissing, PTL
    <3> QED
      BY <3>1
  <2>4. Unlogged' \subseteq Unlogged
    BY <2>2, <2>3
  <2> QED
    BY <1>3, <2>1, <2>4 DEF Covered
<1> QED
  BY <1>1, <1>2, <1>3 DEF Append1, TypeOK

LEMMA StepAccount ==
  TypeOK /\ TypeOK' /\ ControlInv /\ LineInv /\ AccountInv /\ [Next]_vars => AccountInv'
<1> SUFFICES ASSUME TypeOK, TypeOK', ControlInv, LineInv, AccountInv, [Next]_vars
             PROVE  AccountInv'
  OBVIOUS
<1>0. ASSUME NEW p \in Procs
      PROVE  OpsOf(p) \in Nat /\ OpsOf(p) + 1 \in Nat /\ Line("op", p, OpsOf(p) + 1) \in Entry
  <2>1. OpsOf(p) \in Nat
    BY OpsOfNat DEF TypeOK
  <2>2. OpsOf(p) + 1 \in Nat
    BY <2>1
  <2> QED
    BY <2>1, <2>2, LineIsEntry
<1> USE DEF TypeOK, Goto, Moves
<1>1. ASSUME UNCHANGED <<host, audit, ragged>>,
             \A q \in Procs :
               /\ pc[q] \in {"logop", "log"} => pc'[q] = pc[q]
               /\ q \in committed => cmd'[q] = cmd[q]
               /\ q \in committed' \ committed => cmd'[q] = "provision" \/ pc'[q] = "log"
      PROVE  Covered(0)
  BY <1>1, NothingDue, TroubleGrows DEF Covered
<1>2. ASSUME UNCHANGED vars PROVE \E e : Covered(e)
  BY <1>1, <1>2 DEF vars, commandVars, auditVars, ghostVars
<1>3. ASSUME NEW p \in Procs, Run(p) PROVE \E e : Covered(e)
  <2>1. CASE \/ Lock(p) \/ Steal(p) \/ Denied(p) \/ Release(p) \/ OpenState(p)
             \/ Refused(p) \/ Record(p) \/ \E c \in Commands : Start(p, c)
    <3>1. UNCHANGED <<host, audit, ragged, committed>>
      BY <2>1 DEF Lock, Steal, Locked, Denied, Release, OpenState, Refused, Record, Start,
             CommandOnly, auditVars, ghostVars
    <3>2. \A q \in Procs : pc[q] \in {"logop", "log"} => pc'[q] = pc[q]
      BY <2>1 DEF Lock, Steal, Locked, Denied, Release, OpenState, Refused, Record, Start,
             commandVars
    <3>3. \A q \in committed : cmd'[q] = cmd[q]
      <4>1. committed \subseteq Procs /\ \A q \in committed : pc[q] # "new"
        BY DEF LineInv
      <4>2. cmd' = cmd \/ (pc[p] = "new" /\ \E c : cmd' = [cmd EXCEPT ![p] = c])
        BY <2>1 DEF Lock, Steal, Locked, Denied, Release, OpenState, Refused, Record, Start,
               commandVars
      <4>3. cmd \in [Procs -> Commands \cup {"none"}]
        OBVIOUS
      <4> HIDE DEF TypeOK
      <4> QED
        BY <4>1, <4>2, <4>3
    <3> QED
      BY <1>1, <3>1, <3>2, <3>3
  <2>2. CASE ReadState(p) \/ ReadStateFails(p)
    <3>1. pc[p] \in {"read", "invalidate"}
      BY <2>2 DEF ReadState, ReadStateFails, ReadAll, ReadFails, Step, ControlInv
    <3>2. UNCHANGED <<host, audit, ragged, committed, cmd>> /\ \A q \in Procs \ {p} : pc'[q] = pc[q]
      BY <2>2 DEF ReadState, ReadStateFails, auditVars, ghostVars
    <3> QED
      BY <1>1, <3>1, <3>2
  <2>3. CASE WriteCall(p)
    <3>0. \A q \in Procs \ {p} : pc'[q] = pc[q]
      BY <2>3, WriteCallOthers
    <3>1. /\ pc[p] \in {"write", "rewriting"} /\ UNCHANGED <<host, audit, ragged, cmd>>
          /\ \A q \in Procs \ {p} : pc'[q] = pc[q]
      BY <2>3, <3>0 DEF WriteCall, auditVars
    <3>2. ASSUME NEW q \in Procs, q \in committed' \ committed
          PROVE  cmd'[q] = "provision" \/ pc'[q] = "log"
      <4>1. q = p /\ pc[p] # "rewriting" /\ cmd[p] \in Mutating /\ at'[p] = "ok"
        <5>1. Published(p)
          BY <2>3 DEF WriteCall
        <5> HIDE DEF TypeOK
        <5>2. at'[p] = "ok" /\ ~(pc[p] = "rewriting" \/ cmd[p] \notin Mutating)
          BY <3>2, <5>1 DEF Published, ghostVars
        <5> QED
          BY <3>2, <5>1, <5>2 DEF Published
      <4>2. pc'[p] = AfterWrite(p, at'[p] = "ok")
        BY <2>3, <4>1 DEF WriteCall
      <4> QED
        BY <3>1, <4>1, <4>2 DEF AfterWrite, Mutating
    <3> QED
      BY <1>1, <3>1, <3>2
  <2>4. CASE Operate(p)
    <3> DEFINE L == Line("op", p, OpsOf(p) + 1)
    <3>1. /\ pc[p] = "operate" /\ pc' = [pc EXCEPT ![p] = "logop"] /\ host' = Append(host, L)
          /\ UNCHANGED <<audit, ragged, trouble, cmd, committed>>
      BY <2>4 DEF Operate, auditVars, ghostVars
    <3>2. L \in Entry /\ L.by = p /\ L.n = OpsOf(p) + 1
      <4>1. L \in Entry
        BY <1>0
      <4> QED
        BY <4>1 DEF Line
    <3>3. \A q \in Procs : OpsOf(q)' = OpsOf(q) + (IF q = p THEN 1 ELSE 0)
      <4> DEFINE n == OpsOf(p) + 1
      <4>1. n \in Nat /\ host' = Append(host, Line("op", p, n))
        BY <1>0, <3>1
      <4> HIDE DEF n, TypeOK
      <4> QED
        BY <4>1, OpsOfAppend
    <3>4. \A d \in Elements(host)' : d \in Elements(host) \/ d = L
      <4> HIDE DEF L
      <4> QED
        BY <3>1, <3>2 DEF Elements
    <3>5. UnloggedOps' \subseteq UnloggedOps
      <4> SUFFICES ASSUME NEW d \in UnloggedOps' PROVE d \in UnloggedOps
        OBVIOUS
      <4>1. /\ d \in Elements(host)' /\ d \notin Elements(audit)
            /\ ~(pc'[d.by] = "logop" /\ d.n = OpsOf(d.by)')
        BY <3>1 DEF UnloggedOps, Elements
      <4>2. d # L
        <5>1. OpsOf(p)' = OpsOf(p) + 1 /\ pc'[p] = "logop"
          BY <3>1, <3>3
        <5>2. ASSUME d = L PROVE FALSE
          <6>1. d.by = p /\ d.n = OpsOf(p) + 1
            BY <3>2, <5>2
          <6>2. OpsOf(d.by)' = OpsOf(p)'
            BY <6>1
          <6> QED
            BY <4>1, <5>1, <6>1, <6>2
        <5> QED
          BY <5>2
      <4>3. d \in Elements(host) /\ d.by \in Procs
        <5>1. Elements(host) \subseteq Entry
          BY DEF Elements
        <5> QED
          BY <3>4, <4>1, <4>2, <5>1 DEF Entry
      <4>4. ~(pc[d.by] = "logop" /\ d.n = OpsOf(d.by))
        <5>1. CASE d.by = p
          BY <3>1, <5>1
        <5>2. CASE d.by # p
          <6>1. OpsOf(d.by)' = OpsOf(d.by) + (IF d.by = p THEN 1 ELSE 0)
            BY <3>3, <4>3, Zenon
          <6>2. OpsOf(d.by) \in Nat
            BY <4>3, OpsOfNat, Zenon DEF TypeOK
          <6>3. OpsOf(d.by)' = OpsOf(d.by)
            BY <5>2, <6>1, <6>2
          <6> QED
            BY <3>1, <4>1, <4>3, <5>2, <6>3
        <5> QED
          BY <5>1, <5>2
      <4> QED
        BY <4>1, <4>3, <4>4 DEF UnloggedOps
    <3>6. UnloggedTransitions' \subseteq UnloggedTransitions
      BY <3>1 DEF UnloggedTransitions, Positions
    <3>7. Unlogged' \subseteq Unlogged
      BY <3>5, <3>6 DEF Unlogged
    <3>8. UNCHANGED <<ragged, trouble>> /\ trouble >= trouble
      BY <3>1
    <3>9. Covered(0)
      <4> HIDE DEF TypeOK
      <4> QED
        BY <3>7, <3>8 DEF Covered
    <3> QED
      BY <3>9
  <2>5. CASE LogOp(p) \/ Log(p) \/ LogError(p)
    <3>1. PICK e \in Entry : /\ Append1(e)
                             /\ pc[p] = "logop" => e = Line("op", p, OpsOf(p))
                             /\ pc[p] = "log" /\ p \in committed => e = Line("transition", p, 1)
      <4>1. CASE LogOp(p)
        BY <4>1, OpsOfNat, LineIsEntry DEF LogOp
      <4>2. CASE Log(p)
        <5>1. Line(Kind(cmd[p]), p, 1) \in Entry
          BY LineIsEntry DEF Kind
        <5>2. p \in committed => Kind(cmd[p]) = "transition"
          <6>1. p \in committed => cmd[p] \in Mutating
            BY DEF LineInv
          <6> QED
            BY <6>1 DEF Kind, Mutating
        <5> QED
          BY <4>2, <5>1, <5>2 DEF Log
      <4>3. CASE LogError(p)
        BY <4>3, LineIsEntry DEF LogError
      <4> QED
        BY <2>5, <4>1, <4>2, <4>3
    <3>2. UNCHANGED <<host, committed, cmd>> /\ \A q \in Procs \ {p} : pc'[q] = pc[q]
      BY <2>5 DEF LogOp, Log, LogError, ghostVars
    <3>3. \A i \in DOMAIN audit : i \in DOMAIN audit' /\ audit'[i] = audit[i]
      <4>1. audit \in Seq(Entry \cup {Garbled})
        OBVIOUS
      <4>2. audit' = audit \/ \E f \in {e, Garbled} : audit' = Append(audit, f)
        BY <3>1 DEF Append1, auditVars
      <4>3. ASSUME NEW f \in {e, Garbled}, audit' = Append(audit, f), NEW i \in DOMAIN audit
            PROVE  i \in DOMAIN audit' /\ audit'[i] = audit[i]
        <5> HIDE DEF TypeOK
        <5> QED
          BY <4>1, <4>3
      <4> QED
        BY <4>2, <4>3
    <3>4. Unlogged' \subseteq Unlogged \cup {e}
      BY <3>1, <3>2, <3>3, OneLineDue
    <3> QED
      BY <3>1, <3>4, AppendCovers
  <2> QED
    BY <1>3, <2>1, <2>2, <2>3, <2>4, <2>5 DEF Run
<1>4. ASSUME NEW p \in Procs, Crash(p) PROVE \E e : Covered(e)
  <2>1. PICK e : /\ pc[p] = "logop" => e = Line("op", p, OpsOf(p))
                 /\ pc[p] = "log" /\ p \in committed => e = Line("transition", p, 1)
    <3>1. \/ pc[p] # "logop" \/ pc[p] # "log"
      OBVIOUS
    <3> QED
      BY <3>1
  <2>2. /\ UNCHANGED <<host, committed, cmd, audit, ragged>> /\ trouble' = trouble + 1
        /\ \A q \in Procs \ {p} : pc'[q] = pc[q]
    BY <1>4 DEF Crash, Trouble, auditVars, ghostVars
  <2>3. Unlogged' \subseteq Unlogged \cup {e}
    BY <2>1, <2>2, OneLineDue
  <2> QED
    BY <2>2, <2>3 DEF Covered
<1>5. CASE PowerFails
  <2>1. \A d \in Elements(host)' : d \in Elements(host)
    BY <1>5 DEF PowerFails, Elements
  <2> QED
    BY <1>5, <2>1 DEF PowerFails, AccountInv
<1>6. ASSUME UNCHANGED <<commandVars, host, auditVars, ghostVars, trouble>>
      PROVE  \E e : Covered(e)
  BY <1>1, <1>6 DEF commandVars, auditVars, ghostVars
<1>7. \A d \in Elements(host)' : d.kind = "op"
  <2>1. ASSUME NEW p \in Procs, Operate(p) PROVE \A d \in Elements(host)' : d.kind = "op"
    <3> DEFINE L == Line("op", p, OpsOf(p) + 1)
    <3>1. host' = Append(host, L) /\ L.kind = "op" /\ host \in Seq(Entry)
      BY <2>1, LineFields DEF Operate
    <3>2. L \in Entry
      BY OpsOfNat, LineIsEntry
    <3> HIDE DEF L
    <3>3. \A d \in Elements(host)' : d \in Elements(host) \/ d = L
      BY <3>1, <3>2, AppendElements
    <3> QED
      BY <3>1, <3>3 DEF AccountInv
  <2>2. UNCHANGED host \/ \E p \in Procs : Operate(p)
    BY DEF Next, Run, World, vars, CommandOnly, Start, Lock, Steal, Locked, Denied, Release, OpenState, ReadState, ReadStateFails,
           Refused, LogOp, Record, WriteCall, Log, LogError, Crash, PowerFails
  <2>3. UNCHANGED host => \A d \in Elements(host)' : d.kind = "op"
    BY DEF AccountInv, Elements
  <2> QED
    BY <2>1, <2>2, <2>3
<1>8. PowerFails \/ \E e : Covered(e)
  BY <1>2, <1>3, <1>4, <1>6 DEF Next, World
<1>9. ~blackout' => ~blackout
  BY DEF Next, Run, World, vars, CommandOnly, Start, Lock, Steal, Locked, Denied, Release, OpenState, ReadState, ReadStateFails,
         Operate, Refused, LogOp, Record, WriteCall, Log, LogError, Published, Crash, PowerFails, ghostVars
<1>10. ASSUME NEW e, Covered(e) PROVE AccountInv'
  BY <1>7, <1>9, <1>10, Accounting DEF AccountInv
<1> QED
  BY <1>5, <1>8, <1>10

\* The audit log accounts for the changes: each append that fails and each crash
\* costs at most two of the lines of operations and transitions, whoever the
\* processes are and however many, until the power is cut.
THEOREM AuditAlwaysAccounts == Spec => []AuditAccountsForChanges
<1>1. Init => AccountInv
  <2> SUFFICES ASSUME Init PROVE AccountInv
    OBVIOUS
  <2>1. Unlogged = {}
    BY DEF Init, Unlogged, UnloggedOps, UnloggedTransitions, Elements
  <2> QED
    BY <2>1, FS_EmptySet DEF Init, AccountInv, Elements
<1>2. TypeOK /\ AccountInv => AuditAccountsForChanges
  <2> SUFFICES ASSUME TypeOK, AccountInv, ~blackout PROVE Cardinality(Unlogged) <= 2 * trouble
    BY DEF AuditAccountsForChanges
  <2>1. Cardinality(Unlogged) \in Nat
    BY FS_CardinalityType DEF AccountInv
  <2> QED
    BY <2>1 DEF AccountInv, TypeOK
<1> QED
  BY <1>1, <1>2, TypeInvariance, ControlInvariance, LineInvariance, StepAccount, PTL DEF Spec
=============================================================================
