--------------------------- MODULE LabStoreProofs ---------------------------
(***************************************************************************)
(* Proofs about LabStore, for any processes and values: state.json is       *)
(* never partial, Write cleans up, and the whole is an atomic register.     *)
(***************************************************************************)
EXTENDS LabStore, TLAPS

\* What a Write has achieved at each of its calls.
Phases ==
  \A p \in Procs :
    /\ at[p] \in Writing => sf[p] \in Values
    /\ at[p] \in Writing \ {"create", "cleanup"} => tmp[p] # NoFile
    /\ at[p] \in {"sync", "chmod", "rename"} => tmp[p].data = sf[p]
    /\ at[p] \in {"chmod", "rename"} => tmp[p].synced
    /\ at[p] = "rename" => tmp[p].shared

\* What is being read is not torn.
ReadsAreWhole == \A p \in Procs : fd[p] # NoFile => fd[p].data \in Values

StoreInv == StoreTypeOK /\ PublishedIsWhole /\ NoTempAfterWrite /\ Phases /\ ReadsAreWhole

USE StoreAssumption, FileAssumption

\* A field of a file can be set to any value of its type.
LEMMA FileUpdate ==
  ASSUME NEW f \in File, NEW v \in Values \cup {Torn}
  PROVE /\ [f EXCEPT !.data = v] \in File
        /\ [f EXCEPT !.synced = TRUE] \in File
        /\ [f EXCEPT !.shared = TRUE] \in File
  BY DEF File

LEMMA WholeIsFile == \A v \in Values : Whole(v) \in File
  BY DEF Whole, File

\* What is called new or old is a file, and not the absence of one.
LEMMA FileFields ==
  \A f \in File : f # NoFile /\ f.data \in Values \cup {Torn}
                  /\ f.synced \in BOOLEAN /\ f.shared \in BOOLEAN
  BY DEF File

LEMMA InitInv == StoreInit => StoreInv
<1> SUFFICES ASSUME StoreInit PROVE StoreInv
  OBVIOUS
<1>1. cur \in File \cup {NoFile} /\ settled = cur
  BY WholeIsFile DEF StoreInit
<1>2. cur # NoFile => cur.data \in Values /\ cur.synced /\ cur.shared
  BY DEF StoreInit, Whole
<1>3. StoreTypeOK
  BY <1>1 DEF StoreInit, StoreTypeOK, Ready
<1>4. PublishedIsWhole
  BY <1>1, <1>2 DEF PublishedIsWhole
<1>5. NoTempAfterWrite /\ Phases /\ ReadsAreWhole
  BY DEF StoreInit, NoTempAfterWrite, Phases, ReadsAreWhole, Writing
<1> QED
  BY <1>3, <1>4, <1>5 DEF StoreInv

LEMMA StepInv == StoreInv /\ [StoreNext]_storeVars => StoreInv'
<1> SUFFICES ASSUME StoreInv, [StoreNext]_storeVars PROVE StoreInv'
  OBVIOUS
<1> USE FileFields
<1> USE DEF StoreInv, Ready, Writing
<1>0. CASE UNCHANGED storeVars
  BY <1>0 DEF storeVars, StoreTypeOK, PublishedIsWhole, NoTempAfterWrite, Phases, ReadsAreWhole
<1>1. ASSUME NEW p \in Procs, Open(p) PROVE StoreInv'
  <2>1. StoreTypeOK'
    BY <1>1 DEF Open, StoreTypeOK
  <2>2. PublishedIsWhole'
    BY <1>1 DEF Open, StoreTypeOK, PublishedIsWhole
  <2>3. NoTempAfterWrite'
    BY <1>1 DEF Open, StoreTypeOK, NoTempAfterWrite
  <2>4. Phases'
    BY <1>1 DEF Open, StoreTypeOK, Phases
  <2>5. ReadsAreWhole'
    BY <1>1 DEF Open, StoreTypeOK, ReadsAreWhole, PublishedIsWhole
  <2> QED
    BY <2>1, <2>2, <2>3, <2>4, <2>5
<1>2. ASSUME NEW p \in Procs, ReadAll(p) PROVE StoreInv'
  <2>1. StoreTypeOK'
    BY <1>2 DEF Step, ReadAll, StoreTypeOK, Content
  <2>2. PublishedIsWhole'
    BY <1>2 DEF Step, ReadAll, StoreTypeOK, PublishedIsWhole
  <2>3. NoTempAfterWrite'
    BY <1>2 DEF Step, ReadAll, StoreTypeOK, NoTempAfterWrite
  <2>4. Phases'
    BY <1>2 DEF Step, ReadAll, StoreTypeOK, Phases
  <2>5. ReadsAreWhole'
    BY <1>2 DEF Step, ReadAll, StoreTypeOK, ReadsAreWhole, Content
  <2> QED
    BY <2>1, <2>2, <2>3, <2>4, <2>5
<1>3. ASSUME NEW p \in Procs, CreateTemp(p) PROVE StoreInv'
  <2>1. StoreTypeOK'
    BY <1>3 DEF Step, CreateTemp, StoreTypeOK, File
  <2>2. PublishedIsWhole'
    BY <1>3 DEF Step, CreateTemp, StoreTypeOK, PublishedIsWhole
  <2>3. NoTempAfterWrite'
    BY <1>3 DEF Step, CreateTemp, StoreTypeOK, NoTempAfterWrite
  <2>4. Phases'
    BY <1>3 DEF Step, CreateTemp, StoreTypeOK, Phases, NoTempAfterWrite, File
  <2>5. ReadsAreWhole'
    BY <1>3 DEF Step, CreateTemp, StoreTypeOK, ReadsAreWhole
  <2> QED
    BY <2>1, <2>2, <2>3, <2>4, <2>5
<1>4. ASSUME NEW p \in Procs, WriteData(p) PROVE StoreInv'
  <2>a. tmp[p] \in File
    BY <1>4 DEF Step, WriteData, StoreTypeOK, Phases
  <2>b. tmp' = [tmp EXCEPT ![p] = [tmp[p] EXCEPT !.data = sf[p]]] /\ [tmp[p] EXCEPT !.data = sf[p]] \in File
    BY <1>4, <2>a, FileUpdate DEF WriteData, StoreTypeOK, ReadsAreWhole, Phases, Step
  <2>1. StoreTypeOK'
    BY <1>4, <2>b DEF Step, WriteData, StoreTypeOK
  <2>2. PublishedIsWhole'
    BY <1>4 DEF Step, WriteData, StoreTypeOK, PublishedIsWhole
  <2>3. NoTempAfterWrite'
    BY <1>4 DEF Step, WriteData, StoreTypeOK, NoTempAfterWrite
  <2>4. Phases'
    BY <1>4, <2>a, <2>b DEF Step, WriteData, StoreTypeOK, Phases, File
  <2>5. ReadsAreWhole'
    BY <1>4 DEF Step, WriteData, StoreTypeOK, ReadsAreWhole
  <2> QED
    BY <2>1, <2>2, <2>3, <2>4, <2>5
<1>5. ASSUME NEW p \in Procs, Sync(p) PROVE StoreInv'
  <2>a. tmp[p] \in File
    BY <1>5 DEF Step, Sync, StoreTypeOK, Phases
  <2>b. tmp' = [tmp EXCEPT ![p] = [tmp[p] EXCEPT !.synced = TRUE]] /\ [tmp[p] EXCEPT !.synced = TRUE] \in File
    BY <1>5, <2>a, FileUpdate DEF Sync, StoreTypeOK, ReadsAreWhole, Phases, Step
  <2>c. tmp'[p].data = tmp[p].data /\ tmp'[p].synced /\ tmp'[p] # NoFile
    BY <2>a, <2>b DEF StoreTypeOK, File
  <2>1. StoreTypeOK'
    BY <1>5, <2>b DEF Step, Sync, StoreTypeOK
  <2>2. PublishedIsWhole'
    BY <1>5 DEF Step, Sync, StoreTypeOK, PublishedIsWhole
  <2>3. NoTempAfterWrite'
    BY <1>5 DEF Step, Sync, StoreTypeOK, NoTempAfterWrite
  <2>4. Phases'
    BY <1>5, <2>b, <2>c DEF Step, Sync, StoreTypeOK, Phases
  <2>5. ReadsAreWhole'
    BY <1>5 DEF Step, Sync, StoreTypeOK, ReadsAreWhole
  <2> QED
    BY <2>1, <2>2, <2>3, <2>4, <2>5
<1>6. ASSUME NEW p \in Procs, Chmod(p) PROVE StoreInv'
  <2>a. tmp[p] \in File
    BY <1>6 DEF Step, Chmod, StoreTypeOK, Phases
  <2>b. tmp' = [tmp EXCEPT ![p] = [tmp[p] EXCEPT !.shared = TRUE]] /\ [tmp[p] EXCEPT !.shared = TRUE] \in File
    BY <1>6, <2>a, FileUpdate DEF Chmod, StoreTypeOK, ReadsAreWhole, Phases, Step
  <2>c. /\ tmp'[p].data = tmp[p].data /\ tmp'[p].synced = tmp[p].synced
        /\ tmp'[p].shared /\ tmp'[p] # NoFile
    BY <2>a, <2>b DEF StoreTypeOK, File
  <2>1. StoreTypeOK'
    BY <1>6, <2>b DEF Step, Chmod, StoreTypeOK
  <2>2. PublishedIsWhole'
    BY <1>6 DEF Step, Chmod, StoreTypeOK, PublishedIsWhole
  <2>3. NoTempAfterWrite'
    BY <1>6 DEF Step, Chmod, StoreTypeOK, NoTempAfterWrite
  <2>4. Phases'
    BY <1>6, <2>b, <2>c DEF Step, Chmod, StoreTypeOK, Phases
  <2>5. ReadsAreWhole'
    BY <1>6 DEF Step, Chmod, StoreTypeOK, ReadsAreWhole
  <2> QED
    BY <2>1, <2>2, <2>3, <2>4, <2>5
<1>7. ASSUME NEW p \in Procs, Rename(p) PROVE StoreInv'
  <2>1. StoreTypeOK'
    BY <1>7 DEF Step, Rename, StoreTypeOK
  <2>2. PublishedIsWhole'
    BY <1>7 DEF Step, Rename, StoreTypeOK, PublishedIsWhole, Phases
  <2>3. NoTempAfterWrite'
    BY <1>7 DEF Step, Rename, StoreTypeOK, NoTempAfterWrite
  <2>4. Phases'
    BY <1>7 DEF Step, Rename, StoreTypeOK, Phases
  <2>5. ReadsAreWhole'
    BY <1>7 DEF Step, Rename, StoreTypeOK, ReadsAreWhole
  <2> QED
    BY <2>1, <2>2, <2>3, <2>4, <2>5
<1>8. ASSUME NEW p \in Procs, Cleanup(p) PROVE StoreInv'
  <2>1. StoreTypeOK'
    BY <1>8 DEF Step, Cleanup, StoreTypeOK
  <2>2. PublishedIsWhole'
    BY <1>8 DEF Step, Cleanup, StoreTypeOK, PublishedIsWhole
  <2>3. NoTempAfterWrite'
    BY <1>8 DEF Step, Cleanup, StoreTypeOK, NoTempAfterWrite
  <2>4. Phases'
    BY <1>8 DEF Step, Cleanup, StoreTypeOK, Phases
  <2>5. ReadsAreWhole'
    BY <1>8 DEF Step, Cleanup, StoreTypeOK, ReadsAreWhole
  <2> QED
    BY <2>1, <2>2, <2>3, <2>4, <2>5
<1>9. ASSUME NEW p \in Procs, CreateFails(p) PROVE StoreInv'
  <2>1. StoreTypeOK'
    BY <1>9 DEF Step, CreateFails, StoreTypeOK
  <2>2. PublishedIsWhole'
    BY <1>9 DEF Step, CreateFails, StoreTypeOK, PublishedIsWhole
  <2>3. NoTempAfterWrite'
    BY <1>9 DEF Step, CreateFails, StoreTypeOK, NoTempAfterWrite
  <2>4. Phases'
    BY <1>9 DEF Step, CreateFails, StoreTypeOK, Phases
  <2>5. ReadsAreWhole'
    BY <1>9 DEF Step, CreateFails, StoreTypeOK, ReadsAreWhole
  <2> QED
    BY <2>1, <2>2, <2>3, <2>4, <2>5
<1>10. ASSUME NEW p \in Procs, CallFails(p) PROVE StoreInv'
  <2>1. StoreTypeOK'
    BY <1>10 DEF CallFails, StoreTypeOK
  <2>2. PublishedIsWhole'
    BY <1>10 DEF CallFails, StoreTypeOK, PublishedIsWhole
  <2>3. NoTempAfterWrite'
    BY <1>10 DEF CallFails, StoreTypeOK, NoTempAfterWrite
  <2>4. Phases'
    BY <1>10 DEF CallFails, StoreTypeOK, Phases
  <2>5. ReadsAreWhole'
    BY <1>10 DEF CallFails, StoreTypeOK, ReadsAreWhole
  <2> QED
    BY <2>1, <2>2, <2>3, <2>4, <2>5
<1>11. ASSUME NEW p \in Procs, Dies(p) PROVE StoreInv'
  <2>1. StoreTypeOK'
    BY <1>11 DEF Dies, StoreTypeOK
  <2>2. PublishedIsWhole'
    BY <1>11 DEF Dies, StoreTypeOK, PublishedIsWhole
  <2>3. NoTempAfterWrite'
    BY <1>11 DEF Dies, StoreTypeOK, NoTempAfterWrite
  <2>4. Phases'
    BY <1>11 DEF Dies, StoreTypeOK, Phases
  <2>5. ReadsAreWhole'
    BY <1>11 DEF Dies, StoreTypeOK, ReadsAreWhole
  <2> QED
    BY <2>1, <2>2, <2>3, <2>4, <2>5
<1>12. ASSUME NEW p \in Procs, NEW v \in Values, Call(p, v) PROVE StoreInv'
  <2>1. StoreTypeOK'
    BY <1>12 DEF Call, StoreTypeOK
  <2>2. PublishedIsWhole'
    BY <1>12 DEF Call, PublishedIsWhole
  <2>3. NoTempAfterWrite'
    BY <1>12 DEF Call, StoreTypeOK, NoTempAfterWrite
  <2>4. Phases'
    BY <1>12 DEF Call, StoreTypeOK, Phases
  <2>5. ReadsAreWhole'
    BY <1>12 DEF Call, StoreTypeOK, ReadsAreWhole
  <2> QED
    BY <2>1, <2>2, <2>3, <2>4, <2>5
<1>13. CASE CommitDir
  BY <1>13 DEF CommitDir, StoreTypeOK, PublishedIsWhole, NoTempAfterWrite, Phases, ReadsAreWhole
<1>14. CASE PowerLoss
  <2>1. cur' = settled /\ settled' = settled
    BY <1>14 DEF PowerLoss, Remains, PublishedIsWhole
  <2> QED
    BY <1>14, <2>1 DEF PowerLoss, StoreTypeOK, PublishedIsWhole, NoTempAfterWrite, Phases, ReadsAreWhole
<1>15. ASSUME NEW p \in Procs, ReadFails(p) PROVE StoreInv'
  <2>1. StoreTypeOK'
    BY <1>15 DEF Step, ReadFails, StoreTypeOK
  <2>2. PublishedIsWhole'
    BY <1>15 DEF Step, ReadFails, StoreTypeOK, PublishedIsWhole
  <2>3. NoTempAfterWrite'
    BY <1>15 DEF Step, ReadFails, StoreTypeOK, NoTempAfterWrite
  <2>4. Phases'
    BY <1>15 DEF Step, ReadFails, StoreTypeOK, Phases
  <2>5. ReadsAreWhole'
    BY <1>15 DEF Step, ReadFails, StoreTypeOK, ReadsAreWhole
  <2> QED
    BY <2>1, <2>2, <2>3, <2>4, <2>5
<1> QED
  BY <1>0, <1>1, <1>2, <1>3, <1>4, <1>5, <1>6, <1>7, <1>8, <1>9, <1>10, <1>11, <1>12, <1>13, <1>14, <1>15 DEF StoreNext, WriteStep, Fails

-----------------------------------------------------------------------------
LEMMA Invariance == StoreSpec => []StoreInv
  BY InitInv, StepInv, PTL DEF StoreSpec

\* state.json, and what a power cut would bring back, is complete, synced and
\* readable whenever it exists: Write publishes nothing else.
THEOREM AlwaysWhole == StoreSpec => []PublishedIsWhole
  BY Invariance, PTL DEF StoreInv

\* A Write that returns, with or without an error, leaves no temporary file.
THEOREM AlwaysClean == StoreSpec => []NoTempAfterWrite
  BY Invariance, PTL DEF StoreInv

-----------------------------------------------------------------------------
(* The refinement. *)

\* The state of the register that a state of the store stands for.
value == Content(cur)
held == [p \in Procs |-> IF at[p] = "reading" THEN Content(fd[p]) ELSE sf[p]]
call == [p \in Procs |-> IF at[p] \in Writing THEN "writing"
                         ELSE IF at[p] \in {"ok", "failed"} THEN at[p] ELSE "idle"]

USE DEF value, held, call

LEMMA InitRefines == StoreInit => Register!RegisterInit
<1> SUFFICES ASSUME StoreInit PROVE Register!RegisterInit
  OBVIOUS
<1>1. value \in Values \cup {Missing}
  BY FileFields, WholeIsFile DEF StoreInit, Content, Whole
<1>2. held = [p \in Procs |-> Missing] /\ call = [p \in Procs |-> "idle"]
  BY DEF StoreInit, Writing
<1> QED
  BY <1>1, <1>2 DEF StoreInit, Register!RegisterInit

\* Every step is one of the register, or is not seen by it.
LEMMA StepRefines ==
  StoreInv /\ [StoreNext]_storeVars => [Register!RegisterNext]_(Register!registerVars)
<1> SUFFICES ASSUME StoreInv, [StoreNext]_storeVars
             PROVE  [Register!RegisterNext]_(Register!registerVars)
  OBVIOUS
<1> DEFINE Unseen == value' = value /\ settled' = settled /\ held' = held /\ call' = call
<1> USE DEF StoreInv, StoreTypeOK, Ready, Writing, Content
<1>0. Unseen => [Register!RegisterNext]_(Register!registerVars)
  BY DEF Register!registerVars
<1>1. ASSUME UNCHANGED storeVars PROVE Unseen
  BY <1>1 DEF storeVars
<1>2. ASSUME NEW p \in Procs, ReadAll(p) PROVE Unseen
  BY <1>2 DEF Step, ReadAll
<1>3. ASSUME NEW p \in Procs, CreateTemp(p) PROVE Unseen
  BY <1>3 DEF Step, CreateTemp
<1>4. ASSUME NEW p \in Procs, WriteData(p) PROVE Unseen
  BY <1>4 DEF Step, WriteData
<1>5. ASSUME NEW p \in Procs, Sync(p) PROVE Unseen
  BY <1>5 DEF Step, Sync
<1>6. ASSUME NEW p \in Procs, Chmod(p) PROVE Unseen
  BY <1>6 DEF Step, Chmod
<1>7. ASSUME NEW p \in Procs, CallFails(p) PROVE Unseen
  BY <1>7 DEF CallFails
<1>8. ASSUME NEW p \in Procs, Open(p) PROVE Register!RegisterNext
  <2>1. held' = [held EXCEPT ![p] = value]
    BY <1>8 DEF Open
  <2>2. call' = [call EXCEPT ![p] = "idle"]
    BY <1>8 DEF Open
  <2>3. call[p] # "writing"
    BY <1>8 DEF Open
  <2>4. Register!Read(p)
    BY <1>8, <2>1, <2>2, <2>3 DEF Open, Register!Read
  <2> QED
    BY <2>4 DEF Register!RegisterNext
<1>9. ASSUME NEW p \in Procs, NEW v \in Values, Call(p, v) PROVE Register!RegisterNext
  <2>1. held' = [held EXCEPT ![p] = v]
    BY <1>9 DEF Call
  <2>2. call' = [call EXCEPT ![p] = "writing"]
    BY <1>9 DEF Call
  <2>3. call[p] # "writing"
    BY <1>9 DEF Call
  <2>4. Register!Invoke(p)
    BY <1>9, <2>1, <2>2, <2>3 DEF Call, Register!Invoke
  <2> QED
    BY <2>4 DEF Register!RegisterNext
<1>10. ASSUME NEW p \in Procs, Rename(p) PROVE Register!RegisterNext
  <2>1. held' = held
    BY <1>10 DEF Step, Rename, Phases
  <2>2. call' = [call EXCEPT ![p] = "ok"]
    BY <1>10 DEF Step, Rename, Phases
  <2>3. call[p] = "writing" /\ value' = held[p]
    BY <1>10 DEF Step, Rename, Phases
  <2>4. Register!Succeed(p)
    BY <1>10, <2>1, <2>2, <2>3 DEF Rename, Register!Succeed
  <2> QED
    BY <2>4 DEF Register!RegisterNext
<1>11. ASSUME NEW p \in Procs, CreateFails(p) PROVE Register!RegisterNext
  <2>1. held' = held
    BY <1>11 DEF Step, CreateFails
  <2>2. call' = [call EXCEPT ![p] = "failed"]
    BY <1>11 DEF Step, CreateFails
  <2>3. call[p] = "writing"
    BY <1>11 DEF Step, CreateFails
  <2>4. Register!Fail(p)
    BY <1>11, <2>1, <2>2, <2>3 DEF CreateFails, Register!Fail
  <2> QED
    BY <2>4 DEF Register!RegisterNext
<1>12. ASSUME NEW p \in Procs, Cleanup(p) PROVE Register!RegisterNext
  <2>1. held' = held
    BY <1>12 DEF Step, Cleanup
  <2>2. call' = [call EXCEPT ![p] = "failed"]
    BY <1>12 DEF Step, Cleanup
  <2>3. call[p] = "writing"
    BY <1>12 DEF Step, Cleanup
  <2>4. Register!Fail(p)
    BY <1>12, <2>1, <2>2, <2>3 DEF Cleanup, Register!Fail
  <2> QED
    BY <2>4 DEF Register!RegisterNext
<1>13. ASSUME NEW p \in Procs, Dies(p) PROVE Register!RegisterNext
  <2>1. held' = [held EXCEPT ![p] = Missing]
    BY <1>13 DEF Dies
  <2>2. call' = [call EXCEPT ![p] = "idle"]
    BY <1>13 DEF Dies
  <2>3. UNCHANGED <<cur, settled>>
    BY <1>13 DEF Dies
  <2>4. Register!Forget(p)
    BY <1>13, <2>1, <2>2, <2>3 DEF Dies, Register!Forget
  <2> QED
    BY <2>4 DEF Register!RegisterNext
<1>14. ASSUME CommitDir PROVE Register!RegisterNext
  BY <1>14 DEF CommitDir, Register!RegisterNext, Register!Settle
<1>15. ASSUME PowerLoss PROVE Register!RegisterNext
  <2>1. cur' = settled /\ settled' = settled
    BY <1>15 DEF PowerLoss, Remains, PublishedIsWhole
  <2>2. held' = [p \in Procs |-> Missing] /\ call' = [p \in Procs |-> "idle"]
    BY <1>15 DEF PowerLoss
  <2> QED
    BY <2>1, <2>2 DEF Register!RegisterNext, Register!PowerCut
<1>16. ASSUME NEW p \in Procs, ReadFails(p) PROVE Register!RegisterNext
  <2>1. held' = [held EXCEPT ![p] = Torn]
    BY <1>16 DEF Step, ReadFails
  <2>2. call' = [call EXCEPT ![p] = "idle"]
    BY <1>16 DEF Step, ReadFails
  <2>3. call[p] # "writing"
    BY <1>16 DEF Step, ReadFails
  <2>4. Register!ReadFails(p)
    BY <1>16, <2>1, <2>2, <2>3 DEF ReadFails, Register!ReadFails
  <2> QED
    BY <2>4 DEF Register!RegisterNext
<1> QED
  <2>1. StoreNext => Unseen \/ Register!RegisterNext
    BY <1>2, <1>3, <1>4, <1>5, <1>6, <1>7, <1>8, <1>9, <1>10, <1>11, <1>12, <1>13, <1>14, <1>15, <1>16 DEF StoreNext, WriteStep, Fails
  <2> QED
    BY <1>0, <1>1, <2>1

\* The Store is an atomic register: Read takes effect when it opens the file,
\* Write when it renames, and whatever fails or dies in between, nothing else does.
THEOREM StoreRefinesRegister == StoreSpec => ImplementsRegister
  BY Invariance, InitRefines, StepRefines, PTL DEF StoreSpec, ImplementsRegister, Register!RegisterSpec
=============================================================================
