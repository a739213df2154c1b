------------------------------ MODULE LabStore ------------------------------
(***************************************************************************)
(* state.Store (internal/state/store.go) by its system calls: Read opens    *)
(* state.json and then reads it; Write creates a temporary file beside it,  *)
(* writes, syncs, closes and chmods it, and renames it to state.json.  Any   *)
(* of the calls may fail, any process may die between two of them, and the   *)
(* power may be cut.                                                         *)
(*                                                                         *)
(* A file is known by its content: nobody writes to one that has been       *)
(* published, so a reader that has opened it will read what it then holds.   *)
(* A temporary file has a random name that only its writer knows.            *)
(***************************************************************************)
CONSTANTS
  Procs,     \* the processes (a command, or an interrupt handler)
  Values,    \* what can be written: the contents that Read accepts
  Missing,   \* what Read returns for ErrStateFileNotFound
  Torn,      \* an empty or partial content; what Read has if it cannot read or parse
  NoFile     \* no file under that name

ASSUME StoreAssumption == Missing \notin Values /\ Torn \notin Values \cup {Missing}

File == [data : Values \cup {Torn}, synced : BOOLEAN, shared : BOOLEAN]
ASSUME FileAssumption == NoFile \notin File

VARIABLES
  cur,       \* the file named state.json
  settled,   \* the file that this name has on the disk, after a power cut
  tmp,       \* tmp[p]: the temporary file of p
  fd,        \* fd[p]: the file p is reading
  sf,        \* sf[p]: what p has read, or wants to write
  at         \* at[p]: the next call of p's Read or Write, or how the last one ended

storeVars == <<cur, settled, tmp, fd, sf, at>>

Writing == {"create", "write", "sync", "chmod", "rename", "cleanup"}
Ready == {"new", "idle", "ok", "failed"}

StoreTypeOK ==
  /\ cur \in File \cup {NoFile}
  /\ settled \in File \cup {NoFile}
  /\ tmp \in [Procs -> File \cup {NoFile}]
  /\ fd \in [Procs -> File \cup {NoFile}]
  /\ sf \in [Procs -> Values \cup {Missing, Torn}]
  /\ at \in [Procs -> Ready \cup {"reading", "died"} \cup Writing]

Content(f) == IF f = NoFile THEN Missing ELSE f.data

\* state.json as a Write leaves it: complete, on the disk, with mode 0644.
Whole(v) == [data |-> v, synced |-> TRUE, shared |-> TRUE]

StoreInit ==
  /\ cur \in {NoFile} \cup {Whole(v) : v \in Values}
  /\ settled = cur
  /\ tmp = [p \in Procs |-> NoFile]
  /\ fd = [p \in Procs |-> NoFile]
  /\ sf = [p \in Procs |-> Missing]
  /\ at = [p \in Procs |-> "new"]

Step(p, from, to) == at[p] = from /\ at' = [at EXCEPT ![p] = to]

-----------------------------------------------------------------------------
(* Read. *)

\* os.ReadFile opens the path, or finds nothing there.
Open(p) ==
  /\ at[p] \in Ready
  /\ at' = [at EXCEPT ![p] = "reading"]
  /\ fd' = [fd EXCEPT ![p] = cur]
  /\ UNCHANGED <<cur, settled, tmp, sf>>

\* ... and reads it to its end; Unmarshal refuses what is torn.
ReadAll(p) ==
  /\ Step(p, "reading", "idle")
  /\ sf' = [sf EXCEPT ![p] = Content(fd[p])]
  /\ fd' = [fd EXCEPT ![p] = NoFile]
  /\ UNCHANGED <<cur, settled, tmp>>

\* A file that exists cannot be opened, read or parsed: EACCES, EIO, or a hand
\* that has damaged it.
ReadFails(p) ==
  /\ Step(p, "reading", "idle")
  /\ fd[p] # NoFile
  /\ sf' = [sf EXCEPT ![p] = Torn]
  /\ fd' = [fd EXCEPT ![p] = NoFile]
  /\ UNCHANGED <<cur, settled, tmp>>

-----------------------------------------------------------------------------
(* Write. *)

\* Write(v) is called and v is marshalled.
Call(p, v) ==
  /\ at[p] \in Ready
  /\ at' = [at EXCEPT ![p] = "create"]
  /\ sf' = [sf EXCEPT ![p] = v]
  /\ UNCHANGED <<cur, settled, tmp, fd>>

\* Mutant of CreateTemp: state.json itself is opened and truncated.
CreateInPlace(p) ==
  /\ Step(p, "create", "write")
  /\ tmp' = [tmp EXCEPT ![p] = [data |-> Torn, synced |-> FALSE, shared |-> FALSE]]
  /\ cur' = tmp'[p]
  /\ UNCHANGED <<settled, fd, sf>>

\* os.CreateTemp: empty, mode 0600.
CreateTemp(p) ==
  /\ Step(p, "create", "write")
  /\ tmp' = [tmp EXCEPT ![p] = [data |-> Torn, synced |-> FALSE, shared |-> FALSE]]
  /\ UNCHANGED <<cur, settled, fd, sf>>

\* MkdirAll or CreateTemp fails: there is no temporary file yet.
CreateFails(p) ==
  /\ Step(p, "create", "failed")
  /\ UNCHANGED <<cur, settled, tmp, fd, sf>>

\* Mutant of WriteData: the temporary file is not synced.
WriteDataUnsynced(p) ==
  /\ Step(p, "write", "chmod")
  /\ tmp' = [tmp EXCEPT ![p].data = sf[p]]
  /\ UNCHANGED <<cur, settled, fd, sf>>

WriteData(p) ==
  /\ Step(p, "write", "sync")
  /\ tmp' = [tmp EXCEPT ![p].data = sf[p]]
  /\ UNCHANGED <<cur, settled, fd, sf>>

\* Sync and Close.
Sync(p) ==
  /\ Step(p, "sync", "chmod")
  /\ tmp' = [tmp EXCEPT ![p].synced = TRUE]
  /\ UNCHANGED <<cur, settled, fd, sf>>

Chmod(p) ==
  /\ Step(p, "chmod", "rename")
  /\ tmp' = [tmp EXCEPT ![p].shared = TRUE]
  /\ UNCHANGED <<cur, settled, fd, sf>>

Rename(p) ==
  /\ Step(p, "rename", "ok")
  /\ cur' = tmp[p]
  /\ tmp' = [tmp EXCEPT ![p] = NoFile]
  /\ UNCHANGED <<settled, fd, sf>>

\* Mutant of CallFails: the deferred function does not run.
CallFailsOutright(p) ==
  /\ at[p] \in {"write", "sync", "chmod", "rename"}
  /\ at' = [at EXCEPT ![p] = "failed"]
  /\ UNCHANGED <<cur, settled, tmp, fd, sf>>

\* Write, Sync, Close, Chmod or Rename returns an error.
CallFails(p) ==
  /\ at[p] \in {"write", "sync", "chmod", "rename"}
  /\ at' = [at EXCEPT ![p] = "cleanup"]
  /\ UNCHANGED <<cur, settled, tmp, fd, sf>>

\* The deferred os.Remove of the temporary file.
Cleanup(p) ==
  /\ Step(p, "cleanup", "failed")
  /\ tmp' = [tmp EXCEPT ![p] = NoFile]
  /\ UNCHANGED <<cur, settled, fd, sf>>

Fails(p) == CreateFails(p) \/ CallFails(p)

WriteStep(p) ==
  CreateTemp(p) \/ WriteData(p) \/ Sync(p) \/ Chmod(p) \/ Rename(p) \/ Cleanup(p)

-----------------------------------------------------------------------------
(* Crashes. *)

\* The process dies and its memory with it; its temporary file stays.
Dies(p) ==
  /\ at' = [at EXCEPT ![p] = "died"]
  /\ fd' = [fd EXCEPT ![p] = NoFile]
  /\ sf' = [sf EXCEPT ![p] = Missing]
  /\ UNCHANGED <<cur, settled, tmp>>

\* The file system commits the directory to the disk, by itself: Write syncs
\* the file and not the directory.
CommitDir == settled' = cur /\ UNCHANGED <<cur, tmp, fd, sf, at>>

\* What is left of a file of which nothing, or not everything, was on the disk.
Remains(f) ==
  IF f = NoFile \/ f.synced THEN {f} ELSE {f, [f EXCEPT !.data = Torn]}

\* The power is cut: the name refers to the last file committed, unsynced data
\* may be gone, and every process is; others may be started later.
PowerLoss ==
  /\ \E f \in Remains(settled) : cur' = f /\ settled' = f
  /\ at' = [p \in Procs |-> IF at[p] = "new" THEN "new" ELSE "died"]
  /\ fd' = [p \in Procs |-> NoFile]
  /\ sf' = [p \in Procs |-> Missing]
  /\ UNCHANGED tmp

StoreNext ==
  \/ \E p \in Procs :
       \/ Open(p) \/ ReadAll(p) \/ ReadFails(p) \/ (\E v \in Values : Call(p, v))
       \/ WriteStep(p) \/ Fails(p) \/ Dies(p)
  \/ CommitDir \/ PowerLoss

StoreSpec == StoreInit /\ [][StoreNext]_storeVars

-----------------------------------------------------------------------------
(* The promise. *)

\* Read takes effect when it opens the file, unless it then fails, and Write when
\* it renames.
Register == INSTANCE LabRegister WITH
  Error <- Torn,
  value <- Content(cur),
  settled <- Content(settled),
  held <- [p \in Procs |-> IF at[p] = "reading" THEN Content(fd[p]) ELSE sf[p]],
  call <- [p \in Procs |-> IF at[p] \in Writing THEN "writing"
                           ELSE IF at[p] \in {"ok", "failed"} THEN at[p] ELSE "idle"]

\* state.json is an atomic register: no reader sees a partial content, no Write
\* takes effect before or after its call, in part or although it reported an
\* error, and none of this depends on who dies when (Write, store.go:138).
ImplementsRegister == Register!RegisterSpec

\* Every way out of Write, but death, leaves no temporary file behind (the
\* deferred os.Remove of store.go:166 and the rename).
NoTempAfterWrite ==
  \A p \in Procs : at[p] \in Ready \cup {"reading", "create"} => tmp[p] = NoFile

\* state.json is complete, on the disk and readable by all whenever the name is
\* there, and so is what a power cut would bring back.
PublishedIsWhole ==
  \A f \in {cur, settled} \ {NoFile} :
    f.data \in Values /\ f.synced /\ f.shared
=============================================================================
