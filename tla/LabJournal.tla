----------------------------- MODULE LabJournal -----------------------------
(***************************************************************************)
(* What the control plane writes down: the history in state.json and the    *)
(* audit log.  The commands of cmd/ and the interrupt handler of app.go are *)
(* modelled by what they do to the two records and by the order in which    *)
(* they do it: executor operation, its entry (real.go), Write of the         *)
(* state, entry of the transition.  state.json is LabStore's, call by call; *)
(* LabControl has the classification it holds, LabLock the lock, of which    *)
(* only this is left here: another process may get it while one holds it.    *)
(*                                                                         *)
(* A process runs one command.  In the history a transition is named by the *)
(* process that made it; the entries found at the beginning are in Old.      *)
(***************************************************************************)
EXTENDS LabStore, Naturals, Sequences, FiniteSets

CONSTANTS
  Old,         \* entries of the history made before
  Initials,    \* what state.json may hold at the beginning, or Missing
  HistoryMax,  \* HistoryMaxEntries
  MaxOps,      \* bound: executor operations of one command
  MaxTrouble   \* bound: failing calls and crashes, and one for a theft of the lock

\* The last n entries of h.
Kept(h, n) == IF Len(h) > n THEN SubSeq(h, Len(h) - n + 1, Len(h)) ELSE h

Mutating == {"apply", "reset", "provision"}
Commands == Mutating \cup {"status", "validate", "interrupt"}

ASSUME JournalAssumption ==
  /\ Values \subseteq Seq(Old \cup Procs) /\ <<>> \in Values
  /\ \A h \in Values, p \in Procs : Kept(Append(h, p), HistoryMax) \in Values
  /\ Initials \subseteq Values \cup {Missing}
  /\ HistoryMax \in Nat \ {0} /\ MaxOps \in Nat \ {0} /\ MaxTrouble \in Nat

VARIABLES
  cmd,       \* cmd[p]: what p runs
  pc,        \* pc[p]: its next step
  holders,   \* the processes that Acquire has let in and that have not released
  host,      \* the executor operations that have been carried out, in order
  audit,     \* the lines of audit.log
  ragged,    \* its last line has no newline yet
  recorded,  \* ghost: the transitions written since the last provision, in order
  committed, \* ghost: the processes whose transition was written
  behind,    \* ghost: processes that have not read the last transition
  blind,     \* ghost: processes whose Read of a file that exists has failed
  erased,    \* ghost: a write or a power cut has undone a transition
  stolen,    \* ghost: the lock of a process that held it has been taken away
  blackout,  \* ghost: the power has been cut
  trouble    \* failing calls and crashes so far

commandVars == <<cmd, pc, holders>>
auditVars == <<audit, ragged>>
ghostVars == <<recorded, committed, behind, blind, erased, stolen, blackout>>
vars == <<storeVars, commandVars, host, auditVars, ghostVars, trouble>>

Labels == {"new", "lock", "read", "operate", "logop", "record", "write", "log",
           "error", "invalidate", "rewrite", "rewriting", "release", "done", "dead"}

Entry == [kind : {"op", "transition", "run", "reconciliation", "interrupt", "error"},
          by : Procs, n : Nat]
Garbled == [kind |-> "garbled"]

TypeOK ==
  /\ StoreTypeOK
  /\ cmd \in [Procs -> Commands \cup {"none"}]
  /\ pc \in [Procs -> Labels]
  /\ holders \subseteq Procs
  /\ host \in Seq(Entry)
  /\ audit \in Seq(Entry \cup {Garbled}) /\ ragged \in BOOLEAN
  /\ recorded \in Seq(Old \cup Procs)
  /\ committed \subseteq Procs /\ behind \subseteq Procs /\ blind \subseteq Procs
  /\ erased \in BOOLEAN /\ stolen \in BOOLEAN /\ blackout \in BOOLEAN
  /\ trouble \in 0..MaxTrouble

Init ==
  /\ StoreInit /\ Content(cur) \in Initials
  /\ cmd = [p \in Procs |-> "none"]
  /\ pc = [p \in Procs |-> "new"]
  /\ holders = {}
  /\ host = <<>> /\ audit = <<>> /\ ragged = FALSE
  /\ recorded = IF cur = NoFile THEN <<>> ELSE cur.data
  /\ committed = {} /\ behind = {} /\ blind = {}
  /\ erased = FALSE /\ stolen = FALSE /\ blackout = FALSE
  /\ trouble = 0

-----------------------------------------------------------------------------
Elements(s) == {s[i] : i \in DOMAIN s}
Goto(p, l) == pc' = [pc EXCEPT ![p] = l]
Moves(p, from, to) == pc[p] = from /\ Goto(p, to)
\* A failing call or a crash; a bound.
Trouble ==
  /\ trouble + (IF stolen THEN 1 ELSE 0) < MaxTrouble
  /\ trouble' = trouble + 1

\* Mutant of Newest: off by one.
OneMore(h) == Kept(h, IF Len(h) > HistoryMax THEN HistoryMax + 1 ELSE HistoryMax)

\* Mutant of Newest: the first entries are kept.
Oldest(h) == IF Len(h) > HistoryMax THEN SubSeq(h, 1, HistoryMax) ELSE h

\* AppendHistory drops entries from the front; the file may have had too many.
Newest(h) == Kept(h, HistoryMax)

\* The entry of the n-th operation, or the one entry of its kind, of p.
Line(kind, p, n) == [kind |-> kind, by |-> p, n |-> n]
OpsOf(p) == Cardinality({i \in DOMAIN host : host[i].by = p})

\* Mutant of Append1: the file is truncated when it is opened.
AppendTruncating(e) == audit' = <<e>> /\ ragged' = FALSE /\ UNCHANGED trouble

\* append, under O_APPEND and in one call of Write.  A line that was cut short
\* swallows the next one.  Errors are only printed.
Append1(e) ==
  \/ /\ audit' = IF ragged THEN audit ELSE Append(audit, e)
     /\ ragged' = FALSE
     /\ UNCHANGED trouble
  \/ UNCHANGED auditVars /\ Trouble
  \/ /\ audit' = IF ragged THEN audit ELSE Append(audit, Garbled)
     /\ ragged' = TRUE
     /\ Trouble

CommandOnly == UNCHANGED <<storeVars, host, auditVars, ghostVars, trouble>>

-----------------------------------------------------------------------------
(* Starting, locking, ending. *)

\* apply may be given an unknown fault.
Start(p, c) ==
  /\ pc[p] = "new"
  /\ \E l \in CASE c = "apply" -> {"lock", "error"}
                [] c \in {"reset", "provision"} -> {"lock"}
                [] OTHER -> {"read"} : Goto(p, l)
  /\ cmd' = [cmd EXCEPT ![p] = c]
  /\ UNCHANGED holders /\ CommandOnly

\* Acquire lets p in.  status logs first what it is going to reconcile.
Locked(p) ==
  /\ pc[p] = "lock"
  /\ holders' = holders \cup {p}
  /\ \E l \in CASE cmd[p] = "provision" -> {"operate"}
                [] cmd[p] = "status" -> {"log", "record"}
                [] OTHER -> {"read"} : Goto(p, l)
  /\ UNCHANGED cmd

\* Mutant of Lock: the commands do not wait for each other.
LockShared(p) == Locked(p) /\ CommandOnly

Lock(p) == holders = {} /\ Locked(p) /\ CommandOnly

\* Acquire lets p in beside another: it removes the lock file of a process that
\* runs, which it finds empty, or cannot read, or judges by a PID read before (run
\* lock_exclusion); or one whose lock was so taken has released that of the thief.
Steal(p) ==
  /\ holders # {} /\ Locked(p)
  /\ trouble < MaxTrouble
  /\ stolen' = TRUE
  /\ UNCHANGED <<storeVars, host, auditVars, trouble>>
  /\ UNCHANGED <<recorded, committed, behind, blind, erased, blackout>>

\* Only apply says so in the log.
Denied(p) ==
  /\ holders # {}
  /\ Moves(p, "lock", IF cmd[p] = "apply" THEN "error" ELSE "done")
  /\ UNCHANGED <<cmd, holders>> /\ CommandOnly

\* Who has not been let in has nothing to release.
Release(p) ==
  /\ Moves(p, "release", "done")
  /\ holders' = holders \ {p}
  /\ UNCHANGED cmd /\ CommandOnly

\* A crash, or os.Exit in the handler; the lock of the dead is stale.
Crash(p) ==
  /\ pc[p] \notin {"new", "done", "dead"}
  /\ Goto(p, "dead")
  /\ holders' = holders \ {p}
  /\ Dies(p) /\ Trouble
  /\ UNCHANGED <<cmd, host, auditVars, ghostVars>>

\* The audit log is not synced: a power cut may take its last lines.
PowerFails ==
  /\ PowerLoss /\ Trouble
  /\ pc' = [p \in Procs |-> IF pc[p] \in {"new", "done"} THEN pc[p] ELSE "dead"]
  /\ holders' = {}
  /\ \E k \in 0..Len(audit) : audit' = SubSeq(audit, 1, k)
  /\ ragged' \in {FALSE, ragged /\ audit' = audit}
  /\ erased' = (erased \/ Content(cur') # Content(cur))
  /\ blackout' = TRUE
  /\ UNCHANGED <<cmd, host, recorded, committed, behind, blind, stolen>>

-----------------------------------------------------------------------------
(* Reading state.json. *)

OpenState(p) ==
  /\ pc[p] \in {"read", "invalidate"}
  /\ Open(p)
  /\ behind' = behind \ {p} /\ blind' = blind \ {p}
  /\ UNCHANGED <<commandVars, host, auditVars, recorded, committed, erased, stolen, blackout,
                 trouble>>

\* Apply needs a file, and its preconditions; reset does without one, and may
\* find nothing to do; status writes a new one, and may find nothing to write;
\* validate and the handler (InvalidateClassification) need one for their Write.
Found(p, readable) ==
  IF pc[p] = "invalidate" THEN {IF readable THEN "rewrite" ELSE "release"}
  ELSE CASE cmd[p] = "apply" -> IF readable THEN {"operate", "error", "release"} ELSE {"error"}
         [] cmd[p] = "reset" -> IF readable THEN {"operate", "release"} ELSE {"operate"}
         [] cmd[p] = "status" -> IF readable THEN {"lock", "done"} ELSE {"record"}
         [] OTHER -> {IF readable THEN "record" ELSE "log"}

ReadState(p) ==
  /\ ReadAll(p)
  /\ \E l \in Found(p, sf'[p] \in Values) : Goto(p, l)
  /\ UNCHANGED <<cmd, holders, host, auditVars, ghostVars, trouble>>

\* Apply gives up, but reset starts a new file and so does status: the history is
\* gone when they write it.
ReadStateFails(p) ==
  /\ ReadFails(p) /\ Trouble
  /\ \E l \in Found(p, FALSE) : Goto(p, l)
  /\ blind' = blind \cup {p}
  /\ UNCHANGED <<cmd, holders, host, auditVars, recorded, committed, behind, erased, stolen,
                 blackout>>

-----------------------------------------------------------------------------
(* Executor operations. *)

\* An operation is carried out, or fails after some of its effect.
Operate(p) ==
  /\ OpsOf(p) < MaxOps
  /\ Moves(p, "operate", "logop")
  /\ host' = Append(host, Line("op", p, OpsOf(p) + 1))
  /\ UNCHANGED <<storeVars, cmd, holders, auditVars, ghostVars, trouble>>

\* nginx -t finds an error: NginxReload returns it and logs nothing.
Refused(p) ==
  /\ cmd[p] # "provision" /\ Moves(p, "operate", "error")
  /\ Trouble
  /\ UNCHANGED <<storeVars, cmd, holders, host, auditVars, ghostVars>>

\* The entry, with the result; then the next operation, the record of a success,
\* or the error path.  provision has one operation, and its error no entry.
LogOp(p) ==
  /\ pc[p] = "logop"
  /\ Append1(Line("op", p, OpsOf(p)))
  /\ \E l \in IF cmd[p] = "provision" THEN {"record", "release"}
               ELSE {"operate", "record", "error"} : Goto(p, l)
  /\ UNCHANGED <<storeVars, cmd, holders, host, ghostVars>>

-----------------------------------------------------------------------------
(* Writing state.json. *)

\* The history in what p writes: with its transition, or the one it has read.
\* provision starts a new one, and so does a reset that could not read the file.
NewHistory(p) ==
  LET read == IF sf[p] \in Values THEN sf[p] ELSE <<>>
  IN IF pc[p] = "rewrite" \/ cmd[p] \notin Mutating THEN read
     ELSE Newest(Append(IF cmd[p] = "provision" THEN <<>> ELSE read, p))

Record(p) ==
  /\ pc[p] \in {"record", "rewrite"}
  /\ Goto(p, IF pc[p] = "record" THEN "write" ELSE "rewriting")
  /\ Call(p, NewHistory(p))
  /\ UNCHANGED <<cmd, holders, host, auditVars, ghostVars, trouble>>

\* Mutant of AfterWrite: apply ignores the error, as reset does.
AfterWriteAnyhow(p, ok) ==
  IF pc[p] = "rewriting" \/ cmd[p] \in {"provision", "status"} THEN "release" ELSE "log"

\* Only apply looks at the error of its Write: it logs it and invalidates the
\* classification.  provision, and status after the Write, log nothing.
AfterWrite(p, ok) ==
  IF pc[p] = "rewriting" \/ cmd[p] \in {"provision", "status"} THEN "release"
  ELSE IF cmd[p] = "apply" /\ ~ok THEN "error" ELSE "log"

\* What the Rename does to the history, for the properties.
Published(p) ==
  IF at'[p] # "ok" THEN UNCHANGED ghostVars
  ELSE IF pc[p] = "rewriting" \/ cmd[p] \notin Mutating
       THEN /\ erased' = (erased \/ p \in behind \cup blind)
            /\ UNCHANGED <<recorded, committed, behind, blind, stolen, blackout>>
       ELSE /\ recorded' = IF cmd[p] = "provision" THEN <<p>> ELSE Append(recorded, p)
            /\ committed' = committed \cup {p}
            /\ behind' = Procs \ {p}
            /\ erased' = (erased \/ p \in blind)
            /\ UNCHANGED <<blind, stolen, blackout>>

WriteCall(p) ==
  /\ pc[p] \in {"write", "rewriting"}
  /\ \/ WriteStep(p) /\ UNCHANGED trouble
     \/ Fails(p) /\ Trouble
  /\ IF at'[p] \in {"ok", "failed"} THEN Goto(p, AfterWrite(p, at'[p] = "ok"))
     ELSE UNCHANGED pc
  /\ Published(p)
  /\ UNCHANGED <<cmd, holders, host, auditVars>>

Kind(c) ==
  CASE c \in Mutating -> "transition" [] c = "validate" -> "run"
    [] c = "status" -> "reconciliation" [] OTHER -> "interrupt"

\* status logs the reconciliation before it writes it.
Log(p) ==
  /\ Moves(p, "log", IF cmd[p] = "status" THEN "record" ELSE "release")
  /\ Append1(Line(Kind(cmd[p]), p, 1))
  /\ UNCHANGED <<storeVars, cmd, holders, host, ghostVars>>

LogError(p) ==
  /\ Moves(p, "error", IF at[p] = "failed" THEN "invalidate" ELSE "release")
  /\ Append1(Line("error", p, 1))
  /\ UNCHANGED <<storeVars, cmd, holders, host, ghostVars>>

-----------------------------------------------------------------------------
Run(p) ==
  \/ \E c \in Commands : Start(p, c)
  \/ Lock(p) \/ Steal(p) \/ Denied(p) \/ Release(p)
  \/ OpenState(p) \/ ReadState(p) \/ ReadStateFails(p)
  \/ Operate(p) \/ Refused(p) \/ LogOp(p)
  \/ Record(p) \/ WriteCall(p) \/ Log(p) \/ LogError(p)

World ==
  \/ \E p \in Procs : Crash(p)
  \/ PowerFails
  \/ CommitDir /\ UNCHANGED <<commandVars, host, auditVars, ghostVars, trouble>>

Next == (\E p \in Procs : Run(p)) \/ World

Spec == Init /\ [][Next]_vars

-----------------------------------------------------------------------------
(* The history. *)

\* The history in state.json is the newest HistoryMax transitions since the last
\* provision, in the order of their Renames, also if the file had more entries
\* than that (AppendHistory, store.go:203) and whoever rewrites the file
\* meanwhile, as long as the lock excludes.  A rewrite with a copy read before the
\* last transition, by validate, status or the handler, takes that one away, and
\* the new file that reset or status writes after a Read that failed all of them
\* (erased).
HistoryIsNewest ==
  ~erased /\ ~stolen /\ cur # NoFile =>
    LET h == cur.data
        lost == Len(recorded) - Len(h)
    IN /\ \A i \in DOMAIN h : h[i] = recorded[lost + i]
       /\ lost > 0 => Len(h) = HistoryMax
       /\ committed # {} => Len(h) <= HistoryMax

-----------------------------------------------------------------------------
(* The audit log. *)

Positions(kind, p) == {i \in DOMAIN audit : audit[i].kind = kind /\ audit[i].by = p}

\* A transition in the log is one in state.json, although Write and LogTransition
\* are two steps (fault.go:250, reset.go:128); reset logs it also after a failed
\* Write.
TransitionLinesAreTrue ==
  \A p \in Procs :
    Positions("transition", p) # {} =>
      p \in committed \/ (cmd[p] = "reset" /\ trouble > 0)

\* The operations in the log are in the order in which they were carried out, for
\* all commands together (control-plane-contract 7.4), as long as the lock excludes:
\* operation and entry are two steps, and a thief may come between them.
AuditOrder ==
  ~stolen =>
    \A i, j \in DOMAIN audit :
      i < j /\ audit[i].kind = "op" /\ audit[j].kind = "op" =>
        \E k, l \in DOMAIN host : k < l /\ host[k] = audit[i] /\ host[l] = audit[j]

\* Operations that ought to be in the log and are not.  The entry of an operation
\* is written after it (real.go:159), not before (audit.go:60).
UnloggedOps ==
  {e \in Elements(host) : /\ e \notin Elements(audit)
                          /\ ~(pc[e.by] = "logop" /\ e.n = OpsOf(e.by))}

\* Commands whose transition is in state.json and ought to be in the log.
UnloggedTransitions ==
  {p \in committed : cmd[p] # "provision" /\ pc[p] # "log" /\ Positions("transition", p) = {}}

Unlogged == UnloggedOps \cup {Line("transition", p, 1) : p \in UnloggedTransitions}

\* The audit log accounts for every change made: a failing append or a crash costs
\* one entry, one that is cut short the next one too.
AuditAccountsForChanges == ~blackout => Cardinality(Unlogged) <= 2 * trouble
=============================================================================
