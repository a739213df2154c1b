---------------------------- MODULE LabRegister -----------------------------
(***************************************************************************)
(* What state.Store promises of state.json (store.go:134,                  *)
(* control-plane-contract 6.2): an atomic register.  A Read returns the     *)
(* value of the register at one instant, or an error that says nothing of   *)
(* the value; a Write that returns nil has taken                           *)
(* effect at one instant, one that returns an error has not; a process that *)
(* dies forgets what it held.  A power cut takes the register back to a     *)
(* value it has had, the settled one: a Write is not promised to be durable *)
(* when it returns.                                                        *)
(***************************************************************************)
CONSTANTS
  Procs,     \* the processes that use the register
  Values,    \* what can be written
  Missing,   \* no file: what a Read finds before the first Write; not a value
  Error      \* what a Read has that fails; not a value

VARIABLES
  value,     \* what a Read returns
  settled,   \* what a power cut leaves
  held,      \* held[p]: the value p has read or is about to write
  call       \* call[p]: the Write of p, or how its last one ended

registerVars == <<value, settled, held, call>>

RegisterTypeOK ==
  /\ value \in Values \cup {Missing}
  /\ settled \in Values \cup {Missing}
  /\ held \in [Procs -> Values \cup {Missing, Error}]
  /\ call \in [Procs -> {"idle", "writing", "ok", "failed"}]

RegisterInit ==
  /\ value \in Values \cup {Missing}
  /\ settled = value
  /\ held = [p \in Procs |-> Missing]
  /\ call = [p \in Procs |-> "idle"]

Read(p) ==
  /\ call[p] # "writing"
  /\ call' = [call EXCEPT ![p] = "idle"]
  /\ held' = [held EXCEPT ![p] = value]
  /\ UNCHANGED <<value, settled>>

ReadFails(p) ==
  /\ call[p] # "writing"
  /\ call' = [call EXCEPT ![p] = "idle"]
  /\ held' = [held EXCEPT ![p] = Error]
  /\ UNCHANGED <<value, settled>>

Invoke(p) ==
  /\ call[p] # "writing"
  /\ call' = [call EXCEPT ![p] = "writing"]
  /\ \E v \in Values : held' = [held EXCEPT ![p] = v]
  /\ UNCHANGED <<value, settled>>

Succeed(p) ==
  /\ call[p] = "writing"
  /\ value' = held[p]
  /\ call' = [call EXCEPT ![p] = "ok"]
  /\ UNCHANGED <<settled, held>>

Fail(p) ==
  /\ call[p] = "writing"
  /\ call' = [call EXCEPT ![p] = "failed"]
  /\ UNCHANGED <<value, settled, held>>

Forget(p) ==
  /\ call' = [call EXCEPT ![p] = "idle"]
  /\ held' = [held EXCEPT ![p] = Missing]
  /\ UNCHANGED <<value, settled>>

Settle == settled' = value /\ UNCHANGED <<value, held, call>>

PowerCut ==
  /\ value' = settled
  /\ call' = [p \in Procs |-> "idle"]
  /\ held' = [p \in Procs |-> Missing]
  /\ UNCHANGED settled

RegisterNext ==
  \/ \E p \in Procs :
       Read(p) \/ ReadFails(p) \/ Invoke(p) \/ Succeed(p) \/ Fail(p) \/ Forget(p)
  \/ Settle \/ PowerCut

RegisterSpec == RegisterInit /\ [][RegisterNext]_registerVars
=============================================================================
