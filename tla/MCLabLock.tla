------------------------------ MODULE MCLabLock ------------------------------
(* Model-checking instance of LabLock: three invocations, any of which may   *)
(* die at any step of Acquire or while it holds the lock.                    *)
EXTENDS LabLock
CONSTANTS p1, p2, p3, none

MCProcs == {p1, p2, p3}
=============================================================================
