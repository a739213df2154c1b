---------------------------- MODULE MCLabJournal ----------------------------
(* LabJournal for TLC: a history of three entries where two are kept. *)
EXTENDS LabJournal, TLC

CONSTANTS o1, o2, o3

MCOld == {o1, o2, o3}
MCInitials == {Missing, <<o1, o2, o3>>}
MCValues == {<<>>, <<o1, o2, o3>>} \cup {<<e>> : e \in MCOld \cup Procs}
              \cup {<<e, f>> : e, f \in MCOld \cup Procs}
MCSymmetry == Permutations(Procs)
=============================================================================
