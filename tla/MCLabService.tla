---------------------------- MODULE MCLabService ----------------------------
(* Model-checking instance of LabService: no chaos, or requests dropped and  *)
(* delayed and SIGTERM ignored.                                              *)
EXTENDS LabService

MCModeSets == {{}, {"drop", "latency", "nosigterm"}}
=============================================================================
