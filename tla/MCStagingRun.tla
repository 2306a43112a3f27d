---------------------------- MODULE MCStagingRun ----------------------------
(* Constants for the model checking of StagingRun: a conformance scenario, *)
(* one of the external runner with two calls, and one that may follow it.  *)
EXTENDS StagingRun, TLC

CONSTANTS c, s, t

MCCalls == (c :> 1) @@ (s :> 2) @@ (t :> 0)
MCReads == (c :> 1) @@ (s :> 1) @@ (t :> 0)
=============================================================================
