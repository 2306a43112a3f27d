------------------------- MODULE MCCapabilityPath -------------------------
(* Constants for the model checking of CapabilityPath. *)
EXTENDS CapabilityPath

============================================================================
