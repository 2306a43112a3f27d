-------------------------- MODULE MCOptInExchange --------------------------
(* Constants for the model checking of OptInExchange. *)
EXTENDS OptInExchange

(* The server's clock agrees with the service's, or differs by as much as  *)
(* the allowance, or by more.                                              *)
MCOffsets == -2 .. 2
============================================================================
