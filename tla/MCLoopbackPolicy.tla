-------------------------- MODULE MCLoopbackPolicy --------------------------
(* Constants for the model checking of LoopbackPolicy. *)
EXTENDS LoopbackPolicy, TLC

(* Instances and digests are interchangeable, and so are jobs when all of  *)
(* them or none may lose their connection.                                 *)
Symmetry == Permutations(Instances) \cup Permutations(Digests) \cup Permutations(Requests)
            \cup Permutations(Sessions)
============================================================================
