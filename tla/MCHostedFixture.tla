-------------------------- MODULE MCHostedFixture --------------------------
(* Constants for the model checking of HostedFixture. *)
EXTENDS HostedFixture, TLC

(* Requests, submissions and digests are interchangeable. *)
Symmetry ==
    Permutations(Sessions) \cup Permutations(Requests) \cup Permutations(Submissions) \cup Permutations(Digests)

(* Every request is of the same session: which one makes no difference.    *)
SameSessionInit ==
    /\ Init
    /\ \A r \in Requests : request[r].session = CHOOSE s \in Sessions : TRUE

SameSessionSpec == SameSessionInit /\ [][Next]_vars /\ Fairness
============================================================================
