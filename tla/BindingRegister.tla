-------------------------- MODULE BindingRegister --------------------------
(***************************************************************************)
(* What both fixture backends promise about submissions                    *)
(* (examples/hosted-fixture/README.md:26-29, examples/v1-backend/          *)
(* README.md:88-90), without saying how: a register per submission that is *)
(* written once.  A content is confirmed to a client when the register     *)
(* holds it for good; it is matched when the register holds it, perhaps    *)
(* not for good yet.  What is not there for good may be lost, and as long  *)
(* as the store that holds the registers is not anchored, all of it may.   *)
(***************************************************************************)
CONSTANTS None, Keys, Contents

VARIABLES
    stored,     \* what a read of a register finds
    lasting,    \* what is there for good, in a store that is
    anchored,   \* the store itself is there for good
    confirmed,
    matched

vars == <<stored, lasting, anchored, confirmed, matched>>

Init ==
    /\ stored = [k \in Keys |-> None]
    /\ lasting = stored
    /\ anchored \in BOOLEAN
    /\ confirmed = {}
    /\ matched = {}

(* A register is written only while it is empty. *)
Store(k, content) ==
    /\ stored[k] = None
    /\ stored' = [stored EXCEPT ![k] = content]
    /\ UNCHANGED <<lasting, anchored, confirmed, matched>>

(* The content is there for good, and perhaps that of other registers.     *)
Confirm(k, content) ==
    /\ stored[k] \in {None, content}
    /\ stored' = [stored EXCEPT ![k] = content]
    /\ \E synced \in SUBSET Keys :
          /\ k \in synced
          /\ lasting' = [l \in Keys |-> IF l \in synced THEN stored'[l] ELSE lasting[l]]
    /\ confirmed' = confirmed \cup {<<k, content>>}
    /\ UNCHANGED <<anchored, matched>>

(* The content was found. *)
Match(k, content) ==
    /\ stored[k] = content
    /\ matched' = matched \cup {<<k, content>>}
    /\ UNCHANGED <<stored, lasting, anchored, confirmed>>

(* A crash: every register keeps what it holds or what is there for good,  *)
(* and a store that a crash has left is anchored.                          *)
LoseSome ==
    /\ \E kept \in SUBSET Keys :
          stored' = [k \in Keys |-> IF k \in kept THEN stored[k] ELSE lasting[k]]
    /\ lasting' = stored'
    /\ anchored' = TRUE
    /\ UNCHANGED <<confirmed, matched>>

(* A crash that takes the store. *)
LoseStore ==
    /\ ~anchored
    /\ stored' = [k \in Keys |-> None]
    /\ lasting' = stored'
    /\ UNCHANGED <<anchored, confirmed, matched>>

Next ==
    \/ LoseSome \/ LoseStore
    \/ \E k \in Keys, content \in Contents :
          Store(k, content) \/ Confirm(k, content) \/ Match(k, content)

Spec == Init /\ [][Next]_vars
============================================================================
