--------------------------- MODULE CapabilityPath ---------------------------
(***************************************************************************)
(* The path of a capability: a page's call of its token provider           *)
(* (TokenProvider), the HTTP request it makes, and the capability handler  *)
(* that receives it (NodeAdapter, CapabilityAdapter).  The network may     *)
(* lose or delay either message, and a proxy may answer with a failure of  *)
(* its own.  When the page's call goes to one of the example backends, or  *)
(* sends nothing, the handler serves another client.                       *)
(***************************************************************************)
EXTENDS NodeAdapter

VARIABLES
    provider, signal, pagePc, pageAborted, pageTimer, pageListening, pageContacted,
    body, pageWinner, pageAnswer

pageVars == <<provider, signal, pagePc, pageAborted, pageTimer, pageListening,
              pageContacted, body, pageWinner, pageAnswer>>
pathVars == <<vars, nodeVars, pageVars>>

Page == INSTANCE TokenProvider WITH
    pc <- pagePc, aborted <- pageAborted, timer <- pageTimer,
    listening <- pageListening, contacted <- pageContacted,
    winner <- pageWinner, answer <- pageAnswer

PathTypeOK == TypeOK /\ NodeTypeOK /\ Page!TypeOK

PathInit == NodeInit /\ Page!Init
----------------------------------------------------------------------------
(* The page's request arrives, or another client's one. *)
ServerReceives ==
    /\ Receive
    /\ provider = "packaged" => pagePc \in {"fetch", "done"}
    /\ UNCHANGED pageVars

ServerGoesOn ==
    /\ FetchAborts \/ Disconnect \/ HandlerSteps \/ Finish
    /\ UNCHANGED pageVars

(* A response with status 200 and the headers of a capability is what the  *)
(* handler served.                                                         *)
PageSteps ==
    /\ Page!Next
    /\ provider = "packaged" /\ pagePc = "fetch" /\ pagePc' = "body"
           => ServedAnswer = "granted"
    /\ UNCHANGED <<vars, nodeVars>>

PathNext == ServerReceives \/ ServerGoesOn \/ PageSteps

PathSpec == PathInit /\ [][PathNext]_pathVars

(* Both event loops run what is due: the call, the reactions of a decided  *)
(* race, a timer and the write of an answer; and the handler's request     *)
(* does arrive.  Nothing is assumed of the network once it is sent, of the *)
(* customer's policy, of the issuer or of a body.                          *)
PathFairSpec ==
    /\ PathSpec
    /\ WF_pathVars(PageSteps /\ Page!Begin)
    /\ WF_pathVars(PageSteps /\ Page!DeadlineFires)
    /\ WF_pathVars(PageSteps /\ Page!Settle)
    /\ WF_pathVars(ServerReceives)
    /\ WF_pathVars(ServerGoesOn /\ (DeadlineFires \/ Settle \/ Finish))
----------------------------------------------------------------------------
(* The handler grants what it has earned; and a page's capability is whole: *)
(* it was read to its end, before the 25 s deadline, and when the packaged  *)
(* provider got it from the handler, the handler served it, so the policy   *)
(* allowed the binding and the issuer's response was read to its end.       *)
CapabilityIsEarned ==
    /\ GrantIsEarned
    /\ pageWinner = "granted" =>
           /\ Page!GrantIsWhole
           /\ provider = "packaged" => ServedAnswer = "granted" /\ winner = "granted"

(* See TokenProvider. *)
PageHoldsNothing == Page!NothingHeldAfterAnswer

(* The handler and its wrapper implement BoundedAnswer: every request is   *)
(* answered, whatever its dependencies do (docs/adapter.md:99-101).        *)
KeepsPromise == NodePromise!FairSpec

(* So does a page's call, as to its safety; and it is answered when its    *)
(* provider has a deadline (token-provider.ts:83-88): the opt-in example's *)
(* has none, and waits for its backend.                                    *)
PageKeepsPromise ==
    /\ Page!Promise!Spec
    /\ provider # "optIn" ~> pageAnswer # None
============================================================================
