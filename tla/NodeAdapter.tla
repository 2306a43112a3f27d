---------------------------- MODULE NodeAdapter ----------------------------
(***************************************************************************)
(* One HTTP request to the capability handler: on a fetch platform, which  *)
(* calls it directly, or through the Node wrapper                          *)
(* (packages/server/src/node.ts), which checks the raw envelope, hands the *)
(* disconnects of req and res on to the handler's signal, and writes what  *)
(* the handler answers.  The wrapper has a failure reporter of its own,    *)
(* with the same observer as the handler's.                                *)
(***************************************************************************)
EXTENDS CapabilityAdapter

VARIABLES
    platform,
    wrapper,         \* the await at which the wrapper is suspended
    responseClosed,  \* the response closed before it was written
    nodeDiagnostic,  \* None, or the phase the wrapper reported
    toWrite,         \* the Response that write() was called with
    served           \* None, or what was written

nodeVars == <<platform, wrapper, responseClosed, nodeDiagnostic, toWrite, served>>

Answers == {"granted", "denied", "disabled"}
NodePhases == {"configuration", "node_envelope"}

ASSUME NodeNoneAssumption == None \notin NodePhases

NodeTypeOK ==
    /\ platform \in {"fetch", "node"}
    /\ wrapper \in {"idle", "handling", "writing", "rejecting", "done"}
    /\ responseClosed \in BOOLEAN
    /\ nodeDiagnostic \in NodePhases \cup {None}
    /\ toWrite \in Answers \cup {None}
    /\ served \in Answers \cup {None}

NodeInit ==
    /\ Init
    /\ platform \in {"fetch", "node"}
    /\ platform = "node" => ~requestAborted
    /\ wrapper = "idle"
    /\ responseClosed = FALSE
    /\ nodeDiagnostic = None
    /\ toWrite = None
    /\ served = None
----------------------------------------------------------------------------
FetchInvokes == platform = "fetch" /\ Invoke /\ UNCHANGED nodeVars
FetchAborts == platform = "fetch" /\ RequestAborts /\ UNCHANGED nodeVars

NodeReport(p) == nodeDiagnostic' = IF nodeDiagnostic = None THEN p ELSE nodeDiagnostic

WriteNext(state, response) == wrapper' = state /\ toWrite' = response

NodeDisabled ==
    /\ platform = "node" /\ wrapper = "idle"
    /\ ~options.enabled
    /\ NodeReport("configuration")
    /\ WriteNext("writing", "disabled")
    /\ UNCHANGED <<vars, platform, responseClosed, served>>

(* A header sent twice, another route, or a body that was touched. *)
NodeRefuses ==
    /\ platform = "node" /\ wrapper = "idle"
    /\ options.enabled
    /\ NodeReport("node_envelope")
    /\ WriteNext("rejecting", "denied")
    /\ UNCHANGED <<vars, platform, responseClosed, served>>

NodeInvokes ==
    /\ platform = "node" /\ wrapper = "idle"
    /\ InvokeOpen
    /\ wrapper' = "handling"
    /\ UNCHANGED <<platform, responseClosed, nodeDiagnostic, toWrite, served>>

(* req's `aborted' and res's `close', while the wrapper listens. *)
Disconnect ==
    /\ platform = "node"
    /\ wrapper \in {"handling", "writing", "rejecting"}
    /\ \/ RequestAborts /\ responseClosed' \in {responseClosed, TRUE}
       \/ ~responseClosed /\ responseClosed' = TRUE /\ requestAborted /\ UNCHANGED vars
    /\ UNCHANGED <<platform, wrapper, nodeDiagnostic, toWrite, served>>

HandlerSteps ==
    /\ DeadlineFires \/ Settle \/ Exchange
    /\ UNCHANGED nodeVars

HandlerAnswers ==
    /\ wrapper = "handling"
    /\ answer # None
    /\ WriteNext("writing", answer)
    /\ UNCHANGED <<vars, platform, responseClosed, nodeDiagnostic, served>>

(* Mutant: the response is not looked at after the await of line 29. *)
WriteAnyway ==
    /\ wrapper \in {"writing", "rejecting"}
    /\ wrapper' = "done" /\ served' = toWrite
    /\ UNCHANGED <<vars, platform, responseClosed, nodeDiagnostic, toWrite>>

(* write() after its await: a response that was closed, or that other code *)
(* ended, is left alone.                                                   *)
Write ==
    /\ wrapper \in {"writing", "rejecting"}
    /\ wrapper' = "done"
    /\ \/ served' = served
       \/ ~responseClosed /\ served' = toWrite
    /\ UNCHANGED <<vars, platform, responseClosed, nodeDiagnostic, toWrite>>

(* Writing throws, when other code has sent headers: the catch block       *)
(* reports it and writes the fixed failure, which may throw again.         *)
WriteThrows ==
    /\ wrapper \in {"writing", "rejecting"}
    /\ IF wrapper = "writing"
       THEN NodeReport("node_envelope") /\ WriteNext("rejecting", "denied")
       ELSE wrapper' = "done" /\ UNCHANGED <<nodeDiagnostic, toWrite>>
    /\ UNCHANGED <<vars, platform, responseClosed, served>>
----------------------------------------------------------------------------
Receive == FetchInvokes \/ NodeDisabled \/ NodeRefuses \/ NodeInvokes

Finish == HandlerAnswers \/ Write \/ WriteThrows

NodeNext == Receive \/ FetchAborts \/ Disconnect \/ HandlerSteps \/ Finish

NodeSpec == NodeInit /\ [][NodeNext]_<<vars, nodeVars>>

(* What the client of the request gets, or None. *)
ServedAnswer == IF platform = "fetch" THEN answer ELSE served
----------------------------------------------------------------------------
(* Nothing is written to a response that was closed, nor twice; a          *)
(* capability only when the handler granted it; and a failure only after   *)
(* an event was reported, by the handler or by the wrapper, never by both  *)
(* unless the handler's answer could not be written (node.ts:28-34, 73-75). *)
ServedAsDecided ==
    [][served' # served =>
          /\ served = None /\ ~responseClosed
          /\ served' = "granted" => answer = "granted" /\ nodeDiagnostic = None
          /\ served' = "denied" => diagnostic # None \/ nodeDiagnostic # None
          /\ diagnostic # None /\ nodeDiagnostic # None => wrapper = "rejecting" /\ answer # None
      ]_nodeVars

(* The request was ended by the wrapper before the handler saw it. *)
RefusedByNode == winner = None /\ nodeDiagnostic # None

(* What the handler and its wrapper promise a request. *)
NodePromise == INSTANCE BoundedAnswer WITH
    contacted <- issuerContacted,
    closed <- aborted,
    verdict <- IF RefusedByNode \/ winner = "disabled" THEN "denied" ELSE winner,
    answer <- IF RefusedByNode
              THEN IF wrapper = "done" THEN "denied" ELSE None
              ELSE IF answer = "disabled" THEN "denied" ELSE answer
============================================================================
