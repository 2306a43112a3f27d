------------------------ MODULE OptInExchange_proofs ------------------------
(***************************************************************************)
(* Theorems about OptInExchange, for every length of the seal, of the      *)
(* intent, of the allowance and of a capability that TimeAssumption        *)
(* admits, and for every behaviour of the server's wall clock.             *)
(***************************************************************************)
EXTENDS OptInExchange, TLAPS

(* TypeOK, in parts: the times, the handler's state and the exchange's. *)
TimeTypes ==
    /\ now \in Nat /\ offset \in Int
    /\ sentAt \in Times /\ reservedAt \in Times /\ admittedAt \in Times
    /\ settledAt \in Times
    /\ issuedAt \in Int \cup {None}

HandlerTypes ==
    /\ gone \in BOOLEAN
    /\ pc \in {"idle", "policy", "body", "exchange", "answered"}
    /\ requestBody \in {"untouched", "reading", "cancelled", "read"}
    /\ answer \in {None, "granted", "denied"}

ExchangeTypes ==
    /\ transport \in {"idle", "inFlight", "settled"}
    /\ payload \in {None, "own", "other"}
    /\ reader \in {"none", "reading", "cancelled", "ended"}
    /\ chunks \in BOOLEAN /\ pending \in BOOLEAN /\ aborted \in BOOLEAN
    /\ timer \in {"unset", "armed", "fired", "cleared"}
    /\ outcome \in Codes \cup {"granted", None}

StateTypes == HandlerTypes /\ ExchangeTypes

(* Before the exchange there is nothing to settle or to answer. *)
Unsent ==
    /\ sentAt = None /\ transport = "idle" /\ reader = "none"
    /\ ~pending /\ ~chunks
    /\ timer = "unset"

(* The cell of lifecycle is there until the exchange is settled, together  *)
(* with the timer that seals it; only then is there a body to read.        *)
CellInv ==
    /\ pc \in {"idle", "policy", "body"} => Unsent /\ outcome = None
    /\ sentAt = None => Unsent /\ outcome \in {None, "rejected_before_send"}
    /\ sentAt # None => issuedAt # None
    /\ pending <=> timer = "armed"
    /\ pending => outcome = None /\ sentAt # None
    /\ ~pending => ~chunks
    /\ sentAt # None /\ outcome = None => pending
    /\ reader = "reading" => pending /\ transport = "settled"
    /\ transport = "inFlight" => reader = "none"
    /\ reader = "ended" => ~pending
    /\ outcome = "exchange_unconfirmed" => aborted
    /\ outcome = "rejected_before_send" => sentAt = None

(* The order of what happened at the service. *)
ServiceInv ==
    /\ sentAt # None => sentAt <= now
    /\ reservedAt # None => sentAt # None /\ sentAt <= reservedAt /\ reservedAt <= now
    /\ admittedAt # None => reservedAt # None /\ reservedAt <= admittedAt /\ admittedAt <= now
    /\ payload = "own" => admittedAt # None

GrantInv ==
    outcome = "granted" =>
        /\ payload = "own" /\ reader = "ended" /\ transport = "settled"
        /\ sentAt # None /\ settledAt # None
        /\ settledAt - sentAt < SEAL_MS

IInv == TimeTypes /\ StateTypes /\ CellInv /\ ServiceInv /\ GrantInv
-----------------------------------------------------------------------------
LEMMA TypesInTwo == TypeOK <=> TimeTypes /\ StateTypes
BY DEF TypeOK, TimeTypes, StateTypes, HandlerTypes, ExchangeTypes

LEMMA Initially == Init => IInv
<1> SUFFICES ASSUME Init PROVE IInv
  OBVIOUS
<1>1. TimeTypes
  BY TimeAssumption DEF Init, TimeTypes, Times
<1>2. StateTypes
  <2>1. /\ gone = FALSE /\ pc = "idle" /\ requestBody = "untouched"
        /\ transport = "idle" /\ payload = None /\ reader = "none"
        /\ chunks = FALSE /\ pending = FALSE /\ timer = "unset" /\ aborted = FALSE
        /\ outcome = None /\ answer = None
    BY DEF Init
  <2>2. HandlerTypes
    BY <2>1 DEF HandlerTypes
  <2>3. ExchangeTypes
    BY <2>1 DEF ExchangeTypes
  <2> QED
    BY <2>2, <2>3 DEF StateTypes
<1>3. CellInv
  BY NoneAssumption DEF Init, CellInv, Unsent, Codes
<1>4. ServiceInv /\ GrantInv
  BY NoneAssumption DEF Init, ServiceInv, GrantInv
<1> QED
  BY <1>1, <1>2, <1>3, <1>4 DEF IInv

LEMMA TimesStay ==
  ASSUME TimeTypes, [Next]_vars
  PROVE  TimeTypes'
<1> USE DEF TimeTypes, Times
<1>1. CASE Handler
  BY <1>1
  DEF Handler, RefuseEnvelope, AskPolicy, PolicyRefuses, PolicyAllows, BodyRejected,
      RejectBeforeSend, Send, Answer, clock, serviceVars, cell, wall
<1>2. CASE TransportFails \/ Received
  BY <1>2 DEF TransportFails, Received, Fail, Finish, clock, serviceVars, cell
<1>3. CASE ChunkArrives \/ ReadFails
  BY <1>3 DEF ChunkArrives, ReadFails, Fail, Finish, clock, serviceVars
<1>4. CASE BodyEnds
  BY <1>4 DEF BodyEnds, Fail, Finish, serviceVars
<1>5. CASE TimerFires
  BY <1>5 DEF TimerFires, clock, serviceVars
<1>6. CASE Disconnect \/ Reserve \/ Admit
  BY <1>6 DEF Disconnect, Reserve, Admit, clock, serviceVars, cell
<1>7. CASE Tick \/ SetClock
  <2>1. /\ now' \in {now, now + 1}
        /\ offset' = offset \/ offset' \in Offsets
    BY <1>7 DEF Tick, SetClock
  <2>2. UNCHANGED <<sentAt, reservedAt, admittedAt, settledAt, issuedAt>>
    BY <1>7 DEF Tick, SetClock, serviceVars, cell
  <2>3. now' \in Nat
    BY <2>1
  <2>4. offset' \in Int
    BY <2>1, TimeAssumption
  <2> QED
    BY <2>2, <2>3, <2>4
<1>8. CASE UNCHANGED vars
  BY <1>8 DEF vars, clock, serviceVars, cell
<1> QED
  BY <1>1, <1>2, <1>3, <1>4, <1>5, <1>6, <1>7, <1>8 DEF Next, Exchange

(* A step of the handler leaves the exchange alone, but where it begins or *)
(* is refused; and a step of the exchange leaves the handler alone.        *)
LEMMA HandlerStays ==
  ASSUME HandlerTypes, [Next]_vars
  PROVE  HandlerTypes'
<1> USE DEF HandlerTypes
<1>1. CASE RefuseEnvelope \/ AskPolicy \/ PolicyRefuses \/ PolicyAllows \/ BodyRejected
  BY <1>1 DEF RefuseEnvelope, AskPolicy, PolicyRefuses, PolicyAllows, BodyRejected, Deny
<1>2. CASE RejectBeforeSend \/ Send \/ Answer \/ Disconnect
  BY <1>2 DEF RejectBeforeSend, Send, Answer, Disconnect
<1>3. CASE UNCHANGED handlerVars
  BY <1>3 DEF handlerVars
<1> QED
  BY <1>1, <1>2, <1>3
  DEF Next, Handler, Exchange, TransportFails, Received, ChunkArrives, ReadFails, BodyEnds,
      TimerFires, Reserve, Admit, Tick, SetClock, vars

LEMMA ExchangeStays ==
  ASSUME ExchangeTypes, [Next]_vars
  PROVE  ExchangeTypes'
<1> USE DEF ExchangeTypes, Codes
<1>1. CASE UNCHANGED <<transport, payload, reader, cell>>
  BY <1>1 DEF cell
<1>2. CASE RejectBeforeSend \/ Send
  BY <1>2 DEF RejectBeforeSend, Send
<1>3. CASE TransportFails \/ Received
  BY <1>3 DEF TransportFails, Received, Fail, Finish, cell
<1>4. CASE ChunkArrives \/ ReadFails
  BY <1>4 DEF ChunkArrives, ReadFails, Fail, Finish, CancelReader
<1>5. CASE BodyEnds
  <2>1. Finish("granted", now') \/ Finish("exchange_unconfirmed", now')
    BY <1>5 DEF BodyEnds, Fail
  <2>2. reader' = "ended" /\ UNCHANGED <<transport, payload>>
    BY <1>5 DEF BodyEnds
  <2> QED
    BY <2>1, <2>2 DEF Finish
<1>6. CASE TimerFires
  BY <1>6 DEF TimerFires, CancelReader
<1> QED
  BY <1>1, <1>2, <1>3, <1>4, <1>5, <1>6
  DEF Next, Handler, Exchange, RefuseEnvelope, AskPolicy, PolicyRefuses, PolicyAllows,
      BodyRejected, Answer, Disconnect, Reserve, Admit, Tick, SetClock, vars

LEMMA CellStays == IInv /\ [Next]_vars => CellInv'
<1> SUFFICES ASSUME IInv, [Next]_vars PROVE CellInv'
  OBVIOUS
<1> USE NoneAssumption DEF IInv, StateTypes, ExchangeTypes, CellInv, Unsent, Codes
<1>1. CASE RefuseEnvelope \/ AskPolicy \/ PolicyRefuses \/ PolicyAllows \/ BodyRejected
  BY <1>1
  DEF RefuseEnvelope, AskPolicy, PolicyRefuses, PolicyAllows, BodyRejected, Deny, clock,
      serviceVars, cell
<1>2. CASE RejectBeforeSend
  BY <1>2 DEF RejectBeforeSend, clock, serviceVars
<1>3. CASE Send
  <2>1. sentAt' # None /\ issuedAt' # None
    BY <1>3 DEF Send, TimeTypes, wall
  <2> QED
    BY <1>3, <2>1 DEF Send, clock, serviceVars
<1>4. CASE Answer
  BY <1>4 DEF Answer, clock, serviceVars, cell
<1>5. CASE TransportFails
  BY <1>5 DEF TransportFails, Fail, Finish, clock, handlerVars, serviceVars, cell
<1>6. CASE Received
  BY <1>6 DEF Received, Fail, Finish, clock, handlerVars, serviceVars, cell
<1>7. CASE ChunkArrives
  BY <1>7 DEF ChunkArrives, Fail, Finish, CancelReader, clock, handlerVars, serviceVars
<1>8. CASE ReadFails
  BY <1>8 DEF ReadFails, Fail, Finish, clock, handlerVars, serviceVars
<1>9. CASE BodyEnds
  BY <1>9 DEF BodyEnds, Fail, Finish, handlerVars, serviceVars
<1>10. CASE TimerFires
  BY <1>10 DEF TimerFires, CancelReader, clock, handlerVars, serviceVars
<1>11. CASE Disconnect \/ Reserve \/ Admit \/ Tick \/ SetClock
  BY <1>11
  DEF Disconnect, Reserve, Admit, Tick, SetClock, clock, handlerVars, serviceVars, cell
<1>12. CASE UNCHANGED vars
  BY <1>12 DEF vars, clock, handlerVars, serviceVars, cell
<1> QED
  BY <1>1, <1>2, <1>3, <1>4, <1>5, <1>6, <1>7, <1>8, <1>9, <1>10, <1>11, <1>12
     DEF Next, Handler, Exchange

LEMMA ServiceStays == IInv /\ [Next]_vars => ServiceInv'
<1> SUFFICES ASSUME IInv, [Next]_vars PROVE ServiceInv'
  OBVIOUS
<1> USE NoneAssumption DEF IInv, TimeTypes, Times, ServiceInv
<1>1. CASE UNCHANGED <<clock, serviceVars, sentAt, payload>>
  BY <1>1 DEF clock, serviceVars
<1>2. CASE Send
  BY <1>2 DEF Send, clock, serviceVars, CellInv, Unsent
<1>3. CASE Received
  BY <1>3 DEF Received, clock, serviceVars
<1>4. CASE BodyEnds
  BY <1>4 DEF BodyEnds, serviceVars
<1>5. CASE Reserve
  BY <1>5 DEF Reserve, clock
<1>6. CASE Admit
  BY <1>6 DEF Admit, clock
<1>7. CASE Tick \/ SetClock
  BY <1>7 DEF Tick, SetClock, serviceVars
<1> QED
  BY <1>1, <1>2, <1>3, <1>4, <1>5, <1>6, <1>7
  DEF Next, Handler, Exchange, RefuseEnvelope, AskPolicy, PolicyRefuses, PolicyAllows,
      BodyRejected, RejectBeforeSend, Answer, Disconnect, TransportFails, ChunkArrives,
      ReadFails, TimerFires, vars

(* A settled exchange is not settled again, and only the end of a body in   *)
(* time grants.                                                             *)
LEMMA GrantStays == IInv /\ [Next]_vars => GrantInv'
<1> SUFFICES ASSUME IInv, [Next]_vars, outcome' = "granted" PROVE GrantInv'
  BY DEF GrantInv
<1> USE NoneAssumption DEF IInv, GrantInv
<1>1. CASE UNCHANGED <<outcome, payload, reader, transport, sentAt, settledAt>>
  BY <1>1
<1>2. CASE BodyEnds
  <2>1. Confirms /\ now' - sentAt < SEAL_MS /\ settledAt' = now'
    BY <1>2 DEF BodyEnds, Fail, Finish
  <2>2. reader = "reading" /\ reader' = "ended" /\ UNCHANGED <<payload, transport, sentAt>>
    BY <1>2 DEF BodyEnds
  <2>3. sentAt # None /\ transport = "settled"
    BY <2>2 DEF CellInv
  <2>4. now' \in Int
    BY <1>2 DEF BodyEnds, TimeTypes
  <2> QED
    BY <2>1, <2>2, <2>3, <2>4 DEF Confirms
<1>3. outcome = "granted" \/ BodyEnds
  BY DEF Next, Handler, Exchange, RefuseEnvelope, AskPolicy, PolicyRefuses, PolicyAllows,
         BodyRejected, RejectBeforeSend, Send, Answer, Disconnect, TransportFails, Received,
         ChunkArrives, ReadFails, TimerFires, Reserve, Admit, Tick, SetClock, vars, cell,
         Fail, Finish
<1>4. CASE outcome = "granted" /\ ~BodyEnds
  <2>1. ~pending /\ reader = "ended" /\ sentAt # None /\ pc \notin {"idle", "policy", "body"}
        /\ transport = "settled" /\ timer # "armed"
    BY <1>4 DEF CellInv, Unsent, Codes
  <2>2. UNCHANGED <<outcome, payload, reader, transport, sentAt, settledAt>>
    BY <1>4, <2>1
    DEF Next, Handler, Exchange, RefuseEnvelope, AskPolicy, PolicyRefuses, PolicyAllows,
        BodyRejected, RejectBeforeSend, Send, Answer, Disconnect, TransportFails, Received,
        ChunkArrives, ReadFails, TimerFires, Reserve, Admit, Tick, SetClock, vars, cell
  <2> QED
    BY <1>1, <2>2
<1> QED
  BY <1>2, <1>3, <1>4

LEMMA Inductive == IInv /\ [Next]_vars => IInv'
BY TimesStay, HandlerStays, ExchangeStays, CellStays, ServiceStays, GrantStays
DEF IInv, StateTypes

(* The inductive invariant holds in every reachable state of a request. *)
THEOREM ExchangeInvariance == Spec => []IInv
BY Initially, Inductive, PTL DEF Spec

(* The variables stay in their types. *)
THEOREM ExchangeTypeCorrect == Spec => []TypeOK
<1>1. IInv => TypeOK
  BY TypesInTwo DEF IInv
<1> QED
  BY <1>1, ExchangeInvariance, PTL

(* No capability is granted at or after the seal, however late the timer.  *)
THEOREM InTime == Spec => []GrantIsConfirmedInTime
<1>1. ASSUME IInv PROVE GrantIsConfirmedInTime
  BY <1>1 DEF IInv, GrantInv, ServiceInv, CellInv, GrantIsConfirmedInTime
<1> QED
  BY <1>1, ExchangeInvariance, PTL

(* A settled exchange holds nothing. *)
THEOREM Sealed == Spec => []SealReleases
<1>1. ASSUME IInv PROVE SealReleases
  BY <1>1 DEF IInv, CellInv, SealReleases
<1> QED
  BY <1>1, ExchangeInvariance, PTL
-----------------------------------------------------------------------------
(* The windows of the confirmation admit what an honest service sends: each *)
(* bound follows from the order of the times and the two allowances.        *)

LEMMA HonestTimes ==
  ASSUME IInv, sentAt # None, payload = "own",
         now - sentAt < SEAL_MS,
         WithinAllowance(issuedAt - sentAt), WithinAllowance(offset),
         wall >= issuedAt
  PROVE  Confirms
<1>1. /\ now \in Int /\ offset \in Int /\ sentAt \in Int /\ issuedAt \in Int
      /\ reservedAt \in Int /\ admittedAt \in Int
      /\ sentAt <= reservedAt /\ reservedAt <= admittedAt /\ admittedAt <= now
  BY NoneAssumption DEF IInv, TimeTypes, Times, ServiceInv, CellInv
<1>2. wall < issuedAt + INTENT_MS
  BY <1>1, TimeAssumption DEF WithinAllowance, wall
<1>3. Usable(expiration)
  BY <1>1, TimeAssumption DEF WithinAllowance, wall, Usable, expiration
<1>4. reservedAt >= issuedAt - ALLOWANCE_MS
  BY <1>1, TimeAssumption DEF WithinAllowance
<1>5. admittedAt < issuedAt + INTENT_MS
  BY <1>1, TimeAssumption DEF WithinAllowance
<1>6. admittedAt <= wall + ALLOWANCE_MS
  BY <1>1, TimeAssumption DEF WithinAllowance, wall
<1> QED
  BY <1>1, <1>2, <1>3, <1>4, <1>5, <1>6 DEF Confirms

(* An honest confirmation that is read in time is refused only because the *)
(* wall clock was set back behind the intent.                              *)
THEOREM Honest == Spec => HonestAnswerIsGranted
<1> DEFINE A ==
      /\ outcome = None /\ outcome' = "exchange_unconfirmed"
      /\ reader' = "ended" /\ payload = "own"
      /\ now' - sentAt < SEAL_MS
      /\ WithinAllowance(issuedAt - sentAt) /\ WithinAllowance(offset)
      => wall < issuedAt
<1>1. ASSUME IInv, [Next]_vars PROVE A
  <2> SUFFICES ASSUME outcome = None, outcome' = "exchange_unconfirmed", reader' = "ended",
                      payload = "own", now' - sentAt < SEAL_MS,
                      WithinAllowance(issuedAt - sentAt), WithinAllowance(offset)
               PROVE  wall < issuedAt
    OBVIOUS
  <2>2. reader # "ended"
    BY <1>1, NoneAssumption DEF IInv, CellInv, Unsent
  <2>3. BodyEnds
    BY <1>1, <2>2, NoneAssumption
    DEF Next, Handler, Exchange, RefuseEnvelope, AskPolicy, PolicyRefuses, PolicyAllows,
        BodyRejected, RejectBeforeSend, Send, Answer, Disconnect, TransportFails, Received,
        ChunkArrives, ReadFails, TimerFires, Reserve, Admit, Tick, SetClock, vars,
        CancelReader
  <2>4. sentAt # None /\ issuedAt # None
    BY <1>1, <2>3 DEF IInv, CellInv, BodyEnds
  <2>5. now \in Int /\ offset \in Int /\ sentAt \in Int /\ issuedAt \in Int
    BY <1>1, <2>4 DEF IInv, TimeTypes, Times
  <2>6. now' \in Int /\ now <= now'
    BY <2>3, <2>5 DEF BodyEnds
  <2>7. now - sentAt < SEAL_MS
    <3>1. SEAL_MS \in Int
      BY TimeAssumption
    <3>2. now' - sentAt < SEAL_MS
      OBVIOUS
    <3>3. \A a, b, c, d \in Int : a <= b /\ b - c < d => a - c < d
      OBVIOUS
    <3> QED
      BY <2>5, <2>6, <3>1, <3>2, <3>3
  <2>8. ~expired
    BY <2>5, <2>7, TimeAssumption DEF expired
  <2>9. ~Confirms
    BY <2>3, <2>8, NoneAssumption DEF BodyEnds, Finish, Codes
  <2>10. ~(wall >= issuedAt)
    BY <1>1, <2>4, <2>7, <2>9, HonestTimes
  <2> QED
    BY <2>5, <2>10 DEF wall
<1>2. IInv /\ [Next]_vars => [A]_vars
  BY <1>1
<1> QED
  BY <1>2, ExchangeInvariance, PTL DEF Spec, HonestAnswerIsGranted
-----------------------------------------------------------------------------
(* The request implements the safety part of BoundedAnswer: sending maps to *)
(* Contact, the failures of the exchange and its seal to Close, the         *)
(* handler's own refusals to Refuse.                                        *)

(* Nothing is aborted before the exchange failed, and an answer is that of  *)
(* the handler's end, which an exchange under way keeps waiting.            *)
AnswerInv ==
    /\ aborted => outcome = "exchange_unconfirmed"
    /\ answer # None <=> pc = "answered"
    /\ pending => pc = "exchange"
    /\ outcome = "granted" => sentAt # None

LEMMA AnswerStays == IInv /\ AnswerInv /\ [Next]_vars => AnswerInv'
<1> SUFFICES ASSUME IInv, AnswerInv, [Next]_vars PROVE AnswerInv'
  OBVIOUS
<1> USE NoneAssumption DEF IInv, StateTypes, HandlerTypes, ExchangeTypes, CellInv, Unsent, Codes,
                           AnswerInv
<1>1. CASE RefuseEnvelope \/ AskPolicy \/ PolicyRefuses \/ PolicyAllows \/ BodyRejected
  BY <1>1
  DEF RefuseEnvelope, AskPolicy, PolicyRefuses, PolicyAllows, BodyRejected, Deny, cell
<1>2. CASE RejectBeforeSend \/ Answer
  BY <1>2 DEF RejectBeforeSend, Answer, cell
<1>3. CASE Send
  <2>1. sentAt' # None
    BY <1>3 DEF Send, TimeTypes
  <2> QED
    BY <1>3, <2>1 DEF Send
<1>4. CASE TransportFails \/ Received
  BY <1>4 DEF TransportFails, Received, Fail, Finish, handlerVars, cell
<1>5. CASE ChunkArrives \/ ReadFails
  BY <1>5 DEF ChunkArrives, ReadFails, Fail, Finish, handlerVars
<1>6. CASE BodyEnds
  BY <1>6 DEF BodyEnds, Fail, Finish, handlerVars
<1>7. CASE TimerFires
  BY <1>7 DEF TimerFires, handlerVars
<1>8. CASE Disconnect \/ Reserve \/ Admit \/ Tick \/ SetClock
  BY <1>8 DEF Disconnect, Reserve, Admit, Tick, SetClock, handlerVars, cell
<1>9. CASE UNCHANGED vars
  BY <1>9 DEF vars, handlerVars, cell
<1> QED
  BY <1>1, <1>2, <1>3, <1>4, <1>5, <1>6, <1>7, <1>8, <1>9 DEF Next, Handler, Exchange

(* An exchange that is under way fails, as a whole. *)
LEMMA FailureCloses ==
  ASSUME IInv, AnswerInv, pending, UNCHANGED <<sentAt, answer>>,
         outcome' = "exchange_unconfirmed", aborted' = TRUE
  PROVE  Promise!Close
<1>1. outcome = None /\ ~aborted
  BY NoneAssumption DEF IInv, CellInv, AnswerInv, Codes
<1>2. Decided \in {None, "denied"} /\ Decided' = "denied"
  BY <1>1, NoneAssumption DEF Decided, Codes
<1> QED
  BY <1>1, <1>2 DEF Promise!Close

LEMMA PromiseStep == IInv /\ AnswerInv /\ [Next]_vars => [Promise!Next]_Promise!vars
<1> SUFFICES ASSUME IInv, AnswerInv, [Next]_vars PROVE [Promise!Next]_Promise!vars
  OBVIOUS
<1>a. UNCHANGED <<sentAt, aborted, outcome, answer>> => UNCHANGED Promise!vars
  BY DEF Promise!vars, Decided
<1>1. CASE RefuseEnvelope \/ PolicyRefuses \/ BodyRejected \/ (PolicyAllows /\ Deny)
  <2>1. pc \in {"idle", "policy", "body"} /\ answer' = "denied"
        /\ UNCHANGED <<sentAt, aborted, outcome>>
    BY <1>1 DEF RefuseEnvelope, PolicyRefuses, BodyRejected, PolicyAllows, Deny, cell
  <2>2. outcome = None /\ answer = None
    BY <2>1 DEF IInv, CellInv, AnswerInv
  <2>3. Decided = None /\ Decided' = "denied"
    BY <2>1, <2>2, NoneAssumption DEF Decided
  <2> QED
    BY <2>1, <2>3 DEF Promise!Next, Promise!Refuse
<1>2. CASE AskPolicy \/ (PolicyAllows /\ ~Deny)
  BY <1>2, <1>a DEF AskPolicy, PolicyAllows, cell
<1>3. CASE RejectBeforeSend
  <2>1. outcome = None /\ answer = None /\ outcome' = "rejected_before_send"
        /\ UNCHANGED <<sentAt, aborted, answer>>
    BY <1>3 DEF RejectBeforeSend, IInv, CellInv, AnswerInv
  <2>2. Decided = None /\ Decided' = "denied"
    BY <2>1, NoneAssumption DEF Decided, Codes
  <2> QED
    BY <2>1, <2>2 DEF Promise!Next, Promise!Deny
<1>4. CASE Send
  <2>1. sentAt = None /\ outcome = None /\ answer = None /\ ~aborted
    BY <1>4, NoneAssumption DEF Send, IInv, CellInv, Unsent, AnswerInv, Codes
  <2>2. sentAt' # None /\ UNCHANGED answer
    BY <1>4, NoneAssumption DEF Send, IInv, TimeTypes
  <2>3. Decided = None
    BY <2>1, NoneAssumption DEF Decided
  <2>4. CASE UNCHANGED <<aborted, outcome>>
    BY <2>1, <2>2, <2>3, <2>4 DEF Promise!Next, Promise!Contact, Decided
  <2>5. CASE aborted' = TRUE /\ outcome' = "exchange_unconfirmed"
    <3>1. Decided' = "denied"
      BY <2>5, NoneAssumption DEF Decided, Codes
    <3> QED
      BY <2>1, <2>2, <2>3, <2>5, <3>1 DEF Promise!Next, Promise!ContactFails
  <2> QED
    BY <1>4, <2>4, <2>5 DEF Send
<1>5. CASE TransportFails \/ Received
  <2>1. CASE UNCHANGED cell
    BY <1>5, <2>1, <1>a DEF TransportFails, Received, handlerVars, cell
  <2>2. CASE pending /\ Fail(now)
    BY <1>5, <2>2, FailureCloses
    DEF TransportFails, Received, handlerVars, Fail, Finish, Promise!Next
  <2> QED
    BY <1>5, <2>1, <2>2 DEF TransportFails, Received
<1>6. CASE ChunkArrives \/ ReadFails
  <2>1. pending /\ UNCHANGED <<sentAt, answer>>
    BY <1>6 DEF ChunkArrives, ReadFails, handlerVars, IInv, CellInv
  <2>2. CASE Fail(now)
    BY <2>1, <2>2, FailureCloses DEF Fail, Finish, Promise!Next
  <2>3. CASE UNCHANGED <<aborted, outcome>>
    BY <2>1, <2>3, <1>a
  <2> QED
    BY <1>6, <2>2, <2>3 DEF ChunkArrives, ReadFails
<1>7. CASE BodyEnds
  <2>1. pending /\ UNCHANGED <<sentAt, answer>>
    BY <1>7 DEF BodyEnds, handlerVars, IInv, CellInv
  <2>2. CASE Fail(now')
    BY <2>1, <2>2, FailureCloses DEF Fail, Finish, Promise!Next
  <2>3. CASE Finish("granted", now')
    <3>1. outcome = None /\ sentAt # None /\ ~aborted /\ answer = None
      BY <2>1, NoneAssumption DEF IInv, CellInv, AnswerInv, Codes
    <3>2. outcome' = "granted" /\ aborted' = FALSE
      BY <2>3 DEF Finish
    <3>3. aborted' = aborted
      BY <3>1, <3>2 DEF IInv, StateTypes, ExchangeTypes
    <3>4. Decided = None /\ Decided' = "granted"
      BY <3>1, <3>2, NoneAssumption DEF Decided
    <3> QED
      BY <2>1, <3>1, <3>3, <3>4 DEF Promise!Next, Promise!Grant
  <2> QED
    BY <1>7, <2>2, <2>3 DEF BodyEnds
<1>8. CASE TimerFires
  <2>1. pending /\ UNCHANGED <<sentAt, answer>>
    BY <1>8 DEF TimerFires, handlerVars, IInv, CellInv
  <2> QED
    BY <1>8, <2>1, FailureCloses DEF TimerFires, Promise!Next
<1>9. CASE Answer
  <2>1. outcome # None /\ answer = None /\ answer' = Decided /\ UNCHANGED <<sentAt, aborted, outcome>>
    BY <1>9 DEF Answer, Decided, cell, IInv, CellInv, AnswerInv
  <2>2. Decided # None /\ Decided' = Decided
    BY <2>1, NoneAssumption DEF Decided
  <2> QED
    BY <2>1, <2>2 DEF Promise!Next, Promise!Deliver
<1>10. CASE Disconnect \/ Reserve \/ Admit \/ Tick \/ SetClock
  BY <1>10, <1>a DEF Disconnect, Reserve, Admit, Tick, SetClock, handlerVars, cell
<1>11. CASE UNCHANGED vars
  BY <1>11, <1>a DEF vars, handlerVars, cell
<1> QED
  BY <1>1, <1>2, <1>3, <1>4, <1>5, <1>6, <1>7, <1>8, <1>9, <1>10, <1>11
     DEF Next, Handler, Exchange

(* A request to the opt-in backend contacts the service at most once, is    *)
(* granted only while its exchange is open, and is answered as it was       *)
(* decided, once.                                                           *)
THEOREM KeepsPromiseSafely == Spec => ExchangeKeepsPromise
<1>1. Init => Promise!Init /\ AnswerInv
  BY NoneAssumption DEF Init, Promise!Init, Decided, AnswerInv
<1>2. IInv /\ AnswerInv /\ [Next]_vars => AnswerInv'
  BY AnswerStays
<1>3. IInv /\ AnswerInv /\ [Next]_vars => [Promise!Next]_Promise!vars
  BY PromiseStep
<1> QED
  BY <1>1, <1>2, <1>3, ExchangeInvariance, PTL DEF Spec, ExchangeKeepsPromise, Promise!Spec
=============================================================================
