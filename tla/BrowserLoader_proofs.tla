------------------------- MODULE BrowserLoader_proofs -------------------------
(***************************************************************************)
(* Theorems about BrowserLoader for every set of loads, Applications and   *)
(* submissions: one widget at a time, one opt-in callback per report, and  *)
(* a controller that is never ready before its script has run.             *)
(***************************************************************************)
EXTENDS BrowserLoader, TLAPS

(* The part of the types the proofs need. *)
LoaderTypes ==
    /\ activeController \in Loads \cup {None}
    /\ initializing \in Loads \cup {None}
    /\ resetDue \in Loads \cup {None}
    /\ executing \in Loads \cup {None}
    /\ settings \in [Loads -> [app : Applications, mode : Modes]]
    /\ load \in [Loads -> {"unused", "starting", "pending", "ready", "failed", "thrown"}]
    /\ api \in [Loads -> Installers \cup {None}]
    /\ attempted \in SUBSET Reports
    /\ asks \in [Reports -> Nat]
    /\ outstanding \in [Loads \X Submissions -> Nat]

(* A load is being started by init, or is the active one, or is the active *)
(* one whose rejection has not been reacted to; otherwise it is over.      *)
OneLoadInv ==
    /\ \A l \in Loads : load[l] = "starting" => initializing = l
    /\ initializing # None => activeController = None
    /\ resetDue # None => activeController = resetDue /\ load[resetDue] = "failed"
    /\ OneLiveLoad

(* The spent reports are those that were asked for, once. *)
SpentInv == \A r \in Reports : asks[r] = (IF r \in attempted THEN 1 ELSE 0)

(* Only a script that init requested runs, and only a running one asks for *)
(* tokens; a hook is active while its load is live, or when init threw.    *)
HookInv ==
    /\ \A l \in Loads :
         /\ l \in providerActive => load[l] \in {"pending", "ready", "thrown"}
         /\ l \in fetching \cup running => load[l] \in {"pending", "ready", "failed"}
         /\ \A s \in Submissions : outstanding[<<l, s>>] > 0 => l \in running
    /\ executing # None => executing \in running

LoaderInv == TypeOK /\ OneLoadInv /\ SpentInv /\ HookInv /\ ReadyAfterOwnScript
-------------------------------------------------------------------------------
(* Types. *)

(* The variables that a settling load assigns. *)
SettledTypes ==
    /\ load \in [Loads -> {"unused", "starting", "pending", "ready", "failed", "thrown"}]
    /\ api \in [Loads -> Installers \cup {None}]
    /\ providerActive \in SUBSET Loads
    /\ hooks \in SUBSET Loads
    /\ inDocument \in SUBSET Loads
    /\ resetDue \in Loads \cup {None}

(* A load that fails keeps them within their types. *)
LEMMA FailTypes ==
  ASSUME SettledTypes, NEW l \in Loads, Fail(l)
  PROVE  SettledTypes'
  BY DEF SettledTypes, Fail, Installers

(* So does whatever an event of a script does to the listeners. *)
LEMMA DispatchTypes ==
  ASSUME SettledTypes, NEW source, NEW installed, Dispatch(source, installed)
  PROVE  SettledTypes'
  <1>1. CASE Concerned(source) = {}
    BY <1>1 DEF Dispatch, SettledTypes, hookVars, Installers
  <1>2. CASE Concerned(source) # {}
    <2>1. PICK l \in Loads : Finish(l, installed)
      BY <1>2 DEF Dispatch, Concerned
    <2>2. CASE installed \in Installers
      BY <2>1, <2>2 DEF Finish, SettledTypes, hookVars
    <2>3. CASE installed \notin Installers
      BY <2>1, <2>3, FailTypes DEF Finish
    <2>4. QED
      BY <2>2, <2>3
  <1>3. QED
    BY <1>1, <1>2

LEMMA NextTypes ==
  ASSUME TypeOK, [Next]_vars
  PROVE  TypeOK'
  <1> USE DEF TypeOK, Installers, moduleVars, loadVars, pageVars, hookVars, tokenVars
  <1>1. ASSUME NEW l \in Loads, BeginInit(l)
        PROVE  TypeOK'
    BY <1>1 DEF BeginInit, MayInitialize
  <1>2. ASSUME NEW l \in Loads, EndInit(l)
        PROVE  TypeOK'
    BY <1>2 DEF EndInit
  <1>3. ASSUME NEW l \in Loads, InitThrows(l)
        PROVE  TypeOK'
    BY <1>3 DEF InitThrows
  <1>4. ASSUME NEW l \in Loads, ScriptRuns(l)
        PROVE  TypeOK'
    <2>1. SettledTypes
      BY DEF SettledTypes
    <2>2. SettledTypes'
      <3>1. CASE Dispatch(l, global')
        BY <2>1, <3>1, DispatchTypes
      <3>2. CASE UNCHANGED <<load, api, hookVars, inDocument, resetDue>>
        BY <2>1, <3>2 DEF SettledTypes
      <3>3. QED
        BY <1>4, <3>1, <3>2 DEF ScriptRuns
    <2>3. QED
      BY <1>4, <2>2 DEF ScriptRuns, SettledTypes
  <1>5. ASSUME NEW l \in Loads, ScriptErrors(l)
        PROVE  TypeOK'
    BY <1>5 DEF ScriptErrors, Fail, NextEvent, ReactionsRan
  <1>6. ASSUME NEW l \in Loads, LoadTimesOut(l)
        PROVE  TypeOK'
    BY <1>6 DEF LoadTimesOut, Fail, NextEvent, ReactionsRan
  <1>7. ASSUME NEW l \in Loads, NEW s \in Submissions, AskToken(l, s)
        PROVE  TypeOK'
    <2> DEFINE report == <<settings[l].app, s>>
    <2>1. report \in Reports
      BY DEF Reports
    <2> HIDE DEF report
    <2>2. CASE settings[l].mode = "opt-in"
      <3>1. asks' = [asks EXCEPT ![report] = asks[report] + 1]
            /\ attempted' = attempted \cup {report}
        BY <1>7, <2>2 DEF AskToken, report
      <3>2. asks' \in [Reports -> Nat] /\ attempted' \in SUBSET Reports
        BY <2>1, <3>1
      <3>3. QED
        BY <1>7, <3>2 DEF AskToken
    <2>3. CASE settings[l].mode # "opt-in"
      BY <1>7, <2>3 DEF AskToken
    <2>4. QED
      BY <2>2, <2>3
  <1>8. ASSUME NEW l \in Loads, NEW s \in Submissions, TokenAnswered(l, s)
        PROVE  TypeOK'
    BY <1>8 DEF TokenAnswered
  <1>9. CASE Reset
    BY <1>9 DEF Reset
  <1>10. CASE DirectAdded
    BY <1>10 DEF DirectAdded, NextEvent, ReactionsRan
  <1>11. CASE DirectInstalls
    <2>1. SettledTypes
      BY DEF SettledTypes
    <2>2. SettledTypes'
      BY <1>11, <2>1, DispatchTypes DEF DirectInstalls
    <2>3. QED
      BY <1>11, <2>2 DEF DirectInstalls, SettledTypes
  <1>12. CASE ScriptLoaded
    <2>1. SettledTypes
      BY DEF SettledTypes
    <2>2. SettledTypes'
      BY <1>12, <2>1, DispatchTypes DEF ScriptLoaded
    <2>3. QED
      BY <1>12, <2>2 DEF ScriptLoaded, SettledTypes
  <1>13. CASE UNCHANGED vars
    BY <1>13 DEF vars
  <1>14. QED
    BY <1>1, <1>2, <1>3, <1>4, <1>5, <1>6, <1>7, <1>8, <1>9, <1>10, <1>11, <1>12, <1>13 DEF Next

(* One load at a time. *)
LEMMA NextOneLoad ==
  ASSUME LoaderTypes, OneLoadInv, [Next]_vars
  PROVE  OneLoadInv'
  <1> USE LoaderAssumption DEF LoaderTypes, OneLoadInv, OneLiveLoad, Live, moduleVars, loadVars, pageVars, hookVars, tokenVars
  <1>1. ASSUME NEW l \in Loads, BeginInit(l)
        PROVE  OneLoadInv'
    BY <1>1 DEF BeginInit, MayInitialize
  <1>2. ASSUME NEW l \in Loads, EndInit(l)
        PROVE  OneLoadInv'
    BY <1>2 DEF EndInit
  <1>3. ASSUME NEW l \in Loads, InitThrows(l)
        PROVE  OneLoadInv'
    BY <1>3 DEF InitThrows
  <1>4. ASSUME NEW l \in Loads, ScriptRuns(l)
        PROVE  OneLoadInv'
    BY <1>4 DEF ScriptRuns, Dispatch, Concerned, Finish, Fail, NextEvent, ReactionsRan
  <1>5. ASSUME NEW l \in Loads, ScriptErrors(l)
        PROVE  OneLoadInv'
    BY <1>5 DEF ScriptErrors, Fail, NextEvent, ReactionsRan
  <1>6. ASSUME NEW l \in Loads, LoadTimesOut(l)
        PROVE  OneLoadInv'
    BY <1>6 DEF LoadTimesOut, Fail, NextEvent, ReactionsRan
  <1>7. ASSUME NEW l \in Loads, NEW s \in Submissions, AskToken(l, s)
        PROVE  OneLoadInv'
    BY <1>7 DEF AskToken
  <1>8. ASSUME NEW l \in Loads, NEW s \in Submissions, TokenAnswered(l, s)
        PROVE  OneLoadInv'
    BY <1>8 DEF TokenAnswered
  <1>9. CASE Reset
    BY <1>9 DEF Reset
  <1>10. CASE DirectAdded
    BY <1>10 DEF DirectAdded, NextEvent, ReactionsRan
  <1>11. CASE DirectInstalls
    BY <1>11 DEF DirectInstalls, Dispatch, Concerned, Finish, Fail, NextEvent, ReactionsRan
  <1>12. CASE ScriptLoaded
    BY <1>12 DEF ScriptLoaded, Dispatch, Concerned, Finish, Fail, ReactionsRan
  <1>13. CASE UNCHANGED vars
    BY <1>13 DEF vars
  <1>14. QED
    BY <1>1, <1>2, <1>3, <1>4, <1>5, <1>6, <1>7, <1>8, <1>9, <1>10, <1>11, <1>12, <1>13 DEF Next

(* One callback per report. *)
LEMMA NextSpent ==
  ASSUME LoaderTypes, SpentInv, [Next]_vars
  PROVE  SpentInv'
  <1> USE DEF LoaderTypes, SpentInv, moduleVars, loadVars, pageVars, hookVars, tokenVars
  <1>1. ASSUME NEW l \in Loads, BeginInit(l)
        PROVE  SpentInv'
    BY <1>1 DEF BeginInit, MayInitialize
  <1>2. ASSUME NEW l \in Loads, EndInit(l)
        PROVE  SpentInv'
    BY <1>2 DEF EndInit
  <1>3. ASSUME NEW l \in Loads, InitThrows(l)
        PROVE  SpentInv'
    BY <1>3 DEF InitThrows
  <1>4. ASSUME NEW l \in Loads, ScriptRuns(l)
        PROVE  SpentInv'
    BY <1>4 DEF ScriptRuns, Dispatch, Concerned, Finish, Fail, NextEvent, ReactionsRan
  <1>5. ASSUME NEW l \in Loads, ScriptErrors(l)
        PROVE  SpentInv'
    BY <1>5 DEF ScriptErrors, Fail, NextEvent, ReactionsRan
  <1>6. ASSUME NEW l \in Loads, LoadTimesOut(l)
        PROVE  SpentInv'
    BY <1>6 DEF LoadTimesOut, Fail, NextEvent, ReactionsRan
  <1>7. ASSUME NEW l \in Loads, NEW s \in Submissions, AskToken(l, s)
        PROVE  SpentInv'
    <2> DEFINE report == <<settings[l].app, s>>
    <2>1. report \in Reports
      BY DEF Reports
    <2> HIDE DEF report
    <2>2. CASE settings[l].mode = "opt-in"
      <3>1. /\ report \notin attempted
            /\ asks' = [asks EXCEPT ![report] = asks[report] + 1]
            /\ attempted' = attempted \cup {report}
        BY <1>7, <2>2 DEF AskToken, report
      <3>2. QED
        BY <2>1, <3>1
    <2>3. CASE settings[l].mode # "opt-in"
      BY <1>7, <2>3 DEF AskToken
    <2>4. QED
      BY <2>2, <2>3
  <1>8. ASSUME NEW l \in Loads, NEW s \in Submissions, TokenAnswered(l, s)
        PROVE  SpentInv'
    BY <1>8 DEF TokenAnswered
  <1>9. CASE Reset
    BY <1>9 DEF Reset
  <1>10. CASE DirectAdded
    BY <1>10 DEF DirectAdded, NextEvent, ReactionsRan
  <1>11. CASE DirectInstalls
    BY <1>11 DEF DirectInstalls, Dispatch, Concerned, Finish, Fail, NextEvent, ReactionsRan
  <1>12. CASE ScriptLoaded
    BY <1>12 DEF ScriptLoaded, Dispatch, Concerned, Finish, Fail, ReactionsRan
  <1>13. CASE UNCHANGED vars
    BY <1>13 DEF vars
  <1>14. QED
    BY <1>1, <1>2, <1>3, <1>4, <1>5, <1>6, <1>7, <1>8, <1>9, <1>10, <1>11, <1>12, <1>13 DEF Next

(* Hooks. *)
LEMMA NextHook ==
  ASSUME LoaderTypes, HookInv, [Next]_vars
  PROVE  HookInv'
  <1> USE LoaderAssumption DEF LoaderTypes, HookInv, Installers, moduleVars, loadVars, pageVars, hookVars, tokenVars
  <1>1. ASSUME NEW l \in Loads, BeginInit(l)
        PROVE  HookInv'
    BY <1>1 DEF BeginInit, MayInitialize
  <1>2. ASSUME NEW l \in Loads, EndInit(l)
        PROVE  HookInv'
    BY <1>2 DEF EndInit
  <1>3. ASSUME NEW l \in Loads, InitThrows(l)
        PROVE  HookInv'
    BY <1>3 DEF InitThrows
  <1>4. ASSUME NEW l \in Loads, ScriptRuns(l)
        PROVE  HookInv'
    BY <1>4 DEF ScriptRuns, Dispatch, Concerned, Finish, Fail, NextEvent, ReactionsRan
  <1>5. ASSUME NEW l \in Loads, ScriptErrors(l)
        PROVE  HookInv'
    BY <1>5 DEF ScriptErrors, Fail, NextEvent, ReactionsRan
  <1>6. ASSUME NEW l \in Loads, LoadTimesOut(l)
        PROVE  HookInv'
    BY <1>6 DEF LoadTimesOut, Fail, NextEvent, ReactionsRan
  <1>7. ASSUME NEW l \in Loads, NEW s \in Submissions, AskToken(l, s)
        PROVE  HookInv'
    BY <1>7 DEF AskToken
  <1>8. ASSUME NEW l \in Loads, NEW s \in Submissions, TokenAnswered(l, s)
        PROVE  HookInv'
    BY <1>8 DEF TokenAnswered
  <1>9. CASE Reset
    BY <1>9 DEF Reset
  <1>10. CASE DirectAdded
    BY <1>10 DEF DirectAdded, NextEvent, ReactionsRan
  <1>11. CASE DirectInstalls
    BY <1>11 DEF DirectInstalls, Dispatch, Concerned, Finish, Fail, NextEvent, ReactionsRan
  <1>12. CASE ScriptLoaded
    BY <1>12 DEF ScriptLoaded, Dispatch, Concerned, Finish, Fail, ReactionsRan
  <1>13. CASE UNCHANGED vars
    BY <1>13 DEF vars
  <1>14. QED
    BY <1>1, <1>2, <1>3, <1>4, <1>5, <1>6, <1>7, <1>8, <1>9, <1>10, <1>11, <1>12, <1>13 DEF Next

(* Readiness. *)
LEMMA NextReady ==
  ASSUME LoaderTypes, HookInv, ReadyAfterOwnScript, [Next]_vars
  PROVE  ReadyAfterOwnScript'
  <1> USE LoaderAssumption DEF LoaderTypes, HookInv, ReadyAfterOwnScript, Installers, moduleVars, loadVars, pageVars, hookVars, tokenVars
  <1>1. ASSUME NEW l \in Loads, BeginInit(l)
        PROVE  ReadyAfterOwnScript'
    BY <1>1 DEF BeginInit, MayInitialize
  <1>2. ASSUME NEW l \in Loads, EndInit(l)
        PROVE  ReadyAfterOwnScript'
    BY <1>2 DEF EndInit
  <1>3. ASSUME NEW l \in Loads, InitThrows(l)
        PROVE  ReadyAfterOwnScript'
    BY <1>3 DEF InitThrows
  <1>4. ASSUME NEW l \in Loads, ScriptRuns(l)
        PROVE  ReadyAfterOwnScript'
    BY <1>4 DEF ScriptRuns, Dispatch, Concerned, Finish, Fail, NextEvent, ReactionsRan
  <1>5. ASSUME NEW l \in Loads, ScriptErrors(l)
        PROVE  ReadyAfterOwnScript'
    BY <1>5 DEF ScriptErrors, Fail, NextEvent, ReactionsRan
  <1>6. ASSUME NEW l \in Loads, LoadTimesOut(l)
        PROVE  ReadyAfterOwnScript'
    BY <1>6 DEF LoadTimesOut, Fail, NextEvent, ReactionsRan
  <1>7. ASSUME NEW l \in Loads, NEW s \in Submissions, AskToken(l, s)
        PROVE  ReadyAfterOwnScript'
    BY <1>7 DEF AskToken
  <1>8. ASSUME NEW l \in Loads, NEW s \in Submissions, TokenAnswered(l, s)
        PROVE  ReadyAfterOwnScript'
    BY <1>8 DEF TokenAnswered
  <1>9. CASE Reset
    BY <1>9 DEF Reset
  <1>10. CASE DirectAdded
    BY <1>10 DEF DirectAdded, NextEvent, ReactionsRan
  <1>11. CASE DirectInstalls
    BY <1>11 DEF DirectInstalls, Dispatch, Concerned, Finish, Fail, NextEvent, ReactionsRan
  <1>12. CASE ScriptLoaded
    BY <1>12 DEF ScriptLoaded, Dispatch, Concerned, Finish, Fail, ReactionsRan
  <1>13. CASE UNCHANGED vars
    BY <1>13 DEF vars
  <1>14. QED
    BY <1>1, <1>2, <1>3, <1>4, <1>5, <1>6, <1>7, <1>8, <1>9, <1>10, <1>11, <1>12, <1>13 DEF Next

LEMMA InitLoaderInv == Init => LoaderInv
  BY LoaderAssumption
  DEF Init, LoaderInv, TypeOK, OneLoadInv, OneLiveLoad, Live, SpentInv, HookInv,
      ReadyAfterOwnScript, Installers

LEMMA NextLoaderInv == LoaderInv /\ [Next]_vars => LoaderInv'
  <1>1. TypeOK => LoaderTypes
    BY DEF TypeOK, LoaderTypes
  <1>2. QED
    BY <1>1, NextTypes, NextOneLoad, NextSpent, NextHook, NextReady DEF LoaderInv

(* The inductive invariant holds in every reachable state of a page. *)
THEOREM LoaderInvariance == Spec => []LoaderInv
  BY InitLoaderInv, NextLoaderInv, PTL DEF Spec

(* The variables stay in their types. *)
THEOREM LoaderTypeCorrect == Spec => []TypeOK
  <1>1. LoaderInv => TypeOK
    BY DEF LoaderInv
  <1>2. QED
    BY <1>1, LoaderInvariance, PTL

(* At most one load is live, and it is the one init returns: reentry, the  *)
(* late reaction to a failure and a retry never leave a second one; and it *)
(* is ready only after its own script has run.                             *)
THEOREM LiveLoad == Spec => []LiveLoadIsActive
  <1>1. LoaderInv => LiveLoadIsActive
    BY DEF LoaderInv, OneLoadInv, LiveLoadIsActive
  <1>2. QED
    BY <1>1, LoaderInvariance, PTL

(* The customer's opt-in callback runs once for a report. *)
THEOREM OneOptInAsk == Spec => []OptInAsksOnce
  <1>1. LoaderInv => OptInAsksOnce
    BY DEF LoaderInv, SpentInv, OptInAsksOnce
  <1>2. QED
    BY <1>1, LoaderInvariance, PTL

(* A token is handed to a widget only while its own load is the active one: *)
(* the hook's second test, after the callback, is what a retired load meets. *)
THEOREM ActiveTokensOnly == Spec => TokenOnlyThroughActiveLoad
  <1>1. ASSUME LoaderInv, [Next]_vars, NEW x \in delivered' \ delivered
        PROVE  x[1] = activeController /\ Live(x[1])
    <2> USE DEF moduleVars, loadVars, pageVars, hookVars, tokenVars
    <2>1. \E l \in Loads, s \in Submissions : TokenAnswered(l, s)
      BY <1>1 DEF Next, vars, BeginInit, EndInit, InitThrows, ScriptRuns, ScriptLoaded,
                  ScriptErrors, LoadTimesOut, Reset, DirectAdded, DirectInstalls, AskToken
    <2>2. PICK l \in Loads, s \in Submissions : TokenAnswered(l, s)
      BY <2>1
    <2>3. x = <<l, s>> /\ l \in providerActive /\ outstanding[<<l, s>>] > 0
      BY <1>1, <2>2 DEF TokenAnswered
    <2>4. Live(l)
      BY <1>1, <2>3 DEF LoaderInv, HookInv, Live
    <2>5. QED
      BY <1>1, <2>3, <2>4 DEF LoaderInv, OneLoadInv, OneLiveLoad
  <1>2. LoaderInv /\ [Next]_vars
          => (\A x \in delivered' \ delivered : x[1] = activeController /\ Live(x[1]))
    BY <1>1
  <1>3. QED
    BY <1>2, LoaderInvariance, PTL DEF Spec, TokenOnlyThroughActiveLoad

(* Nothing that runs on the page later changes how a load settled. *)
THEOREM SettledForGood == Spec => SettledLoadIsFinal
  <1> DEFINE Settled(l) == load[l] \in {"ready", "failed", "thrown"}
  <1>1. ASSUME LoaderInv, [Next]_vars, NEW m \in Loads, Settled(m)
        PROVE  load'[m] = load[m] /\ api'[m] = api[m]
    <2> USE LoaderAssumption DEF LoaderInv, TypeOK, moduleVars, loadVars, pageVars, hookVars, tokenVars
    <2>1. ASSUME NEW l \in Loads,
                 BeginInit(l) \/ EndInit(l) \/ InitThrows(l) \/ LoadTimesOut(l) \/ ScriptErrors(l)
          PROVE  load'[m] = load[m] /\ api'[m] = api[m]
      BY <1>1, <2>1 DEF BeginInit, EndInit, InitThrows, LoadTimesOut, ScriptErrors, Fail
    <2>2. ASSUME NEW source, NEW installed, Dispatch(source, installed)
          PROVE  load'[m] = load[m] /\ api'[m] = api[m]
      BY <1>1, <2>2 DEF Dispatch, Concerned, Finish, Fail
    <2>3. ASSUME NEW l \in Loads, ScriptRuns(l)
          PROVE  load'[m] = load[m] /\ api'[m] = api[m]
      BY <2>2, <2>3 DEF ScriptRuns
    <2>4. CASE ScriptLoaded \/ DirectInstalls
      BY <2>2, <2>4 DEF ScriptLoaded, DirectInstalls
    <2>5. CASE Reset \/ DirectAdded \/ UNCHANGED vars
      BY <2>5 DEF Reset, DirectAdded, vars
    <2>6. ASSUME NEW l \in Loads, NEW s \in Submissions, AskToken(l, s) \/ TokenAnswered(l, s)
          PROVE  load'[m] = load[m] /\ api'[m] = api[m]
      BY <2>6 DEF AskToken, TokenAnswered
    <2>7. QED
      BY <1>1, <2>1, <2>3, <2>4, <2>5, <2>6 DEF Next
  <1>2. LoaderInv /\ [Next]_vars
          => (\A l \in Loads : load[l] \in {"ready", "failed", "thrown"} =>
                load'[l] = load[l] /\ api'[l] = api[l])
    BY <1>1
  <1>3. QED
    BY <1>2, LoaderInvariance, PTL DEF Spec, SettledLoadIsFinal
===============================================================================
