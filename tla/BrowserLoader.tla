--------------------------- MODULE BrowserLoader ---------------------------
(***************************************************************************)
(* The browser package on one page: BugDrop.init and BugDropOptIn.init     *)
(* (packages/browser/src/loader.ts, opt-in.ts), the script element each    *)
(* load adds, the token hook it publishes on window, and the page around   *)
(* it: the hosted widget's script, which a failed load removes but cannot  *)
(* stop from running later, and a directly installed widget that shares    *)
(* window.BugDrop and the bugdrop:ready event.                             *)
(*                                                                         *)
(* JavaScript runs to completion: while a call to init is under way only   *)
(* code it calls (an option's getter, a patched DOM method) can run, and   *)
(* the reaction to a rejected load runs before the next event.             *)
(***************************************************************************)
EXTENDS Naturals, FiniteSets

CONSTANTS
    None,
    Loads,         \* the loads a page may start, one controller each
    Applications,
    Submissions,
    MaxAsks        \* bound: customer callbacks a load runs per submission

ASSUME LoaderAssumption ==
    /\ None \notin Loads \cup {"direct"}
    /\ "direct" \notin Loads
    /\ MaxAsks \in Nat

VARIABLES
    activeController,     \* the module's state: None or the load whose
    activeApplicationId,  \* controller init returns,
    activeMode,           \* its Application and its entrypoint
    initializing,         \* None, or the load that init is starting
    settings,             \* what each load was asked for
    load,                 \* the promise of each load
    api,                  \* who installed the API a controller holds
    resetDue,             \* None, or the rejected load whose reaction is queued
    inDocument,           \* loads whose script element is in the document
    fetching,             \* loads whose script has been requested and not run
    running,              \* loads whose script has begun to run
    executing,            \* None, or the script that has not had its load event
    global,               \* who installed window.BugDrop, or None
    direct,               \* a direct installation on the same page
    providerActive,       \* the flag each hook tests
    hooks,                \* loads whose hook is a property of window
    attempted,            \* the spent reports of the opt-in entrypoint
    outstanding,          \* customer callbacks that have not settled
    asks,                 \* opt-in callbacks made per report (history)
    delivered             \* tokens handed to a widget (history)

moduleVars == <<activeController, activeApplicationId, activeMode, initializing>>
loadVars == <<settings, load, api, resetDue>>
pageVars == <<inDocument, fetching, running, executing, global, direct>>
hookVars == <<providerActive, hooks>>
tokenVars == <<attempted, outstanding, asks, delivered>>
vars == <<moduleVars, loadVars, pageVars, hookVars, tokenVars>>

Modes == {"classic", "opt-in"}
Installers == Loads \cup {"direct"}
Reports == Applications \X Submissions

TypeOK ==
    /\ activeController \in Loads \cup {None}
    /\ activeApplicationId \in Applications \cup {None}
    /\ activeMode \in Modes \cup {None}
    /\ initializing \in Loads \cup {None}
    /\ settings \in [Loads -> [app : Applications, mode : Modes]]
    /\ load \in [Loads -> {"unused", "starting", "pending", "ready", "failed", "thrown"}]
    /\ api \in [Loads -> Installers \cup {None}]
    /\ resetDue \in Loads \cup {None}
    /\ inDocument \in SUBSET Loads
    /\ fetching \in SUBSET Loads
    /\ running \in SUBSET Loads
    /\ executing \in Loads \cup {None}
    /\ global \in Installers \cup {None, "incompatible"}
    /\ direct \in {"absent", "inDocument", "installed"}
    /\ providerActive \in SUBSET Loads
    /\ hooks \in SUBSET Loads
    /\ attempted \in SUBSET Reports
    /\ outstanding \in [Loads \X Submissions -> Nat]
    /\ asks \in [Reports -> Nat]
    /\ delivered \in SUBSET (Loads \X Submissions)

Init ==
    /\ activeController = None
    /\ activeApplicationId = None
    /\ activeMode = None
    /\ initializing = None
    /\ settings \in [Loads -> [app : Applications, mode : Modes]]
    /\ load = [l \in Loads |-> "unused"]
    /\ api = [l \in Loads |-> None]
    /\ resetDue = None
    /\ inDocument = {}
    /\ fetching = {}
    /\ running = {}
    /\ executing = None
    /\ global = None
    /\ direct = "absent"
    /\ providerActive = {}
    /\ hooks = {}
    /\ attempted = {}
    /\ outstanding = [x \in Loads \X Submissions |-> 0]
    /\ asks = [r \in Reports |-> 0]
    /\ delivered = {}
----------------------------------------------------------------------------
(* init.                                                                   *)

(* Mutant: no guard against reentry. *)
MayInitializeReentrant(mode) ==
    /\ activeMode \in {None, mode} /\ activeController = None
    /\ global = None /\ inDocument = {} /\ direct = "absent"

(* The checks of initialize() before it starts a load.  With an active     *)
(* controller init returns it, or throws; it never starts another load.    *)
MayInitialize(mode) ==
    /\ initializing = None
    /\ activeMode \in {None, mode}
    /\ activeController = None
    /\ global = None
    /\ inDocument = {} /\ direct = "absent"

BeginInit(l) ==
    /\ load[l] = "unused"
    /\ MayInitialize(settings[l].mode)
    /\ initializing' = l
    /\ load' = [load EXCEPT ![l] = "starting"]
    /\ UNCHANGED <<activeController, activeApplicationId, activeMode, settings, api,
                   resetDue, pageVars, hookVars, tokenVars>>

(* loadHostedWidget returns its promise: the hook is published and the     *)
(* script requested.                                                       *)
EndInit(l) ==
    /\ load[l] = "starting"
    /\ load' = [load EXCEPT ![l] = "pending"]
    /\ providerActive' = providerActive \cup {l}
    /\ hooks' = hooks \cup {l}
    /\ inDocument' = inDocument \cup {l}
    /\ fetching' = fetching \cup {l}
    /\ initializing' = None
    /\ activeController' = l
    /\ activeApplicationId' = settings[l].app
    /\ activeMode' = settings[l].mode
    /\ UNCHANGED <<settings, api, resetDue, running, executing, global, direct, tokenVars>>

(* It throws, before the hook is published (an unacceptable widgetUrl) or  *)
(* after (a policy of the page refuses the script's src): the hook stays.  *)
InitThrows(l) ==
    /\ load[l] = "starting"
    /\ load' = [load EXCEPT ![l] = "thrown"]
    /\ initializing' = None
    /\ \/ UNCHANGED hookVars
       \/ /\ providerActive' = providerActive \cup {l}
          /\ hooks' = hooks \cup {l}
    /\ UNCHANGED <<activeController, activeApplicationId, activeMode, settings, api,
                   resetDue, pageVars, tokenVars>>
----------------------------------------------------------------------------
(* The load's promise.                                                     *)

(* The queued reactions have run: the browser fires the next event. *)
ReactionsRan == initializing = None /\ resetDue = None

(* The page takes its next task, which it never does in the midst of a     *)
(* script.                                                                 *)
NextEvent == ReactionsRan /\ executing = None

(* fail(): listeners and timer are cleared (the load is no longer pending), *)
(* the hook is retired, the script element removed and the promise          *)
(* rejected, which queues the reaction of initialize().                     *)
Fail(l) ==
    /\ load' = [load EXCEPT ![l] = "failed"]
    /\ providerActive' = providerActive \ {l}
    /\ hooks' = hooks \ {l}
    /\ inDocument' = inDocument \ {l}
    /\ resetDue' = l
    /\ UNCHANGED api

(* Mutant: whatever is on window is adopted. *)
FinishUnchecked(l, installed) ==
    /\ load' = [load EXCEPT ![l] = "ready"]
    /\ api' = [api EXCEPT ![l] = installed]
    /\ UNCHANGED <<hookVars, inDocument, resetDue>>

(* finish(): the API on window is adopted if it has the widget's shape. *)
Finish(l, installed) ==
    IF installed \in Installers
    THEN /\ load' = [load EXCEPT ![l] = "ready"]
         /\ api' = [api EXCEPT ![l] = installed]
         /\ UNCHANGED <<hookVars, inDocument, resetDue>>
    ELSE Fail(l)

(* Mutants: any ready event counts; a settled load still listens. *)
ConcernedByAnyEvent(source) == {l \in Loads : load[l] = "pending"}
ConcernedWhenSettled(source) == {l \in Loads : l = source}

(* The loads that an event of script `source' concerns: its own load event, *)
(* or bugdrop:ready while it is document.currentScript.                     *)
Concerned(source) == {l \in Loads : l = source /\ load[l] = "pending"}

(* The event runs the listeners that are still registered. *)
Dispatch(source, installed) ==
    IF Concerned(source) = {}
    THEN UNCHANGED <<load, api, hookVars, inDocument, resetDue>>
    ELSE \E l \in Concerned(source) : Finish(l, installed)

(* A widget script runs.  It installs its API, or something else, or       *)
(* nothing (an exception, or not the widget), and it may announce itself   *)
(* with bugdrop:ready.  The script of a failed load runs all the same.     *)
ScriptRuns(l) ==
    /\ NextEvent
    /\ l \in fetching
    /\ fetching' = fetching \ {l}
    /\ running' = running \cup {l}
    /\ executing' = l
    /\ global' \in {l, "incompatible", global}
    /\ \/ Dispatch(l, global')
       \/ UNCHANGED <<load, api, hookVars, inDocument, resetDue>>
    /\ UNCHANGED <<moduleVars, settings, direct, tokenVars>>

(* Its load event fires, whether it installed anything or not. *)
ScriptLoaded ==
    /\ ReactionsRan
    /\ executing # None
    /\ executing' = None
    /\ Dispatch(executing, global)
    /\ UNCHANGED <<moduleVars, settings, fetching, running, global, direct, tokenVars>>

(* The script cannot be fetched. *)
ScriptErrors(l) ==
    /\ NextEvent
    /\ l \in fetching
    /\ fetching' = fetching \ {l}
    /\ IF load[l] = "pending"
       THEN Fail(l)
       ELSE UNCHANGED <<load, api, hookVars, inDocument, resetDue>>
    /\ UNCHANGED <<moduleVars, settings, running, executing, global, direct, tokenVars>>

(* Mutant: the timer starts when the script has been fetched. *)
LoadTimesOutAfterFetch(l) ==
    /\ NextEvent
    /\ load[l] = "pending" /\ l \notin fetching
    /\ Fail(l)
    /\ UNCHANGED <<moduleVars, settings, fetching, running, executing, global, direct,
                   tokenVars>>

LoadTimesOut(l) ==
    /\ NextEvent
    /\ load[l] = "pending"
    /\ Fail(l)
    /\ UNCHANGED <<moduleVars, settings, fetching, running, executing, global, direct,
                   tokenVars>>

(* Mutant: the controller of the failed load is kept. *)
ResetModeOnly ==
    /\ initializing = None
    /\ resetDue # None /\ resetDue' = None
    /\ activeMode' = None
    /\ UNCHANGED <<activeController, activeApplicationId, initializing, settings, load,
                   api, pageVars, hookVars, tokenVars>>

(* The reaction to the rejection, whichever controller is active by then. *)
Reset ==
    /\ initializing = None
    /\ resetDue # None
    /\ resetDue' = None
    /\ activeController' = None
    /\ activeApplicationId' = None
    /\ activeMode' = None
    /\ UNCHANGED <<initializing, settings, load, api, pageVars, hookVars, tokenVars>>

(* A direct installation is added to the page, and its script runs and     *)
(* announces itself.                                                       *)
DirectAdded ==
    /\ NextEvent
    /\ direct = "absent"
    /\ direct' = "inDocument"
    /\ UNCHANGED <<moduleVars, loadVars, inDocument, fetching, running, executing, global,
                   hookVars, tokenVars>>

DirectInstalls ==
    /\ NextEvent
    /\ direct = "inDocument"
    /\ direct' = "installed"
    /\ global' = "direct"
    /\ Dispatch("direct", global')
    /\ UNCHANGED <<moduleVars, settings, fetching, running, executing, tokenVars>>
----------------------------------------------------------------------------
(* The token hook.                                                         *)

(* Mutant: the opt-in entrypoint does not remember its reports. *)
AskTokenAgain(l, s) ==
    /\ initializing = None
    /\ l \in running \cap providerActive
    /\ outstanding[<<l, s>>] < MaxAsks
    /\ outstanding' = [outstanding EXCEPT ![<<l, s>>] = @ + 1]
    /\ settings[l].mode = "opt-in"
    /\ asks' = [asks EXCEPT ![<<settings[l].app, s>>] = @ + 1]
    /\ UNCHANGED <<moduleVars, loadVars, pageVars, hookVars, attempted, delivered>>

(* The widget of load l asks for a token for submission s.  The hook of a  *)
(* retired load refuses; the opt-in entrypoint refuses a report it has     *)
(* already asked for, and records a new one before its callback runs.      *)
AskToken(l, s) ==
    LET report == <<settings[l].app, s>> IN
    /\ initializing = None
    /\ l \in running
    /\ l \in providerActive
    /\ outstanding[<<l, s>>] < MaxAsks
    /\ outstanding' = [outstanding EXCEPT ![<<l, s>>] = @ + 1]
    /\ IF settings[l].mode = "opt-in"
       THEN /\ report \notin attempted
            /\ attempted' = attempted \cup {report}
            /\ asks' = [asks EXCEPT ![report] = @ + 1]
       ELSE UNCHANGED <<attempted, asks>>
    /\ UNCHANGED <<moduleVars, loadVars, pageVars, hookVars, delivered>>

(* Mutant: the hook is not tested again after the callback. *)
TokenAnsweredUnchecked(l, s) ==
    /\ initializing = None
    /\ outstanding[<<l, s>>] > 0
    /\ outstanding' = [outstanding EXCEPT ![<<l, s>>] = @ - 1]
    /\ delivered' = delivered \cup {<<l, s>>}
    /\ UNCHANGED <<moduleVars, loadVars, pageVars, hookVars, attempted, asks>>

(* The callback settles, with a usable capability or without: the token is *)
(* handed over if the load has not been retired in the meantime.           *)
TokenAnswered(l, s) ==
    /\ initializing = None
    /\ outstanding[<<l, s>>] > 0
    /\ outstanding' = [outstanding EXCEPT ![<<l, s>>] = @ - 1]
    /\ \/ UNCHANGED delivered
       \/ /\ l \in providerActive
          /\ delivered' = delivered \cup {<<l, s>>}
    /\ UNCHANGED <<moduleVars, loadVars, pageVars, hookVars, attempted, asks>>
----------------------------------------------------------------------------
Next ==
    \/ \E l \in Loads :
         \/ BeginInit(l) \/ EndInit(l) \/ InitThrows(l)
         \/ ScriptRuns(l) \/ ScriptErrors(l) \/ LoadTimesOut(l)
         \/ \E s \in Submissions : AskToken(l, s) \/ TokenAnswered(l, s)
    \/ ScriptLoaded \/ Reset \/ DirectAdded \/ DirectInstalls

Spec == Init /\ [][Next]_vars

(* The timer of a load and the reaction to its rejection run.  Nothing is  *)
(* assumed of the network, the widget or the customer's callback.          *)
FairSpec ==
    /\ Spec
    /\ WF_vars(Reset) /\ WF_vars(ScriptLoaded)
    /\ \A l \in Loads : WF_vars(EndInit(l) \/ InitThrows(l)) /\ WF_vars(LoadTimesOut(l))
----------------------------------------------------------------------------
(* Properties.                                                             *)

Live(l) == load[l] \in {"pending", "ready"}

(* A load that is pending or ready is the one init returns, for its own    *)
(* Application and entrypoint.                                             *)
OneLiveLoad ==
    \A l \in Loads : Live(l) =>
        /\ activeController = l
        /\ activeApplicationId = settings[l].app
        /\ activeMode = settings[l].mode
        /\ l \in inDocument \cap hooks \cap providerActive
        /\ resetDue = None

(* A window.BugDrop installed by somebody else before the load settled is  *)
(* adopted only at the end of the load's own script.                       *)
ReadyAfterOwnScript ==
    \A l \in Loads : load[l] = "ready" => l \in running /\ api[l] # None

(* No second load is started beside a live one, the late reaction to       *)
(* another load's failure never clears it, and its controller never        *)
(* becomes ready before its script has run (loader.ts:99-133, 202-213).    *)
LiveLoadIsActive == OneLiveLoad /\ ReadyAfterOwnScript

(* A settled load stays as it settled, and its controller keeps the API it *)
(* adopted, whatever runs or announces itself on the page afterwards.      *)
SettledLoadIsFinal ==
    [][\A l \in Loads : load[l] \in {"ready", "failed", "thrown"} =>
          load'[l] = load[l] /\ api'[l] = api[l]]_vars

(* A token reaches a widget only while the controller of its own load is   *)
(* the active one: not after a failure, although the callback was asked    *)
(* before, and not through the hook of an earlier load whose script ran    *)
(* late (loader.ts:146-149, 184-185).                                      *)
TokenOnlyThroughActiveLoad ==
    [][\A x \in delivered' \ delivered :
          x[1] = activeController /\ Live(x[1])]_vars

(* The opt-in callback is called at most once for a report in the lifetime *)
(* of the page: across reentry, concurrent requests, failed callbacks and  *)
(* reloads of the widget (packages/browser/README.md:57-61).               *)
OptInAsksOnce == \A r \in Reports : asks[r] <= 1

(* "captures only its own script API"                                      *)
(* (test/browser-opt-in-lifecycle.test.ts:50).                             *)
CapturesOnlyItsOwnApi ==
    \A l \in Loads : load[l] = "ready" => api[l] = l

(* A load settles although its script never answers, and a failed one      *)
(* gives the page back: init can start another load or says why not        *)
(* (loader.ts:129-133, 166-171).                                           *)
EveryLoadSettles ==
    \A l \in Loads :
        load[l] = "pending" ~>
            load[l] = "ready" \/ (load[l] = "failed" /\ activeController # l)
============================================================================
