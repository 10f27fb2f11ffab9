------------------------------ MODULE Activation ------------------------------
(***************************************************************************)
(* Everything that changes which version runs, as JS sees it               *)
(* (clientActivation.ts): switches guarded by applyingUpdate and its       *)
(* generation, the watchdog that releases the flag when a reload did not   *)
(* restart the app, restarts, resets and markSuccess.                      *)
(***************************************************************************)
EXTENDS ClientState

VARIABLES
    act,      \* per caller, where its call is
    timers,   \* the reload watchdogs scheduled or queued as a task
    reloading \* native code is about to replace the JS context

actVars == <<act, timers, reloading>>
activationVars == <<sharedVars, nativeFiles, callCount, actVars>>

Place == {"idle", "switchHook", "reload", "resetCalled", "resetDone",
          "restartHook", "restart"}
ActCall == [at : Place, hash : MaybeHash, generation : Nat, restart : BOOLEAN]
NotActing == [at |-> "idle", hash |-> NoHash, generation |-> 0, restart |-> FALSE]

ActTypeOK ==
    /\ act \in [Caller -> ActCall]
    /\ timers \subseteq [generation : Nat, queued : BOOLEAN]
    /\ reloading \in BOOLEAN

ActInit ==
    /\ act = [c \in Caller |-> NotActing]
    /\ timers = {}
    /\ reloading = FALSE

Goes(c, place) == act' = [act EXCEPT ![c].at = place]
Returns(c) == act' = [act EXCEPT ![c] = NotActing]

(* What an action about a switch leaves alone.                             *)
UnchangedBySwitch ==
    UNCHANGED <<downloadedHash, downloadingTasks, progressCallbacks, apkStatus,
                marked, markingPromise, nativeFiles>>
UnchangedByOthers == UNCHANGED <<sharedVars, nativeFiles>>

-----------------------------------------------------------------------------
(* clearTimeout reaches a timer that is scheduled, not one already queued. *)
Cancelled == {t \in timers : t.queued \/ t.generation # reloadWatchdog}

BeginApplyingUpdate ==
    /\ reloadWatchdog' = NoTimer
    /\ timers' = Cancelled
    /\ applyingUpdate' = TRUE
    /\ generation' = generation + 1

OwnsApplyingUpdate(g) == g = generation /\ applyingUpdate

(* Mutant: whoever finishes releases the flag.                             *)
FinishAnyway(g) ==
    /\ UNCHANGED generation
    /\ reloadWatchdog' = NoTimer
    /\ timers' = Cancelled
    /\ applyingUpdate' = FALSE

FinishApplyingUpdate(g) ==
    /\ UNCHANGED generation
    /\ IF OwnsApplyingUpdate(g)
       THEN /\ reloadWatchdog' = NoTimer
            /\ timers' = Cancelled
            /\ applyingUpdate' = FALSE
       ELSE UNCHANGED <<reloadWatchdog, timers, applyingUpdate>>

InvalidateApplyingUpdate ==
    /\ generation' = generation + 1
    /\ reloadWatchdog' = NoTimer
    /\ timers' = Cancelled
    /\ applyingUpdate' = FALSE

(* Mutant: the app is trusted to restart.                                  *)
NeverArm(g) == UNCHANGED <<reloadWatchdog, timers>>

ArmReloadWatchdog(g) ==
    IF OwnsApplyingUpdate(g)
    THEN /\ timers' = Cancelled \cup {[generation |-> g, queued |-> FALSE]}
         /\ reloadWatchdog' = g
    ELSE UNCHANGED <<reloadWatchdog, timers>>

-----------------------------------------------------------------------------
(* A switch that is not ignored: the flag is taken before anything awaits. *)
SwitchVersion(c, h) ==
    /\ act[c].at = "idle"
    /\ downloadedHash = h
    /\ ~applyingUpdate
    /\ Called
    /\ BeginApplyingUpdate
    /\ act' = [act EXCEPT ![c] = [at |-> "switchHook", hash |-> h,
                                  generation |-> generation + 1, restart |-> FALSE]]
    /\ UnchangedBySwitch
    /\ UNCHANGED reloading

(* Mutant: nobody looks at the ownership again after the hook.             *)
AfterHookUnchecked(c) == Goes(c, "reload")

(* A reset may have gone by while the hook was awaited.                    *)
AfterHook(c) ==
    IF OwnsApplyingUpdate(act[c].generation) THEN Goes(c, "reload") ELSE Returns(c)

HookAllows(c) ==
    /\ act[c].at = "switchHook"
    /\ AfterHook(c)
    /\ UnchangedByOthers
    /\ UNCHANGED <<callCount, timers, reloading>>

SwitchEnds(c) ==
    /\ FinishApplyingUpdate(act[c].generation)
    /\ Returns(c)
    /\ UnchangedBySwitch
    /\ UNCHANGED <<callCount, reloading>>

(* beforeReload declined or threw; reloadUpdate rejected.                  *)
HookDeclines(c) == act[c].at = "switchHook" /\ SwitchEnds(c)
ReloadFails(c) == act[c].at = "reload" /\ SwitchEnds(c)

(* It may resolve though nothing will restart.                             *)
ReloadResolves(c) ==
    /\ act[c].at = "reload"
    /\ ArmReloadWatchdog(act[c].generation)
    /\ reloading' \in {reloading, TRUE}
    /\ Returns(c)
    /\ UnchangedBySwitch
    /\ UNCHANGED <<callCount, generation, applyingUpdate>>

TimerDue(t) ==
    /\ t \in timers /\ ~t.queued
    /\ timers' = (timers \ {t}) \cup {[t EXCEPT !.queued = TRUE]}
    /\ UnchangedByOthers
    /\ UNCHANGED <<callCount, act, reloading>>

(* Mutant: the timer is not asked whether it is still the one.             *)
StillTheWatchdogUnasked(t) == TRUE

StillTheWatchdog(t) ==
    reloadWatchdog = t.generation /\ OwnsApplyingUpdate(t.generation)

TimerFires(t) ==
    /\ t \in timers /\ t.queued
    /\ timers' = timers \ {t}
    /\ IF StillTheWatchdog(t)
       THEN reloadWatchdog' = NoTimer /\ applyingUpdate' = FALSE
       ELSE UNCHANGED <<reloadWatchdog, applyingUpdate>>
    /\ UnchangedBySwitch
    /\ UNCHANGED <<callCount, generation, act, reloading>>

RestartApp(c) ==
    /\ act[c].at = "idle"
    /\ Called
    /\ Goes(c, "restartHook")
    /\ UnchangedByOthers
    /\ UNCHANGED <<timers, reloading>>

RestartHook(c) ==
    /\ act[c].at = "restartHook"
    /\ \/ Goes(c, "restart")
       \/ Returns(c)
    /\ UnchangedByOthers
    /\ UNCHANGED <<callCount, timers, reloading>>

RestartEnds(c) ==
    /\ act[c].at = "restart"
    /\ Returns(c)
    /\ reloading' \in {reloading, TRUE}
    /\ UnchangedByOthers
    /\ UNCHANGED <<callCount, timers>>

ResetToPackagedBundle(c, restart) ==
    /\ act[c].at = "idle"
    /\ Called
    /\ act' = [act EXCEPT ![c] = [NotActing EXCEPT !.at = "resetCalled", !.restart = restart]]
    /\ UnchangedByOthers
    /\ UNCHANGED <<timers, reloading>>

(* The native side wipes the state; the files go soon after.               *)
NativeReset(c) ==
    /\ act[c].at = "resetCalled"
    /\ Goes(c, "resetDone")
    /\ installed' = {}
    /\ named' = {}
    /\ UNCHANGED <<sharedVars, callCount, timers, reloading>>

ResetFails(c) ==
    /\ act[c].at = "resetCalled"
    /\ Returns(c)
    /\ UnchangedByOthers
    /\ UNCHANGED <<callCount, timers, reloading>>

ResetResolves(c) ==
    /\ act[c].at = "resetDone"
    /\ downloadedHash' = NoHash
    /\ marked' = FALSE
    /\ InvalidateApplyingUpdate
    /\ apkStatus' = "none"
    /\ IF act[c].restart THEN Goes(c, "restartHook") ELSE Returns(c)
    /\ UNCHANGED <<downloadingTasks, progressCallbacks, markingPromise, nativeFiles,
                   callCount, reloading>>

(* markSuccess of a first launch; concurrent callers share one call.       *)
MarkSuccess ==
    /\ ~marked /\ markingPromise = "none"
    /\ Called
    /\ markingPromise' = "native"
    /\ UNCHANGED <<downloadedHash, downloadingTasks, progressCallbacks, apkStatus, marked,
                   applyingUpdate, generation, reloadWatchdog, nativeFiles, actVars>>

(* The call succeeds or fails; finally, a task later, forgets the promise. *)
PerformMarkSuccess ==
    /\ \/ /\ markingPromise = "native"
          /\ markingPromise' = "settled"
          /\ marked' \in {marked, TRUE}
       \/ /\ markingPromise = "settled"
          /\ markingPromise' = "none"
          /\ UNCHANGED marked
    /\ UNCHANGED <<downloadedHash, downloadingTasks, progressCallbacks, apkStatus,
                   applyingUpdate, generation, reloadWatchdog, nativeFiles, callCount, actVars>>

(* The JS context is gone, with its timers and what it waited for.         *)
ContextReplaced ==
    /\ act' = [c \in Caller |-> NotActing]
    /\ timers' = {}
    /\ reloading' = FALSE
    /\ FreshShared
    /\ UNCHANGED <<nativeFiles, callCount>>

ActTimer == \E t \in timers : TimerDue(t) \/ TimerFires(t)
ActReply(c) ==
    \/ ReloadFails(c) \/ ReloadResolves(c) \/ RestartEnds(c)
    \/ NativeReset(c) \/ ResetFails(c) \/ ResetResolves(c)
ActHook(c) == HookAllows(c) \/ HookDeclines(c) \/ RestartHook(c)

ActStep ==
    \/ \E c \in Caller :
        \/ \E h \in Hash : SwitchVersion(c, h)
        \/ RestartApp(c)
        \/ \E restart \in BOOLEAN : ResetToPackagedBundle(c, restart)
        \/ ActReply(c) \/ ActHook(c)
    \/ ActTimer

(* A download leaves its version (Downloader.PersistHashInfo).             *)
DownloadArrives(h) ==
    /\ Called
    /\ downloadedHash' = h
    /\ installed' = installed \cup {h}
    /\ named' = named \cup {h}
    /\ UNCHANGED <<downloadingTasks, progressCallbacks, apkStatus, marked, markingPromise,
                   applyingUpdate, generation, reloadWatchdog, actVars>>

ActNext ==
    \/ ActStep
    \/ MarkSuccess \/ PerformMarkSuccess
    \/ \E h \in Hash : DownloadArrives(h)
    \/ reloading /\ ContextReplaced

(* Native calls are answered, timers fire and continuations run; a hook of *)
(* the business code may never answer.                                     *)
ActFairness ==
    /\ WF_activationVars(ActTimer)
    /\ WF_activationVars(PerformMarkSuccess)
    /\ \A c \in Caller : WF_activationVars(ActReply(c))

ActSpec ==
    ClientStateInit /\ ActInit /\ [][ActNext]_activationVars /\ ActFairness

-----------------------------------------------------------------------------
Switching(c) == act[c].at \in {"switchHook", "reload"}
IsOwner(c) == Switching(c) /\ act[c].generation = generation
WatchdogIsOwner ==
    /\ reloadWatchdog = generation
    /\ \E t \in timers : t.generation = generation

(* applyingUpdate is up exactly as long as one party is to take it down:   *)
(* the switch that raised it, or after its reload resolved the watchdog it *)
(* left.  A reset, a late hook, a late rejection or a cancelled timer that *)
(* was already queued neither leaves a flag nobody lowers, which would     *)
(* swallow every later switch, nor lowers the flag of a newer switch.      *)
FlagHasOneOwner ==
    /\ applyingUpdate <=> WatchdogIsOwner \/ \E c \in Caller : IsOwner(c)
    /\ ~(WatchdogIsOwner /\ \E c \in Caller : IsOwner(c))
    /\ \A c, d \in Caller : IsOwner(c) /\ IsOwner(d) => c = d

(* A switch that a reset superseded is inert from then on: however its     *)
(* hook and its native call end, it requests no reload, and neither lowers *)
(* the flag nor cancels the watchdog of a newer switch.                    *)
SupersededSwitchIsInert ==
    [][\A c \in Caller :
        (Switching(c) /\ act[c].generation # generation /\ act'[c] # act[c] /\ ~reloading) =>
            /\ act'[c] = NotActing
            /\ UNCHANGED <<applyingUpdate, generation, reloadWatchdog>>]_activationVars

(* A switch whose hook has answered does not hold the flag for the life of *)
(* the context: the native call is answered, and when it resolves without  *)
(* a restart the watchdog releases the flag.                               *)
ReloadReleasesTheFlag ==
    []<>(applyingUpdate => \E c \in Caller : IsOwner(c) /\ act[c].at = "switchHook")
=============================================================================
