------------------------- MODULE HarmonyCoordinator -------------------------
(***************************************************************************)
(* The cold-start round of the Harmony port: SyncCoordinator.ts with       *)
(* BundlePreparationResult.ts and the context's commitSyncResult.          *)
(*                                                                         *)
(* One round per process: the delayed timer and the hosts that call        *)
(* prepareBundle share its promise, settled or not.  What the round does   *)
(* next is the engine's decision (RoundEngine); here any decision it could *)
(* take is taken, and each await ends an action.  A configuration stands   *)
(* for all that are equivalent to it.                                      *)
(***************************************************************************)
EXTENDS Naturals, FiniteSets

CONSTANTS
    Setting,          \* configurations
    Runnable,         \* those that can start a round
    NoSetting,
    Host,             \* callers of prepareBundle
    MaxWorldChanges,  \* bound: resets, configurations and other switches
    MaxAttempts,      \* bound: downloads of a round
    MaxProcesses      \* bound: launches

ASSUME SettingAssumption == Runnable \subseteq Setting /\ NoSetting \notin Setting
ASSUME CoordinatorBounds ==
    {MaxWorldChanges, MaxProcesses} \subseteq Nat /\ MaxAttempts \in Nat \ {0}

VARIABLES
    setting,      \* the configuration in the store
    resets,       \* resetGeneration
    settings,     \* nativeConfigGeneration
    crumb,        \* the round's marker: in memory and on disk
    scheduled,    \* whether this process has launched, and its delayed timer
    jsSetting,    \* what JS completed a check with
    round,        \* the round of this process
    host,         \* what each host waits for, or was told
    selected,     \* what the next launch loads: in memory and on disk
    changes, processes

coordinatorVars == <<setting, resets, settings, crumb, scheduled, jsSetting, round, host,
                     selected, changes, processes>>
world == <<setting, resets, settings, selected, changes>>
processVars == <<scheduled, jsSetting, processes>>

MaybeSetting == Setting \cup {NoSetting}
RoundPhase == {"none", "deferred", "marking", "collecting", "asking", "fetching", "committing",
               "flushing", "clearing", "settled"}
Outcome == {"none", "skipped", "noUpdate", "failed", "cancelled", "downloaded", "activated"}
NoRound == [at |-> "none", setting |-> NoSetting, resets |-> 0, settings |-> 0,
            attempt |-> 0, activates |-> FALSE, result |-> "none"]
NoHost == [at |-> "idle", setting |-> NoSetting, timed |-> FALSE, told |-> "none"]
Chosen == {"other", "round"}

CoordinatorTypeOK ==
    /\ setting \in MaybeSetting /\ jsSetting \in MaybeSetting
    /\ resets \in 0 .. MaxWorldChanges /\ settings \in 0 .. MaxWorldChanges
    /\ crumb \in [memory : BOOLEAN, disk : BOOLEAN]
    /\ scheduled \in {"no", "soon", "later", "fired"}
    /\ round \in [at : RoundPhase, setting : MaybeSetting, resets : Nat, settings : Nat,
                  attempt : 0 .. MaxAttempts, activates : BOOLEAN, result : Outcome]
    /\ host \in [Host -> [at : {"idle", "waiting", "told"}, setting : MaybeSetting,
                          timed : BOOLEAN, told : Outcome \cup {"timeout"}]]
    /\ selected \in [memory : Chosen, disk : Chosen]
    /\ changes \in 0 .. MaxWorldChanges /\ processes \in 0 .. MaxProcesses

CoordinatorInit ==
    /\ setting \in MaybeSetting
    /\ resets = 0 /\ settings = 0
    /\ crumb = [memory |-> FALSE, disk |-> FALSE]
    /\ scheduled = "no" /\ jsSetting = NoSetting
    /\ round = NoRound /\ host = [h \in Host |-> NoHost]
    /\ selected = [memory |-> "other", disk |-> "other"]
    /\ changes = 0 /\ processes = 0

-----------------------------------------------------------------------------
(***************************************************************************)
(* Scheduling                                                              *)
(***************************************************************************)
(* The first getBundleUrl of a process: a leftover marker spends no delay. *)
SchedulesRound ==
    /\ scheduled = "no"
    /\ scheduled' = IF crumb.memory THEN "soon" ELSE "later"
    /\ UNCHANGED <<world, crumb, jsSetting, round, host, processes>>

(* readNativeConfig: the one gate of the preflight, the hosts and the round. *)
Rejected == setting \notin Runnable

(* startNativeRound: the preflight uses nothing up, and the round starts   *)
(* once, in a microtask of its own.                                        *)
StartsOrJoins ==
    round' = IF ~Rejected /\ round.at = "none"
             THEN [round EXCEPT !.at = "deferred"] ELSE round

JsAsked == jsSetting # NoSetting /\ jsSetting = setting

DelayEnds ==
    /\ scheduled \in {"soon", "later"} /\ scheduled' = "fired"
    /\ IF JsAsked THEN UNCHANGED round ELSE StartsOrJoins
    /\ UNCHANGED <<world, crumb, jsSetting, host, processes>>

(* prepareBundleNative, up to its first await.                             *)
HostAsks(h, timed) ==
    /\ host[h].at = "idle"
    /\ \/ /\ scheduled = "no" \/ Rejected
          /\ host' = [host EXCEPT ![h] = [NoHost EXCEPT !.at = "told", !.told = "skipped"]]
          /\ UNCHANGED round
       \/ /\ scheduled # "no" /\ ~Rejected
          /\ host' = [host EXCEPT ![h] = [NoHost EXCEPT !.at = "waiting", !.setting = setting,
                                                       !.timed = timed]]
          /\ StartsOrJoins
    /\ UNCHANGED <<world, crumb, processVars>>

Tells(h, outcome) == host' = [host EXCEPT ![h] = [NoHost EXCEPT !.at = "told", !.told = outcome]]

HostExpires(h) ==
    /\ host[h].at = "waiting" /\ host[h].timed /\ Tells(h, "timeout")
    /\ UNCHANGED <<world, crumb, processVars, round>>

(* Mutant: the settings are compared, not how often they changed, and a    *)
(* reset goes unnoticed.                                                   *)
CancelledBySetting(h) == host[h].setting # round.setting \/ host[h].setting # setting
Cancelled(h) ==
    \/ round.settings # settings
    \/ host[h].setting # round.setting \/ host[h].setting # setting
    \/ round.resets # resets

HostReturns(h) ==
    /\ host[h].at = "waiting" /\ round.at = "settled"
    /\ Tells(h, IF Cancelled(h) THEN "cancelled" ELSE round.result)
    /\ UNCHANGED <<world, crumb, processVars, round>>

(* A host that was told may ask again.                                     *)
HostForgets(h) ==
    /\ host[h].at = "told" /\ host' = [host EXCEPT ![h] = NoHost]
    /\ UNCHANGED <<world, crumb, processVars, round>>

-----------------------------------------------------------------------------
(***************************************************************************)
(* The round (runOnce, perform, commit, finishRound)                       *)
(***************************************************************************)
RoundOnly == UNCHANGED <<world, processVars, host>>

(* The generations and the configuration are sampled before any IO; a      *)
(* configuration replaced since the preflight may not be runnable.         *)
RoundBegins ==
    /\ round.at = "deferred"
    /\ LET sampled == [round EXCEPT !.setting = setting, !.resets = resets,
                                    !.settings = settings]
       IN IF Rejected
          THEN /\ round' = [sampled EXCEPT !.at = "settled", !.result = "skipped"]
               /\ UNCHANGED crumb
          ELSE /\ round' = [sampled EXCEPT !.at = "marking"]
               /\ crumb' = [crumb EXCEPT !.memory = TRUE]
    /\ RoundOnly

(* Failing to persist the marker does not stop the round.                  *)
Marked(ok) ==
    /\ round.at = "marking" /\ round' = [round EXCEPT !.at = "collecting"]
    /\ crumb' = [crumb EXCEPT !.disk = IF ok THEN crumb.memory ELSE @]
    /\ RoundOnly

EnvComes ==
    /\ round.at = "collecting" /\ round' = [round EXCEPT !.at = "asking"]
    /\ UNCHANGED crumb /\ RoundOnly

Finishes(r, result) ==
    /\ round' = [r EXCEPT !.at = "clearing", !.result = result]
    /\ crumb' = [crumb EXCEPT !.memory = FALSE]

(* No server answers within its time (httpRequest).                        *)
Unanswered == round.at = "asking" /\ RoundOnly /\ Finishes(round, "failed")

(* Every answer of the server, one that names a version on disk included.  *)
Answered ==
    /\ round.at = "asking" /\ RoundOnly
    /\ \/ Finishes(round, "noUpdate")
       \/ /\ round' \in {[round EXCEPT !.at = "fetching", !.attempt = 1],
                         [round EXCEPT !.at = "committing", !.activates = TRUE],
                         [round EXCEPT !.at = "committing", !.activates = FALSE]}
          /\ UNCHANGED crumb

Fetched ==
    /\ round.at = "fetching" /\ RoundOnly /\ UNCHANGED crumb
    /\ \E activates \in BOOLEAN :
          round' = [round EXCEPT !.at = "committing", !.activates = activates]

(* A failed attempt, or one whose time is up: the task may still run.      *)
FetchLost ==
    /\ round.at = "fetching" /\ RoundOnly
    /\ IF round.attempt < MaxAttempts
       THEN round' = [round EXCEPT !.attempt = @ + 1] /\ UNCHANGED crumb
       ELSE Finishes(round, "failed")

FetchFails == FetchLost
(* Mutant: an attempt has no deadline of its own.                          *)
FetchNeverExpires == FALSE
FetchExpires == FetchLost

(* commitSyncResult: nothing is awaited between the last look at the       *)
(* generation and the activation.                                          *)
RoundOutdated == round.resets # resets

CommitRefused ==
    /\ round.at = "committing"
    /\ \/ RoundOutdated /\ Finishes(round, "cancelled")
       \/ Finishes(round, "failed")
    /\ RoundOnly

Commits ==
    /\ round.at = "committing" /\ ~RoundOutdated
    /\ round' = [round EXCEPT !.at = "flushing"]
    /\ selected' = [selected EXCEPT !.memory = IF round.activates THEN "round" ELSE @]
    /\ UNCHANGED <<setting, resets, settings, changes, crumb, processVars, host>>

CommitFlushed(ok) ==
    /\ round.at = "flushing"
    /\ selected' = [selected EXCEPT !.disk = IF ok THEN selected.memory ELSE @]
    /\ Finishes(round, IF ~ok THEN "failed"
                       ELSE IF round.activates THEN "activated" ELSE "downloaded")
    /\ UNCHANGED <<setting, resets, settings, changes, processVars, host>>

MarkCleared(ok) ==
    /\ round.at = "clearing" /\ round' = [round EXCEPT !.at = "settled"]
    /\ crumb' = [crumb EXCEPT !.disk = IF ok THEN crumb.memory ELSE @]
    /\ RoundOnly

-----------------------------------------------------------------------------
(***************************************************************************)
(* The rest of the app                                                     *)
(***************************************************************************)
Change == changes < MaxWorldChanges /\ changes' = changes + 1

(* setNativeConfig, from JS or from the host.                              *)
SettingChanges(c) ==
    /\ Change /\ c # setting
    /\ setting' = c /\ resets' = resets + 1 /\ settings' = settings + 1
    /\ jsSetting' = NoSetting
    /\ UNCHANGED <<crumb, scheduled, round, host, selected, processes>>

(* A reset whose flush ends before anything else happens.                  *)
WorldResets ==
    /\ Change /\ resets' = resets + 1
    /\ selected' = [memory |-> "other", disk |-> "other"]
    /\ UNCHANGED <<setting, settings, crumb, processVars, round, host>>

JsCompletes(c) ==
    /\ scheduled # "no" /\ jsSetting # c /\ jsSetting' = c
    /\ UNCHANGED <<world, crumb, scheduled, round, host, processes>>

CoordinatorDies ==
    /\ processes < MaxProcesses /\ processes' = processes + 1
    /\ scheduled' = "no" /\ jsSetting' = NoSetting
    /\ resets' = 0 /\ settings' = 0 /\ changes' = changes
    /\ crumb' = [crumb EXCEPT !.memory = crumb.disk]
    /\ round' = NoRound /\ host' = [h \in Host |-> NoHost]
    /\ selected' = [selected EXCEPT !.memory = selected.disk]
    /\ UNCHANGED setting

RoundAnswers ==
    \/ RoundBegins \/ EnvComes \/ Unanswered \/ Answered \/ FetchExpires
    \/ CommitRefused \/ Commits
    \/ \E ok \in BOOLEAN : Marked(ok) \/ CommitFlushed(ok) \/ MarkCleared(ok)

(* Nothing bounds the download itself.                                     *)
RoundTask == Fetched \/ FetchFails

CoordinatorNext ==
    \/ SchedulesRound \/ DelayEnds \/ RoundAnswers \/ RoundTask
    \/ \E h \in Host :
          \/ \E timed \in BOOLEAN : HostAsks(h, timed)
          \/ HostExpires(h) \/ HostReturns(h) \/ HostForgets(h)
    \/ \E c \in Setting : SettingChanges(c) \/ JsCompletes(c)
    \/ WorldResets \/ CoordinatorDies

CoordinatorSpec == CoordinatorInit /\ [][CoordinatorNext]_coordinatorVars

-----------------------------------------------------------------------------
(***************************************************************************)
(* Properties                                                              *)
(***************************************************************************)
(* A host that is told the round activated a version is told what the next *)
(* launch does, on disk, but for a later switch: whatever resets and       *)
(* configurations, A to B and back to A included, came while the round ran *)
(* or its result was kept.                                                 *)
ToldIsInForce ==
    [][\A h \in Host : host[h].told # "activated" /\ host'[h].told = "activated"
         => selected = [memory |-> "round", disk |-> "round"]]_coordinatorVars

(* A host that waits has not been told yet.                                *)
NobodyWaits == \A h \in Host : host[h].at # "waiting"
=============================================================================
