---------------------------- MODULE UpdateContext ----------------------------
(***************************************************************************)
(* One installation of an app on Android: the persisted update state, the  *)
(* version directories and the process that reads and writes them          *)
(* (UpdateContext.java) together with the threads that call it:            *)
(*                                                                         *)
(*   the main thread      resolves the bundle of a launch (getBundleUrl)   *)
(*                        and performs React reloads                       *)
(*   the serial thread    runs the module calls JS makes, one at a time    *)
(*   the round            SyncCoordinator's one cold-start check           *)
(*   the hold             CrashHold's last work before a crash is let go   *)
(*   the executor         installs downloads and runs cleanups, in order   *)
(*                                                                         *)
(* and with the environment: process death at any moment, the store        *)
(* replacing the binary, commits that fail, files that vanish.             *)
(*                                                                         *)
(* Every section the code runs under commitLock is one action.             *)
(* versionFilesLock is held across actions, so it is a variable.           *)
(***************************************************************************)
EXTENDS StateCore, Naturals, Sequences

CONSTANTS
    Config,          \* native configurations, up to configsEquivalent
    RunnableConfig,  \* those that let a round run (not disabled, an appKey)
    NoConfig,        \* no configuration persisted
    Calls,           \* the module calls the app makes
    MaxGeneration,   \* bound: resets and config changes in one process
    MaxQueue,        \* bound: jobs waiting in the executor
    StateWritesMayFail,  \* commits to the state store may not reach the disk
    CacheWritesMayFail,  \* nor those to the cache store
    FilesMayVanish       \* a bundle may disappear while no process runs

ASSUME ConfigAssumption == RunnableConfig \subseteq Config /\ NoConfig \notin Config
ASSUME CallsAssumption ==
    Calls \subseteq {"setNeedUpdate", "reloadUpdate", "restartApp",
                     "markSuccess", "resetToPackagedBundle", "syncNativeConfig"}
ASSUME BoundAssumption == MaxGeneration \in Nat /\ MaxQueue \in Nat
ASSUME FaultAssumption ==
    {StateWritesMayFail, CacheWritesMayFail, FilesMayVanish} \subseteq BOOLEAN

VARIABLES
    binary,          \* the installed build
    disk,            \* the state store's file
    mem,             \* the SharedPreferences map the process sees
    applyPending,    \* an apply() has not been written yet
    cacheDisk,       \* the cache store's file
    cacheMem,        \* the cache store in memory
    dirs,            \* versions whose directory is complete and verifies
    process,         \* dead, constructed, or up (a bundle was resolved)
    generation,      \* resetGeneration
    launchVersion,   \* the version getBundleUrl last resolved
    ignoreRollback,  \* a first load was consumed in this process
    launchRolledBack,  \* sLaunchRolledBackVersion
    filesLock,       \* who holds versionFilesLock
    serial,          \* the module call in progress on the serial thread
    uiReload,        \* the bundle a reload posted to the main thread will load
    js,              \* the JS context
    round,           \* the cold-start round
    unactivated,     \* unactivatedHash and unactivatedGeneration
    handler,         \* whether the crash handler is installed
    hold,            \* the crash hold
    queue,           \* jobs waiting in the download executor
    cleaning,        \* the keep names of the cleanup in progress
    \* History variables: no action's guard reads them.
    candidate,       \* the version whose one first load was used up unconfirmed
    revoked          \* versions whose last activation a reset or an upgrade
                     \* came after, or should have

store == <<disk, mem, applyPending>>
cache == <<cacheDisk, cacheMem>>
launch == <<process, generation, launchVersion, ignoreRollback, launchRolledBack>>
rescue == <<round, unactivated, handler, hold>>
executor == <<queue, cleaning>>
history == <<candidate, revoked>>
vars == <<binary, store, cache, dirs, launch, filesLock, serial, uiReload, js,
          rescue, executor, history>>

-----------------------------------------------------------------------------
(***************************************************************************)
(* Types                                                                   *)
(***************************************************************************)
MaybeConfig == Config \cup {NoConfig}

(* The state store: the core's state, the first-load marker getConstants   *)
(* consumes, the round breadcrumb and the native config.                   *)
Store == [st : State, marker : BOOLEAN, breadcrumb : BOOLEAN, config : MaybeConfig]

(* The response cache holds nothing, or the response of a round that       *)
(* started after ("fresh") or before ("stale") the last reset, upgrade or  *)
(* config change.                                                          *)
Cache == {"none", "fresh", "stale"}

NoBundle == "none"   \* no reload posted

NoCall == [op |-> "none", arg |-> NoVersion, step |-> "idle"]
SwitchCall == [op : {"setNeedUpdate", "reloadUpdate"}, arg : Version,
               step : {"called", "verified", "switched"}]
PlainCall == [op : {"restartApp", "markSuccess", "resetToPackagedBundle"},
              arg : {NoVersion}, step : {"called"}]
ConfigCall == [op : {"syncNativeConfig"}, arg : Config, step : {"called"}]
Call == {NoCall} \cup SwitchCall \cup PlainCall \cup ConfigCall

NoJs == [phase |-> "off", bundle |-> NoVersion, firstTime |-> FALSE, marked |-> FALSE]
Js == [phase : {"off", "loading", "up"}, bundle : MaybeVersion,
       firstTime : BOOLEAN, marked : BOOLEAN]

NoRound == [phase |-> "idle", version |-> NoVersion, activate |-> FALSE,
            generation |-> 0, fresh |-> TRUE]
Round == [phase : {"idle", "started", "waiting", "verify", "verified", "commit", "done"},
          version : MaybeVersion, activate : BOOLEAN,
          generation : Nat, fresh : BOOLEAN]

NothingPending == [version |-> NoVersion, generation |-> 0, fresh |-> TRUE]
Unactivated == [version : MaybeVersion, generation : Nat, fresh : BOOLEAN]

CleanupJob == [kind : {"cleanupAll", "cleanupOld"}, version : {NoVersion}]
InstallJob == [kind : {"install", "installForRound"}, version : Version]
Job == CleanupJob \cup InstallJob
Cleanup(kind) == [kind |-> kind, version |-> NoVersion]

NotCleaning == [active |-> FALSE, keep |-> {}]

StoreTypeOK ==
    /\ disk \in Store
    /\ mem \in Store
    /\ applyPending \in BOOLEAN

DeviceTypeOK ==
    /\ binary \in Binary
    /\ cacheDisk \in Cache
    /\ cacheMem \in Cache
    /\ dirs \subseteq Version
    /\ process \in {"dead", "constructed", "up"}
    /\ generation \in Nat
    /\ launchVersion \in MaybeVersion
    /\ ignoreRollback \in BOOLEAN
    /\ launchRolledBack \in MaybeVersion
    /\ candidate \in MaybeVersion
    /\ revoked \subseteq Version

ThreadTypeOK ==
    /\ filesLock \in {"free", "serial", "round", "hold", "cleanup"}
    /\ serial \in Call
    /\ uiReload \in MaybeVersion \cup {NoBundle}
    /\ js \in Js
    /\ round \in Round
    /\ unactivated \in Unactivated
    /\ handler \in BOOLEAN
    /\ hold \in {"none", "holding", "verified", "over"}
    /\ queue \in Seq(Job)
    /\ cleaning \in [active : BOOLEAN, keep : SUBSET Version]

TypeOK == StoreTypeOK /\ DeviceTypeOK /\ ThreadTypeOK

Init ==
    /\ binary \in Binary
    /\ \E c \in MaybeConfig :
         disk = [st |-> FreshState(binary), marker |-> FALSE,
                 breadcrumb |-> FALSE, config |-> c]
    /\ mem = disk
    /\ applyPending = FALSE
    /\ cacheDisk = "none"
    /\ cacheMem = "none"
    /\ dirs = {}
    /\ process = "dead"
    /\ generation = 0
    /\ launchVersion = NoVersion
    /\ ignoreRollback = FALSE
    /\ launchRolledBack = NoVersion
    /\ filesLock = "free"
    /\ serial = NoCall
    /\ uiReload = NoBundle
    /\ js = NoJs
    /\ round = NoRound
    /\ unactivated = NothingPending
    /\ handler = FALSE
    /\ hold = "none"
    /\ queue = <<>>
    /\ cleaning = NotCleaning
    /\ candidate = NoVersion
    /\ revoked = {}

-----------------------------------------------------------------------------
(***************************************************************************)
(* Persistence.  A commit() always changes the map in memory; whether the  *)
(* file follows is reported to the caller.  apply() changes the map and    *)
(* leaves the file to a later write.  Either write stores the whole map,   *)
(* so it also carries what earlier failed commits left behind.             *)
(***************************************************************************)
Reached(mayFail) == IF mayFail THEN BOOLEAN ELSE {TRUE}

Commit(s, reached) ==
    /\ mem' = s
    /\ disk' = IF reached THEN s ELSE disk
    /\ applyPending' = FALSE

Apply(s) ==
    /\ mem' = s
    /\ applyPending' = TRUE
    /\ UNCHANGED disk

FlushApply ==
    /\ applyPending
    /\ disk' = mem
    /\ applyPending' = FALSE
    /\ UNCHANGED <<binary, mem, cache, dirs, launch, filesLock, serial, uiReload,
                   js, rescue, executor, history>>

(* A response cached before a reset, an upgrade or a config change.        *)
Outdated(c) == IF c = "none" THEN c ELSE "stale"

(* clearNativeCheckCache: there is nothing to do, and nothing can fail,    *)
(* when the map holds no response.                                         *)
CacheCleared(reached) == cacheMem = "none" \/ reached

CacheFile(reached) == IF cacheMem # "none" /\ reached THEN "none" ELSE cacheDisk

(* Mutant: the cached response is left for the next round to replace.      *)
ClearCacheLater(reached, proceeds) ==
    /\ cacheMem' = Outdated(cacheMem)
    /\ cacheDisk' = Outdated(cacheDisk)

(* The cache goes because what it describes is being superseded.  With     *)
(* proceeds FALSE the operation gives up instead, superseding nothing.     *)
ClearCache(reached, proceeds) ==
    /\ cacheMem' = "none"
    /\ cacheDisk' = IF proceeds THEN Outdated(CacheFile(reached)) ELSE CacheFile(reached)

Enqueue(job) ==
    /\ Len(queue) < MaxQueue
    /\ queue' = Append(queue, job)
    /\ UNCHANGED cleaning

-----------------------------------------------------------------------------
(***************************************************************************)
(* The process: construction, launch, death                                *)
(***************************************************************************)

(* The store replaces the app while it is not running.                     *)
UpgradeBinary ==
    /\ process = "dead"
    /\ binary' \in Binary \ {binary}
    /\ UNCHANGED <<store, cache, dirs, launch, filesLock, serial, uiReload, js,
                   rescue, executor, history>>

(* The OS or the user deletes a bundle of an app that is not running.      *)
LoseFiles ==
    /\ FilesMayVanish
    /\ process = "dead"
    /\ \E v \in dirs : dirs' = dirs \ {v}
    /\ UNCHANGED <<binary, store, cache, launch, filesLock, serial, uiReload, js,
                   rescue, executor, history>>

(* The constructor.  Its cleanup cannot run before it returns: the task    *)
(* waits for the singleton.                                                *)
Construct ==
    /\ process = "dead"
    /\ process' = "constructed"
    /\ IF mem.st.binary = binary
       THEN UNCHANGED <<store, cache, executor, history>>
       ELSE /\ Enqueue(Cleanup("cleanupOld"))
            /\ \E reached \in Reached(StateWritesMayFail) :
                 Commit([mem EXCEPT !.st = SyncBinaryVersion(@, binary),
                                    !.marker = FALSE], reached)
            /\ \E reached \in Reached(CacheWritesMayFail) : ClearCache(reached, TRUE)
            /\ candidate' = NoVersion
            /\ revoked' = Version
    /\ UNCHANGED <<binary, dirs, generation, launchVersion, ignoreRollback,
                   launchRolledBack, filesLock, serial, uiReload, js, rescue>>

(* getBundleUrl.  The launch is resolved; then every version whose bundle  *)
(* file is missing is rolled back until one is there or none is left.  The *)
(* code's guard against a cycle of versions never fires: a fallback is     *)
(* another version and has no fallback of its own.                         *)
Missing(v) == v \in Version \ dirs

Resolved ==
    [mem EXCEPT !.st = ResolveLaunchState(@, ignoreRollback),
                !.marker = @ \/ ConsumedFirstTime(mem.st, ignoreRollback)]

RolledBack(s) == [s EXCEPT !.st = Rollback(@)]

Launched ==
    IF ~Missing(Resolved.st.current) THEN Resolved
    ELSE IF ~Missing(Resolved.st.last) THEN RolledBack(Resolved)
    ELSE RolledBack(RolledBack(Resolved))

(* The resolution and each rollback are committed on their own, best       *)
(* effort.                                                                 *)
LaunchWrites ==
    {s \in {Resolved} : s # mem} \cup
    {s \in {RolledBack(Resolved), Launched} : Launched # Resolved}

PersistLaunch ==
    IF LaunchWrites = {} THEN UNCHANGED store
    ELSE /\ mem' = Launched
         /\ disk' \in IF StateWritesMayFail THEN LaunchWrites \cup {disk} ELSE {Launched}
         /\ applyPending' = FALSE

GetBundleUrl ==
    /\ PersistLaunch
    /\ ignoreRollback' = (ignoreRollback \/ ConsumedFirstTime(mem.st, ignoreRollback))
    /\ launchVersion' = IF Launched.st.current = NoVersion THEN launchVersion
                        ELSE Launched.st.current
    /\ candidate' =
         IF Launched.st.current # mem.st.current THEN NoVersion
         ELSE IF ConsumedFirstTime(mem.st, ignoreRollback) THEN mem.st.current
         ELSE candidate
    /\ UNCHANGED revoked

(* The first resolution of a process, and what SyncCoordinator.schedule    *)
(* records then.  The crash handler needs a persisted config.              *)
Launch ==
    /\ process = "constructed"
    /\ process' = "up"
    /\ GetBundleUrl
    /\ launchRolledBack' = Launched.st.rolledBack
    /\ handler' = (mem.config # NoConfig)
    /\ js' = [NoJs EXCEPT !.phase = "loading", !.bundle = Launched.st.current]
    /\ UNCHANGED <<binary, cache, dirs, generation, filesLock, serial, uiReload,
                   round, unactivated, hold, executor>>

(* The process ends: a kill, a native crash, a crash let go of.            *)
ProcessGone ==
    /\ mem' = disk
    /\ applyPending' = FALSE
    /\ cacheMem' = cacheDisk
    /\ process' = "dead"
    /\ generation' = 0
    /\ launchVersion' = NoVersion
    /\ ignoreRollback' = FALSE
    /\ launchRolledBack' = NoVersion
    /\ filesLock' = "free"
    /\ serial' = NoCall
    /\ uiReload' = NoBundle
    /\ js' = NoJs
    /\ round' = NoRound
    /\ unactivated' = NothingPending
    /\ handler' = FALSE
    /\ hold' = "none"
    /\ queue' = <<>>
    /\ cleaning' = NotCleaning

Die ==
    /\ process # "dead"
    /\ ProcessGone
    /\ UNCHANGED <<binary, cacheDisk, dirs, disk, history>>

-----------------------------------------------------------------------------
(***************************************************************************)
(* JS: one context at a time, replaced by a reload                         *)
(***************************************************************************)

(* getConstants, read when a context starts, consumes the launch markers.  *)
ConsumeLaunchMarkers ==
    /\ js.phase = "loading"
    /\ js' = [js EXCEPT !.phase = "up", !.firstTime = mem.marker]
    /\ IF mem.marker \/ mem.st.rolledBack # NoVersion
       THEN Apply([mem EXCEPT !.marker = FALSE, !.st = ClearRollbackMark(@)])
       ELSE UNCHANGED store
    /\ IF mem.st.rolledBack # NoVersion
       THEN Enqueue(Cleanup("cleanupOld"))
       ELSE UNCHANGED executor
    /\ UNCHANGED <<binary, cache, dirs, launch, filesLock, serial, uiReload,
                   rescue, history>>

(* A module call reaches the serial thread.  The client marks success only *)
(* on a first launch, and once.                                            *)
CallModule(op, arg) ==
    /\ op \in Calls
    /\ js.phase = "up"
    /\ serial = NoCall
    /\ serial' = [op |-> op, arg |-> arg, step |-> "called"]

CallSwitch ==
    /\ \E op \in {"setNeedUpdate", "reloadUpdate"}, v \in Version : CallModule(op, v)
    /\ UNCHANGED js

CallRestart == CallModule("restartApp", NoVersion) /\ UNCHANGED js

CallMarkSuccess ==
    /\ js.firstTime /\ ~js.marked
    /\ CallModule("markSuccess", NoVersion)
    /\ js' = [js EXCEPT !.marked = TRUE]

CallReset ==
    /\ generation < MaxGeneration
    /\ CallModule("resetToPackagedBundle", NoVersion)
    /\ UNCHANGED js

CallSyncConfig ==
    /\ \E c \in Config : /\ c # mem.config => generation < MaxGeneration
                         /\ CallModule("syncNativeConfig", c)
    /\ UNCHANGED js

JsCalls ==
    /\ CallSwitch \/ CallRestart \/ CallMarkSuccess \/ CallReset \/ CallSyncConfig
    /\ UNCHANGED <<binary, store, cache, dirs, launch, filesLock, uiReload, rescue,
                   executor, history>>

(* A download JS asked for joins the executor's queue.                     *)
CallDownload ==
    /\ js.phase = "up"
    /\ \E v \in Version : Enqueue([kind |-> "install", version |-> v])
    /\ UNCHANGED <<binary, store, cache, dirs, launch, filesLock, serial, uiReload,
                   js, rescue, history>>

(* ReactReloadManager.reload on the main thread: a new context over the    *)
(* bundle the serial thread resolved, or RESTART_FAILED and the old one.   *)
Reload ==
    /\ uiReload # NoBundle
    /\ uiReload' = NoBundle
    /\ \/ js' = [NoJs EXCEPT !.phase = "loading", !.bundle = uiReload]
       \/ UNCHANGED js
    /\ UNCHANGED <<binary, store, cache, dirs, launch, filesLock, serial, rescue,
                   executor, history>>

-----------------------------------------------------------------------------
(***************************************************************************)
(* The serial thread                                                       *)
(***************************************************************************)
Return == serial' = NoCall

Calling(ops, step) == serial.op \in ops /\ serial.step = step

(* switchVersion, first half: under versionFilesLock the target must       *)
(* verify.  The call is rejected otherwise.                                *)
VerifySwitchTarget ==
    /\ Calling({"setNeedUpdate", "reloadUpdate"}, "called")
    /\ filesLock = "free"
    /\ IF serial.arg \in dirs
       THEN /\ filesLock' = "serial"
            /\ serial' = [serial EXCEPT !.step = "verified"]
       ELSE /\ Return
            /\ UNCHANGED filesLock
    /\ UNCHANGED <<binary, store, cache, dirs, launch, uiReload, js, rescue,
                   executor, history>>

(* Activation as the history variables see it.                             *)
Activates(v, fresh) ==
    /\ candidate' = NoVersion
    /\ revoked' = IF fresh THEN revoked \ {v} ELSE revoked \cup {v}

(* switchVersion, second half: the commit.                                 *)
SwitchVersionCommit ==
    /\ Calling({"setNeedUpdate", "reloadUpdate"}, "verified")
    /\ filesLock' = "free"
    /\ \E reached \in Reached(StateWritesMayFail) :
         /\ Commit([mem EXCEPT !.st = SwitchVersion(@, serial.arg)], reached)
         /\ ignoreRollback' = (ignoreRollback /\ ~reached)
         /\ IF reached /\ serial.op = "reloadUpdate"
            THEN serial' = [serial EXCEPT !.step = "switched"]
            ELSE Return
    /\ Activates(serial.arg, TRUE)
    /\ UNCHANGED <<binary, cache, dirs, process, generation, launchVersion,
                   launchRolledBack, uiReload, js, rescue, executor>>

(* restart: the launch is resolved again and the reload is posted.         *)
ResolveReload ==
    /\ Calling({"reloadUpdate"}, "switched") \/ Calling({"restartApp"}, "called")
    /\ GetBundleUrl
    /\ uiReload' = Launched.st.current
    /\ Return
    /\ UNCHANGED <<binary, cache, dirs, process, generation, launchRolledBack,
                   filesLock, js, rescue, executor>>

MarkSuccessCall ==
    /\ Calling({"markSuccess"}, "called")
    /\ Return
    /\ \E reached \in Reached(StateWritesMayFail) :
         /\ Commit([mem EXCEPT !.st = MarkSuccess(@)], reached)
         /\ IF reached
            THEN Enqueue(Cleanup("cleanupOld")) /\ UNCHANGED js
            ELSE UNCHANGED executor /\ js' = [js EXCEPT !.marked = FALSE]
    /\ candidate' = NoVersion
    /\ UNCHANGED <<binary, cache, dirs, launch, filesLock, uiReload, rescue, revoked>>

(* Whatever was decided before a reset or a config change is stale after.  *)
Supersede ==
    /\ generation' = generation + 1
    /\ round' = [round EXCEPT !.fresh = FALSE]
    /\ unactivated' = [unactivated EXCEPT !.fresh = FALSE]

(* resetToPackagedBundle.  A cache that could not be cleared aborts it     *)
(* before the state is touched.                                            *)
ResetToPackagedBundle ==
    /\ Calling({"resetToPackagedBundle"}, "called")
    /\ Return
    /\ Supersede
    /\ \E cleared \in Reached(CacheWritesMayFail),
          reached \in Reached(StateWritesMayFail) :
         /\ ClearCache(cleared, CacheCleared(cleared))
         /\ IF CacheCleared(cleared)
            THEN /\ Commit([mem EXCEPT !.st = FreshState(binary), !.marker = FALSE],
                           reached)
                 /\ candidate' = NoVersion
                 /\ revoked' = Version
            ELSE UNCHANGED <<store, history>>
         /\ IF CacheCleared(cleared) /\ reached
            THEN /\ ignoreRollback' = FALSE
                 /\ Enqueue(Cleanup("cleanupAll"))
                 /\ js' = [js EXCEPT !.marked = FALSE]
            ELSE UNCHANGED <<ignoreRollback, executor, js>>
    /\ UNCHANGED <<binary, dirs, process, launchVersion, launchRolledBack,
                   filesLock, uiReload, handler, hold>>

(* setNativeConfig; SyncCoordinator.onConfigured installs the handler once *)
(* a runnable config has reached the disk.                                 *)
SetNativeConfig ==
    /\ Calling({"syncNativeConfig"}, "called")
    /\ Return
    /\ \E cleared \in Reached(CacheWritesMayFail),
          reached \in Reached(StateWritesMayFail) :
         LET changed == serial.arg # mem.config
             proceeds == changed => CacheCleared(cleared)
         IN  /\ IF changed
                THEN Supersede /\ ClearCache(cleared, CacheCleared(cleared))
                ELSE UNCHANGED <<generation, round, unactivated, cache>>
             /\ IF proceeds
                THEN Commit([mem EXCEPT !.config = serial.arg], reached)
                ELSE UNCHANGED store
             /\ handler' = (handler \/ (proceeds /\ reached /\ serial.arg \in RunnableConfig))
    /\ UNCHANGED <<binary, dirs, process, launchVersion, ignoreRollback,
                   launchRolledBack, filesLock, uiReload, js, hold, executor, history>>

-----------------------------------------------------------------------------
(***************************************************************************)
(* The cold-start round (SyncCoordinator.runOnce over the round engine):   *)
(* one per process, started by the delayed thread, by a host's             *)
(* prepareBundle or by the hold.  When it starts is up to the scheduler,   *)
(* so the five-second delay and the JS-already-checked skip are choices.   *)
(***************************************************************************)
BestEffort(s) ==
    IF s = mem THEN UNCHANGED store
    ELSE \E reached \in Reached(StateWritesMayFail) : Commit(s, reached)

StartRound ==
    /\ process = "up"
    /\ round.phase = "idle"
    /\ mem.config \in RunnableConfig
    /\ round' = [NoRound EXCEPT !.phase = "started", !.generation = generation]
    /\ \E reached \in Reached(StateWritesMayFail) :
         Commit([mem EXCEPT !.breadcrumb = TRUE], reached)
    /\ UNCHANGED <<binary, cache, dirs, launch, filesLock, serial, uiReload, js,
                   unactivated, handler, hold, executor, history>>

(* A round that commits nothing: its breadcrumb is removed all the same.   *)
EndRound ==
    /\ round' = [round EXCEPT !.phase = "done"]
    /\ BestEffort([mem EXCEPT !.breadcrumb = FALSE])

(* A version is ready on disk.  It is activated when the strategy or the   *)
(* server said so, or when a crash is being held: JS will not run again.   *)
Ready(v, decided) ==
    LET activate == decided \/ hold # "none"
    IN  [round EXCEPT !.version = v, !.activate = activate,
                      !.phase = IF activate THEN "verify" ELSE "commit"]

NothingToInstall == [round EXCEPT !.version = NoVersion, !.activate = FALSE,
                                  !.phase = "commit"]

(* decideDownload, with the rollback mark as the launch saw it.            *)
(* Mutant: the persisted mark, which getConstants may have consumed.       *)
WantedByLatestMark(v) == v \notin {mem.st.current, mem.st.rolledBack}

Wanted(v) == v \notin {mem.st.current, launchRolledBack}

(* The response: no endpoint answered; nothing to install; or a version    *)
(* that is wanted here.                                                    *)
RoundResponse ==
    /\ round.phase = "started"
    /\ \/ EndRound /\ UNCHANGED executor
       \/ round' = NothingToInstall /\ UNCHANGED <<store, executor>>
       \/ \E v \in Version, activate \in BOOLEAN :
            /\ Wanted(v)
            /\ IF v \in dirs
               THEN round' = Ready(v, activate) /\ UNCHANGED executor
               ELSE /\ round' = [round EXCEPT !.phase = "waiting", !.version = v,
                                              !.activate = activate]
                    /\ Enqueue([kind |-> "installForRound", version |-> v])
            /\ UNCHANGED store
    /\ UNCHANGED <<binary, cache, dirs, launch, filesLock, serial, uiReload, js,
                   unactivated, handler, hold, history>>

(* Every download phase ran out of time: only the response is committed.   *)
RoundTimeout ==
    /\ round.phase = "waiting"
    /\ round' = NothingToInstall
    /\ UNCHANGED <<binary, store, cache, dirs, launch, filesLock, serial, uiReload,
                   js, unactivated, handler, hold, executor, history>>

(* commitSyncResult, switching: the target must verify under the lock.     *)
RoundVerify ==
    /\ round.phase = "verify"
    /\ filesLock = "free"
    /\ IF round.version \in dirs
       THEN /\ filesLock' = "round"
            /\ round' = [round EXCEPT !.phase = "verified"]
            /\ UNCHANGED store
       ELSE EndRound /\ UNCHANGED filesLock
    /\ UNCHANGED <<binary, cache, dirs, launch, serial, uiReload, js, unactivated,
                   handler, hold, executor, history>>

(* The re-check under commitLock of the generation a round started with.   *)
(* Mutant: no re-check.                                                    *)
NeverSuperseded(g) == FALSE

Superseded(g) == g # generation

(* commitSyncResultState: the activation and the end of the round in one   *)
(* commit, unless the generation moved; then the advisory response cache.  *)
(* Mutant: the breadcrumb is not part of the commit.                       *)
CommitSyncResultKeepingMark(r, switching, reached) ==
    /\ Commit([mem EXCEPT !.st = IF switching THEN SwitchVersion(@, r.version) ELSE @],
              reached)
    /\ ignoreRollback' = (ignoreRollback /\ ~(switching /\ reached))
    /\ IF switching THEN Activates(r.version, r.fresh) ELSE UNCHANGED history

CommitSyncResult(r, switching, reached) ==
    /\ Commit([mem EXCEPT !.st = IF switching THEN SwitchVersion(@, r.version) ELSE @,
                          !.breadcrumb = FALSE], reached)
    /\ ignoreRollback' = (ignoreRollback /\ ~(switching /\ reached))
    /\ IF switching THEN Activates(r.version, r.fresh) ELSE UNCHANGED history

CacheResponse(r) ==
    /\ cacheMem' = IF r.fresh THEN "fresh" ELSE "stale"
    /\ \E reached \in Reached(CacheWritesMayFail) :
         cacheDisk' = IF reached THEN cacheMem' ELSE cacheDisk

(* What the round leaves to JS is remembered for the hold.                 *)
Unactivate(r) ==
    IF r.version = NoVersion THEN unactivated
    ELSE IF r.activate THEN NothingPending
    ELSE [version |-> r.version, generation |-> r.generation, fresh |-> r.fresh]

RoundCommit ==
    /\ round.phase \in {"commit", "verified"}
    /\ filesLock' = IF round.phase = "verified" THEN "free" ELSE filesLock
    /\ IF Superseded(round.generation)
       THEN EndRound /\ UNCHANGED <<ignoreRollback, cache, unactivated, history>>
       ELSE \E reached \in Reached(StateWritesMayFail) :
              /\ CommitSyncResult(round, round.activate, reached)
              /\ round' = [round EXCEPT !.phase = "done"]
              /\ IF reached
                 THEN CacheResponse(round) /\ unactivated' = Unactivate(round)
                 ELSE UNCHANGED <<cache, unactivated>>
    /\ UNCHANGED <<binary, dirs, process, generation, launchVersion, launchRolledBack,
                   serial, uiReload, js, handler, hold, executor>>

-----------------------------------------------------------------------------
(***************************************************************************)
(* The crash hold                                                          *)
(***************************************************************************)

(* An uncaught exception kills JS.  Early in the process, or with a round  *)
(* in flight, the handler holds the process; else it dies at once.         *)
JsCrash ==
    /\ process = "up"
    /\ js.phase # "off"
    /\ handler
    /\ hold = "none"
    /\ js' = [js EXCEPT !.phase = "off"]
    /\ hold' = "holding"
    /\ UNCHANGED <<binary, store, cache, dirs, launch, filesLock, serial, uiReload,
                   round, unactivated, handler, executor, history>>

(* runHoldRound waits for the round, as long as the budget lasts, and then *)
(* activates what the round left to JS.                                    *)
HoldVerify ==
    /\ hold = "holding"
    /\ unactivated.version # NoVersion
    /\ filesLock = "free"
    /\ IF unactivated.version \in dirs
       THEN filesLock' = "hold" /\ hold' = "verified"
       ELSE hold' = "over" /\ UNCHANGED filesLock
    /\ UNCHANGED <<binary, store, cache, dirs, launch, serial, uiReload, js, round,
                   unactivated, handler, executor, history>>

HoldActivate ==
    /\ hold = "verified"
    /\ hold' = "over"
    /\ filesLock' = "free"
    /\ IF Superseded(unactivated.generation)
       THEN UNCHANGED <<store, ignoreRollback, unactivated, history>>
       ELSE \E reached \in Reached(StateWritesMayFail) :
              /\ CommitSyncResult(unactivated, TRUE, reached)
              /\ unactivated' = IF reached THEN NothingPending ELSE unactivated
    /\ UNCHANGED <<binary, cache, dirs, process, generation, launchVersion,
                   launchRolledBack, serial, uiReload, js, round, handler, executor>>

-----------------------------------------------------------------------------
(***************************************************************************)
(* The download executor                                                   *)
(***************************************************************************)
Idle == ~cleaning.active /\ queue # <<>>

(* An install tells the round that waits for it.  An install of the        *)
(* running version succeeds only if its directory verifies as it is; one   *)
(* of a complete version has nothing to do; any other may fail.            *)
RunInstall ==
    /\ Idle
    /\ Head(queue).kind \in {"install", "installForRound"}
    /\ queue' = Tail(queue)
    /\ LET v == Head(queue).version IN
       \E ok \in BOOLEAN :
         /\ v \in dirs => ok
         /\ v = launchVersion => (ok <=> v \in dirs)
         /\ dirs' = IF ok THEN dirs \cup {v} ELSE dirs
         /\ round' = IF Head(queue).kind = "installForRound" /\ round.phase = "waiting"
                     THEN IF ok THEN Ready(v, round.activate) ELSE NothingToInstall
                     ELSE round
    /\ UNCHANGED <<binary, store, cache, launch, filesLock, serial, uiReload, js,
                   unactivated, handler, hold, cleaning, history>>

(* runCleanupWithLatestState: the keep names are those of the moment the   *)
(* task runs ...                                                           *)
(* Mutant: the version this process runs from is forgotten.                *)
KeepNamesActive == {mem.st.current, mem.st.last} \ {NoVersion}

(* Mutant: the fallback is forgotten.                                      *)
KeepNamesRunning == {mem.st.current, launchVersion} \ {NoVersion}

(* Mutant: empty names are kept too.                                       *)
KeepNamesRaw == {mem.st.current, mem.st.last, launchVersion}

KeepNames == {mem.st.current, mem.st.last, launchVersion} \ {NoVersion}

(* Mutant: the cleanup does not take versionFilesLock.                     *)
SelectKeepNamesUnlocked ==
    /\ Idle
    /\ Head(queue).kind \in {"cleanupOld", "cleanupAll"}
    /\ filesLock' = "cleanup"
    /\ cleaning' = [active |-> TRUE, keep |-> KeepNames]
    /\ UNCHANGED <<binary, store, cache, dirs, launch, serial, uiReload, js,
                   rescue, queue, history>>

SelectKeepNames ==
    /\ Idle
    /\ Head(queue).kind \in {"cleanupOld", "cleanupAll"}
    /\ filesLock = "free"
    /\ filesLock' = "cleanup"
    /\ cleaning' = [active |-> TRUE, keep |-> KeepNames]
    /\ UNCHANGED <<binary, store, cache, dirs, launch, serial, uiReload, js,
                   rescue, queue, history>>

(* ... and versionFilesLock stays held until everything else is gone:      *)
(* everything, or what has not been touched for a week.                    *)
DeleteVersions ==
    /\ cleaning.active
    /\ dirs' \in IF Head(queue).kind = "cleanupAll"
                 THEN {dirs \cap cleaning.keep}
                 ELSE {d \in SUBSET dirs : dirs \cap cleaning.keep \subseteq d}
    /\ queue' = Tail(queue)
    /\ cleaning' = NotCleaning
    /\ filesLock' = "free"
    /\ UNCHANGED <<binary, store, cache, launch, serial, uiReload, js, rescue, history>>

-----------------------------------------------------------------------------
Environment == UpgradeBinary \/ LoseFiles \/ Die \/ FlushApply
MainThread == Construct \/ Launch \/ Reload \/ JsCrash
JsThread == ConsumeLaunchMarkers \/ JsCalls \/ CallDownload
SerialThread == \/ VerifySwitchTarget \/ SwitchVersionCommit \/ ResolveReload
                \/ MarkSuccessCall \/ ResetToPackagedBundle \/ SetNativeConfig
RoundThread == StartRound \/ RoundResponse \/ RoundTimeout \/ RoundVerify \/ RoundCommit
HoldThread == HoldVerify \/ HoldActivate
Executor == RunInstall \/ SelectKeepNames \/ DeleteVersions

Next == \/ Environment \/ MainThread \/ JsThread \/ SerialThread
        \/ RoundThread \/ HoldThread \/ Executor

Spec == Init /\ [][Next]_vars

-----------------------------------------------------------------------------
(***************************************************************************)
(* Safety                                                                  *)
(***************************************************************************)

(* Whatever the threads do and whichever writes are lost, the state in     *)
(* memory and the state a restart would read both make sense: a fallback   *)
(* is another version than current, and the version a rollback condemned   *)
(* is not the one to load.  (commitLock makes read-modify-write atomic.)   *)
StoresCoherent == Coherent(mem.st) /\ Coherent(disk.st)

(* versionFilesLock spans the digest check of a switch and its commit, and *)
(* the choice of keep names and the deletion: a target that was verified   *)
(* is still there when the state is pointed at it.                         *)
VerifiedTargetsIntact ==
    /\ serial.step = "verified" => serial.arg \in dirs
    /\ round.phase = "verified" => round.version \in dirs
    /\ hold = "verified" => unactivated.version \in dirs

(* Why: whoever verified a target, or chose keep names, holds the lock;    *)
(* what the hold activates is what a finished round left; and a dead       *)
(* process holds nothing.                                                  *)
LocksHeld ==
    /\ serial.step = "verified" <=> filesLock = "serial"
    /\ round.phase = "verified" <=> filesLock = "round"
    /\ hold = "verified" <=> filesLock = "hold"
    /\ cleaning.active <=> filesLock = "cleanup"
    /\ cleaning.active => queue # <<>>

RoundShape ==
    /\ round.activate => round.version \in Version
    /\ round.phase \in {"waiting", "verify", "verified"} => round.version \in Version
    /\ unactivated.version # NoVersion => round.phase = "done"

DeadIsQuiet ==
    process = "dead" => /\ serial = NoCall
                        /\ uiReload = NoBundle
                        /\ js.phase = "off"
                        /\ round = NoRound
                        /\ unactivated = NothingPending
                        /\ hold = "none"
                        /\ queue = <<>>
                        /\ ~cleaning.active

(* The inductive invariant.                                                *)
IInv == /\ TypeOK
        /\ StoresCoherent
        /\ LocksHeld
        /\ RoundShape
        /\ DeadIsQuiet
        /\ VerifiedTargetsIntact

(* No cleanup takes the version to launch or its fallback away: both are   *)
(* on disk, in memory's view and in the view after a restart.              *)
ActiveVersionsKept ==
    {mem.st.current, mem.st.last, disk.st.current, disk.st.last} \ {NoVersion}
        \subseteq dirs

(* Nor the version this process last resolved to run from, whose images    *)
(* and fonts are read on demand (CleanupKeepNames).                        *)
LaunchVersionKept == launchVersion # NoVersion => launchVersion \in dirs

(* What a reset, an upgrade or a new configuration superseded stays out: a *)
(* round or a hold that decided earlier neither makes its version current  *)
(* nor leaves it as the fallback (resetGeneration, commitSyncResult).      *)
SupersededStaysOut == {mem.st.current, mem.st.last} \cap revoked = {}

(* The response JS may reuse instead of asking the server was never        *)
(* obtained before the last reset, upgrade or change of configuration.     *)
CacheIsFresh == "stale" \notin {cacheMem, cacheDisk}

(* The breadcrumb on disk says exactly whether a round is under way, so a  *)
(* launch after a death resumes at once if and only if one was cut short.  *)
BreadcrumbMeansInterrupted ==
    round.phase # "idle" => (disk.breadcrumb <=> round.phase # "done")

(* A version that used up its one first launch without being confirmed is  *)
(* not what the next process loads (ResolveLaunchState).                   *)
CrashLoopBroken ==
    [][process = "constructed" /\ process' = "up"
         => js'.bundle = NoVersion \/ js'.bundle # candidate]_vars

(* What this launch rolled back comes back in this process only because    *)
(* JS switches to it: no round and no hold activates it, even after        *)
(* getConstants has consumed the rollback mark (sLaunchRolledBackVersion). *)
BecomesCurrent(v) == mem.st.current # v /\ mem'.st.current = v /\ process' # "dead"

RolledBackStaysOut ==
    [][launchRolledBack # NoVersion /\ BecomesCurrent(launchRolledBack)
         => serial.step = "verified" /\ serial.arg = launchRolledBack]_vars

(***************************************************************************)
(* What the repository says and the code does not do                       *)
(***************************************************************************)

(* A version becomes confirmed only while it is the one that runs.         *)
OnlyTheRunningVersionIsConfirmed ==
    [][~mem.st.firstTimeOk /\ mem'.st.firstTimeOk /\ mem'.st.current = mem.st.current
         => js.bundle = mem.st.current]_vars

(* The directory of the bundle a JS context runs from exists.              *)
RunningBundleKept ==
    js.phase = "up" /\ js.bundle # NoVersion => js.bundle \in dirs
=============================================================================
