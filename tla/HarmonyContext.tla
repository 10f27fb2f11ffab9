--------------------------- MODULE HarmonyContext ---------------------------
(***************************************************************************)
(* The update context of the Harmony port: UpdateContext.ts with the       *)
(* module calls of PushyTurboModule.ts that reach it.                      *)
(*                                                                         *)
(* ArkTS runs on one thread, so there are no locks: an operation is a      *)
(* sequence of sections between awaits, each of which is one action, and   *)
(* other calls run in between.  What a call awaits is                      *)
(*                                                                         *)
(*   waiting    no destructive cleanup to be in flight                     *)
(*   reading    a native worker to digest the bundle it activates          *)
(*   returning  that answer to reach the ArkTS thread                      *)
(*   flushing   the preferences to reach the disk                          *)
(*   restarting the platform to restart the app                            *)
(*                                                                         *)
(* Downloads and cleanups run one at a time, on the chain of               *)
(* enqueueSerialTask.  A flush that flushSync performs at once is a flush  *)
(* whose end follows its start.  Memory and disk are separate: the process *)
(* may die at any moment, and the next one reads the disk.                 *)
(***************************************************************************)
EXTENDS StateCore, Naturals, Sequences

CONSTANTS
    Call,         \* identities of the calls that may be in flight together
    Nothing,      \* no switch or reset reported
    MaxOps,       \* bound: calls in a behaviour
    MaxTasks,     \* bound: tasks on the chain
    MaxDeaths,    \* bound: ends of the process, restarts included
    MaxVerifyAttempts  \* MAX_ACTIVATION_VERIFY_ATTEMPTS

ASSUME NothingAssumption == Nothing \notin MaybeVersion
ASSUME OpsAssumption == {MaxOps, MaxTasks, MaxDeaths} \subseteq Nat
ASSUME AttemptsAssumption == MaxVerifyAttempts \in Nat \ {0}

VARIABLES
    build,          \* the installed binary
    mem, disk,      \* the state store in memory and in its file
    dirs,           \* versions whose directory is complete and verifies
    alive,          \* whether the process runs
    launchVersion,  \* the version this process loaded
    ignoreRollback,
    op,             \* what each call awaits
    background,     \* whether a flush nobody awaits is under way
    running,        \* the task at the head of the chain
    chain,          \* the tasks behind it
    fallbackTimer,  \* the soft restart due if the restart was suppressed
    ops, deaths,    \* counted for the bounds
    \* History variables: no action's guard reads them.
    reported,       \* the version a launch owes its caller, or Nothing
    wanted          \* versions somebody asked for since the last reset

stores == <<mem, disk, background>>
process == <<alive, launchVersion, ignoreRollback, fallbackTimer>>
tasks == <<running, chain>>
contextVars == <<build, stores, dirs, process, op, tasks, ops, deaths, reported, wanted>>

-----------------------------------------------------------------------------
Idle == [kind |-> "none", version |-> NoVersion, at |-> "idle",
         attempt |-> 0, raced |-> FALSE, read |-> FALSE, superseded |-> FALSE]

Op == [kind : {"none", "setNeedUpdate", "reloadUpdate", "commit", "restartApp", "markSuccess", "reset"},
       version : MaybeVersion,
       at : {"idle", "round", "waiting", "reading", "returning", "flushing", "restarting"},
       attempt : 0 .. MaxVerifyAttempts, raced : BOOLEAN, read : BOOLEAN, superseded : BOOLEAN]

NoTask == [kind |-> "none", version |-> NoVersion]
Task == [kind : {"none", "install", "cleanUp", "wipe"}, version : MaybeVersion]
NothingRuns == [task |-> NoTask, keep |-> {}]

Store == [st : State, marker : BOOLEAN]

ContextTypeOK ==
    /\ build \in Binary /\ mem \in Store /\ disk \in Store
    /\ dirs \subseteq Version /\ alive \in BOOLEAN
    /\ launchVersion \in MaybeVersion /\ ignoreRollback \in BOOLEAN
    /\ op \in [Call -> Op] /\ background \in BOOLEAN /\ fallbackTimer \in BOOLEAN
    /\ running \in [task : Task, keep : SUBSET Version]
    /\ chain \in Seq(Task \ {NoTask}) /\ Len(chain) <= MaxTasks
    /\ reported \in MaybeVersion \cup {Nothing} /\ wanted \subseteq Version

(* The app runs the package, or a version it confirmed; the launch before  *)
(* may have rolled another one back.                                       *)
ContextInit ==
    /\ build \in Binary
    /\ dirs \in SUBSET Version
    /\ launchVersion \in dirs \cup {NoVersion}
    /\ \E back \in MaybeVersion :
          /\ back = NoVersion \/ back # launchVersion
          /\ mem = [st |-> [FreshState(build) EXCEPT !.current = launchVersion,
                                                    !.rolledBack = back],
                    marker |-> FALSE]
    /\ disk = mem /\ background = FALSE
    /\ alive = TRUE
    /\ ignoreRollback = FALSE /\ fallbackTimer = FALSE
    /\ op = [c \in Call |-> Idle]
    /\ running = NothingRuns /\ chain = <<>>
    /\ ops \in 0 .. MaxOps /\ deaths \in 0 .. MaxDeaths /\ reported = Nothing
    /\ wanted = {launchVersion} \ {NoVersion}

-----------------------------------------------------------------------------
(***************************************************************************)
(* The chain of tasks.  A cleanup takes its keep list when it starts, from *)
(* the state in memory then; the one of a reset spares only the running    *)
(* version.  A cleanup that starts is noticed by every call that verifies. *)
(***************************************************************************)
(* Mutant: the regular cleanup forgets the version this process runs.      *)
KeepNamesOfState(task, st, launched) ==
    (IF task.kind = "cleanUp" THEN {st.current, st.last} ELSE {launched}) \ {NoVersion}

KeepNames(task, st, launched) ==
    (IF task.kind = "cleanUp" THEN {st.current, st.last, launched} ELSE {launched})
        \ {NoVersion}

IsCleanup(task) == task.kind \in {"cleanUp", "wipe"}
CleanupInFlight == IsCleanup(running.task)

(* What a started task is: all that follows reads the state of this step.  *)
Started(task) == [task |-> task,
                  keep |-> IF IsCleanup(task) THEN KeepNames(task, mem'.st, launchVersion)
                           ELSE {}]

Noticed(o, task) ==
    IF IsCleanup(task)
    THEN [c \in Call |-> [o[c] EXCEPT !.raced = @ \/ o[c].at \in {"reading", "returning"}]]
    ELSE o

(* enqueueSerialTask: a task queued on a settled chain starts with the     *)
(* section that queued it.                                                 *)
Enqueue(task, o) ==
    /\ Len(chain) < MaxTasks
    /\ IF running = NothingRuns
       THEN running' = Started(task) /\ chain' = chain /\ op' = Noticed(o, task)
       ELSE running' = running /\ chain' = Append(chain, task) /\ op' = o

Queued(kind) == [kind |-> kind, version |-> NoVersion]

FinishTask ==
    IF chain = <<>> THEN running' = NothingRuns /\ chain' = chain /\ op' = op
    ELSE /\ running' = Started(Head(chain))
         /\ chain' = Tail(chain)
         /\ op' = Noticed(op, Head(chain))

TaskUnchanged == UNCHANGED <<build, stores, process, ops, deaths, reported, wanted>>

(* cleanupOldEntries deletes what is aged and not kept; a reset's cleanup  *)
(* finds everything aged.  Both are best effort.                           *)
CleanupDeletes(v) ==
    /\ CleanupInFlight /\ v \in dirs \ running.keep
    /\ dirs' = dirs \ {v}
    /\ TaskUnchanged /\ UNCHANGED <<op, tasks>>

CleanupEnds == CleanupInFlight /\ TaskUnchanged /\ UNCHANGED dirs /\ FinishTask

(* executeTask: a version that is complete by the time its task starts is  *)
(* not installed again, so a failure never costs a complete directory.     *)
InstallEnds ==
    /\ running.task.kind = "install"
    /\ dirs' \in {dirs, dirs \cup {running.task.version}}
    /\ TaskUnchanged /\ FinishTask

Download(v) ==
    /\ alive /\ ops < MaxOps /\ ops' = ops + 1
    /\ v \notin dirs
    /\ UNCHANGED <<build, stores, dirs, process, deaths, reported, wanted>>
    /\ Enqueue([kind |-> "install", version |-> v], op)

-----------------------------------------------------------------------------
(***************************************************************************)
(* Launches                                                                *)
(***************************************************************************)
RolledBackIfMissing(st) ==
    IF st.current # NoVersion /\ st.current \notin dirs THEN Rollback(st) ELSE st

(* writeState: what a step of the state machine leaves in memory.          *)
WriteState(st, marker) == mem' = [st |-> st, marker |-> marker]

(* getBundleUrl falls back at most to last and from there to the package.  *)
Launched(st) == RolledBackIfMissing(RolledBackIfMissing(ResolveLaunchState(st, ignoreRollback)))

ResolvesLaunch ==
    LET consumed == ConsumedFirstTime(mem.st, ignoreRollback) IN
    /\ WriteState(Launched(mem.st), mem.marker \/ consumed)
    /\ background' = (background \/ mem' # mem)
    /\ ignoreRollback' = (ignoreRollback \/ consumed)
    /\ launchVersion' = IF mem'.st.current # NoVersion THEN mem'.st.current ELSE launchVersion
    /\ reported' = Nothing

GetBundleUrl ==
    /\ alive
    /\ ResolvesLaunch
    /\ UNCHANGED <<build, disk, dirs, alive, fallbackTimer, op, tasks,
                   ops, deaths, wanted>>

(* getConstants consumes the first-load marker and the rollback mark.      *)
GetConstants ==
    /\ alive /\ (mem.marker \/ mem.st.rolledBack # NoVersion)
    /\ WriteState(ClearRollbackMark(mem.st), FALSE)
    /\ background' = TRUE
    /\ IF mem.st.rolledBack # NoVersion
       THEN Enqueue(Queued("cleanUp"), op) ELSE UNCHANGED <<op, tasks>>
    /\ UNCHANGED <<build, disk, dirs, process, ops, deaths, reported, wanted>>

(* The constructor: syncStateWithBinaryVersion.                            *)
Boot ==
    /\ ~alive /\ alive' = TRUE
    /\ IF disk.st.binary = build
       THEN /\ mem' = disk
            /\ UNCHANGED <<background, op, tasks, reported>>
       ELSE /\ WriteState(SyncBinaryVersion(disk.st, build), FALSE)
            /\ background' = TRUE
            /\ reported' = Nothing
            /\ Enqueue(Queued("cleanUp"), op)
    /\ wanted' = {mem'.st.current, mem'.st.last} \ {NoVersion}
    /\ UNCHANGED <<build, disk, dirs, launchVersion, ignoreRollback,
                   fallbackTimer, ops, deaths>>

Gone ==
    /\ deaths < MaxDeaths /\ deaths' = deaths + 1
    /\ alive' = FALSE /\ launchVersion' = NoVersion
    /\ ignoreRollback' = FALSE /\ fallbackTimer' = FALSE
    /\ mem' = disk /\ background' = FALSE
    /\ op' = [c \in Call |-> Idle]
    /\ running' = NothingRuns /\ chain' = <<>>
    /\ wanted' = {}
    /\ UNCHANGED <<build, disk, dirs, ops, reported>>

Die == alive /\ Gone

Upgrade ==
    /\ ~alive /\ disk.st.binary = build
    /\ build' \in Binary \ {build}
    /\ UNCHANGED <<stores, dirs, process, op, tasks, ops, deaths, reported, wanted>>

-----------------------------------------------------------------------------
(***************************************************************************)
(* Calls                                                                   *)
(***************************************************************************)
Begin(c, kind, v, at) ==
    [op EXCEPT ![c] = [Idle EXCEPT !.kind = kind, !.version = v, !.at = at]]

(* resetGeneration moves on: whoever sampled it before will notice.        *)
Supersede(o) ==
    [c \in Call |-> [o[c] EXCEPT !.superseded =
                        @ \/ o[c].at \in {"round", "waiting", "reading", "returning"}]]

Accepts(c) == alive /\ op[c] = Idle /\ ops < MaxOps /\ ops' = ops + 1

(* reloadUpdate and setNeedUpdate, up to verifyActivationExclusive; the    *)
(* round samples the generation long before it commits.                    *)
CallSwitch(c, v) ==
    /\ Accepts(c)
    /\ \E kind \in {"setNeedUpdate", "reloadUpdate"} : op' = Begin(c, kind, v, "waiting")
    /\ wanted' = wanted \cup {v}
    /\ UNCHANGED <<build, stores, dirs, process, tasks, deaths, reported>>

StartRound(c, v) ==
    /\ Accepts(c)
    /\ op' = Begin(c, "commit", v, "round")
    /\ wanted' = wanted \cup {v}
    /\ UNCHANGED <<build, stores, dirs, process, tasks, deaths, reported>>

CallRestart(c) ==
    /\ Accepts(c)
    /\ op' = Begin(c, "restartApp", NoVersion, "restarting")
    /\ UNCHANGED <<build, stores, dirs, process, tasks, deaths, reported, wanted>>

CallMarkSuccess(c) ==
    /\ Accepts(c)
    /\ WriteState(MarkSuccess(mem.st), mem.marker)
    /\ Enqueue(Queued("cleanUp"), Begin(c, "markSuccess", NoVersion, "flushing"))
    /\ reported' = Nothing
    /\ UNCHANGED <<build, disk, background, dirs, process, deaths, wanted>>

(* resetToPackagedBundle, up to its flush.                                 *)
CallReset(c) ==
    /\ Accepts(c)
    /\ WriteState(FreshState(build), FALSE)
    /\ ignoreRollback' = FALSE
    /\ op' = Supersede(Begin(c, "reset", NoVersion, "flushing"))
    /\ reported' = Nothing /\ wanted' = {}
    /\ UNCHANGED <<build, disk, background, dirs, alive, launchVersion, fallbackTimer, tasks,
                   deaths>>

(* setKv, and setNativeConfig with or without a configuration that is not  *)
(* the stored one: they change nothing else of the context than the        *)
(* generation, and their flush carries the rest of the memory with it.     *)
CallSetKv(supersedes) ==
    /\ alive /\ ops < MaxOps /\ ops' = ops + 1
    /\ op' = IF supersedes THEN Supersede(op) ELSE op
    /\ background' = TRUE
    /\ UNCHANGED <<build, mem, disk, dirs, alive, launchVersion, ignoreRollback, fallbackTimer,
                   tasks, deaths, reported, wanted>>

OpUnchanged == UNCHANGED <<build, dirs, tasks, ops, deaths, wanted>>

(* commitSyncResult's first section, with or without a version to activate. *)
CommitStarts(c) ==
    /\ op[c].at = "round"
    /\ \/ op[c].superseded /\ op' = [op EXCEPT ![c] = Idle]
       \/ ~op[c].superseded
          /\ op' = [op EXCEPT ![c].at = "waiting"]
       \/ ~op[c].superseded
          /\ op' = [op EXCEPT ![c].at = "flushing", ![c].version = NoVersion]
    /\ OpUnchanged /\ UNCHANGED <<stores, process, reported>>

-----------------------------------------------------------------------------
(***************************************************************************)
(* verifyActivationExclusive and what follows it                           *)
(***************************************************************************)
VerifyStarts(c) ==
    /\ op[c].at = "waiting" /\ ~CleanupInFlight
    /\ op' = [op EXCEPT ![c].at = "reading", ![c].raced = FALSE, ![c].attempt = @ + 1]
    /\ OpUnchanged /\ UNCHANGED <<stores, process, reported>>

VerifyReads(c) ==
    /\ op[c].at = "reading"
    /\ op' = [op EXCEPT ![c].at = "returning", ![c].read = op[c].version \in dirs]
    /\ OpUnchanged /\ UNCHANGED <<stores, process, reported>>

(* Mutants: a cleanup that ran meanwhile is not noticed; a reset that ran  *)
(* meanwhile is not.                                                       *)
NeverRaced(o) == FALSE
Raced(o) == o.raced

NeverOutdated(o) == FALSE
Outdated(o) == o.superseded

(* Mutant: the activation gives up one attempt too late.                   *)
RetriesTooLong(o) == o.attempt <= MaxVerifyAttempts
MayRetry(o) == o.attempt < MaxVerifyAttempts

VerifyReturns(c) ==
    /\ op[c].at = "returning"
    /\ \/ /\ op[c].read /\ Raced(op[c]) /\ MayRetry(op[c])
          /\ op' = [op EXCEPT ![c].at = "waiting"]
          /\ UNCHANGED <<mem, ignoreRollback, reported>>
       \/ /\ \/ ~op[c].read
             \/ Raced(op[c]) /\ ~MayRetry(op[c])
             \/ ~Raced(op[c]) /\ Outdated(op[c])
          /\ op' = [op EXCEPT ![c] = Idle]
          /\ UNCHANGED <<mem, ignoreRollback, reported>>
       \/ /\ op[c].read /\ ~Raced(op[c]) /\ ~Outdated(op[c])
          /\ WriteState(SwitchVersion(mem.st, op[c].version), mem.marker)
          /\ ignoreRollback' = FALSE
          /\ op' = Begin(c, op[c].kind, op[c].version, "flushing")
          /\ reported' = Nothing
    /\ OpUnchanged
    /\ UNCHANGED <<disk, background, alive, launchVersion, fallbackTimer>>

-----------------------------------------------------------------------------
(***************************************************************************)
(* Flushes.  What reaches the disk is the memory at that moment.           *)
(***************************************************************************)
(* What a call that succeeds owes, unless a launch came first.             *)
Owed(c) ==
    IF op[c].kind \in {"setNeedUpdate", "reloadUpdate", "commit", "reset"}
       /\ (op[c].kind = "commit" => op[c].version # NoVersion)
       /\ mem.st.current = op[c].version
       /\ (op[c].version # NoVersion => mem.st.firstTime)
    THEN op[c].version ELSE reported

(* Mutant: the call succeeds whatever the flush does.                      *)
SucceedsUnflushed(c) == UNCHANGED disk
Succeeds(c) == disk' = mem

FlushEnds(c) ==
    /\ op[c].at = "flushing" /\ Succeeds(c)
    /\ reported' = Owed(c)
    /\ UNCHANGED <<build, mem, background, dirs, process, ops, deaths, wanted>>
    /\ CASE op[c].kind = "reloadUpdate" ->
              op' = [op EXCEPT ![c].at = "restarting"] /\ UNCHANGED tasks
         [] op[c].kind = "reset" -> Enqueue(Queued("wipe"), [op EXCEPT ![c] = Idle])
         [] OTHER -> op' = [op EXCEPT ![c] = Idle] /\ UNCHANGED tasks

(* The caller is told of the failure.  A reset flushes two stores, and     *)
(* either failure rejects: the state may be on disk all the same.          *)
FlushFails(c) ==
    /\ op[c].at = "flushing"
    /\ disk' \in {disk} \cup IF op[c].kind = "reset" THEN {mem} ELSE {}
    /\ op' = [op EXCEPT ![c] = Idle]
    /\ OpUnchanged /\ UNCHANGED <<mem, background, process, reported>>

BackgroundFlushEnds ==
    /\ background /\ background' = FALSE
    /\ disk' \in {mem, disk}
    /\ OpUnchanged /\ UNCHANGED <<mem, process, op, reported>>

-----------------------------------------------------------------------------
(***************************************************************************)
(* Restarts (reloadBridge): the platform restarts the process, refuses, in *)
(* which case the RN instance is restarted at once, or resolves and does   *)
(* nothing, in which case it is restarted 1.5 s later.                     *)
(***************************************************************************)
RestartsProcess(c) == alive /\ op[c].at = "restarting" /\ Gone

SoftRestart(o, timer) ==
    /\ ResolvesLaunch /\ op' = o /\ fallbackTimer' = timer
    /\ UNCHANGED <<build, disk, dirs, alive, tasks, ops, deaths, wanted>>

RestartRefused(c) ==
    op[c].at = "restarting" /\ SoftRestart([op EXCEPT ![c] = Idle], fallbackTimer)

RestartSuppressed(c) ==
    /\ op[c].at = "restarting"
    /\ op' = [op EXCEPT ![c] = Idle] /\ fallbackTimer' = TRUE
    /\ OpUnchanged
    /\ UNCHANGED <<stores, alive, launchVersion, ignoreRollback, reported>>

FallbackFires == fallbackTimer /\ SoftRestart(op, FALSE)

-----------------------------------------------------------------------------
ContextCalls ==
    \E c \in Call :
        \/ \E v \in Version : CallSwitch(c, v) \/ StartRound(c, v)
        \/ CallRestart(c) \/ CallMarkSuccess(c) \/ CallReset(c)

(* What the platform owes to a call.                                       *)
ContextAnswers ==
    \E c \in Call :
        \/ CommitStarts(c) \/ VerifyStarts(c) \/ VerifyReads(c) \/ VerifyReturns(c)
        \/ FlushEnds(c) \/ FlushFails(c)
        \/ RestartsProcess(c) \/ RestartRefused(c) \/ RestartSuppressed(c)

ContextTasks ==
    \/ \E v \in Version : CleanupDeletes(v)
    \/ CleanupEnds \/ InstallEnds

ContextNext ==
    \/ ContextCalls \/ ContextAnswers \/ ContextTasks
    \/ \E v \in Version : Download(v)
    \/ \E supersedes \in BOOLEAN : CallSetKv(supersedes)
    \/ GetBundleUrl \/ GetConstants \/ Boot \/ Die \/ Upgrade
    \/ BackgroundFlushEnds \/ FallbackFires

ContextSpec == ContextInit /\ [][ContextNext]_contextVars

-----------------------------------------------------------------------------
(***************************************************************************)
(* Properties                                                              *)
(***************************************************************************)
Active == {mem.st.current, mem.st.last, launchVersion} \ {NoVersion}

(* A regular cleanup never deletes the version to launch, its fallback or  *)
(* the running one, whatever was activated since it was queued or while it *)
(* runs: the keep list is taken when it starts, and activations wait.      *)
CleanupSparesActive ==
    [][CleanupInFlight /\ running.task.kind = "cleanUp" => dirs \cap Active \subseteq dirs']_contextVars

Launches == GetBundleUrl \/ FallbackFires \/ \E c \in Call : RestartRefused(c)

(* A switch or a reset that was reported to its caller is what the next    *)
(* launch resolves to, in this process or the next one, unless something   *)
(* newer replaced it or the bundle is gone: reported means on disk.        *)
ReportedIsLaunched ==
    [][reported # Nothing /\ reported \in dirs \cup {NoVersion} /\ Launches
         => mem'.st.current = reported]_contextVars

(* What a reset revoked stays out: memory never names a version that no    *)
(* call begun after the reset asked for, however long a switch or a round  *)
(* begun before it takes to verify.                                        *)
ResetWins == alive => {mem.st.current, mem.st.last} \subseteq wanted \cup {NoVersion}

(* Every cleanup spares a version activated before it started.             *)
EveryCleanupSparesActive ==
    [][CleanupInFlight => dirs \cap {mem.st.current} \subseteq dirs']_contextVars
=============================================================================
