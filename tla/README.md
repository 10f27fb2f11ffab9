# A TLA+ model of react-native-pushy

react-native-pushy replaces the JavaScript bundle of an installed React Native
app. A small state machine, shared by all platforms in C++, decides which
version a launch loads, when a version that crashes is rolled back, and what a
switch, a confirmation or a reset does; the platform code persists that state,
stores the versions, and drives a native check five seconds after launch (or
while a crash is being held) so that a device stays rescuable when the JS of a
version is broken. The JS client checks, downloads, switches and confirms.

What is hard about it is not any one step. It is that a version is activated by
four parties (JS, the cold-start round, the crash hold and the launch itself)
on five threads, over two stores whose commits may fail, in a process that may
die at any point, and that what was decided minutes ago is applied to a state
that has moved since. The JS client and the Harmony port have no second
thread, and the same difficulty between any two awaits. That is what these
modules model.

Paths below are relative to the repository's root. `A/` stands for
`android/src/main/java/cn/reactnative/modules/update/` and `H/` for
`harmony/pushy/src/main/ets/`.

## Components

| component | state | operations | talks to | must hold |
|---|---|---|---|---|
| state core, `cpp/patch_core/state_core.cpp` | none; a `State` in, a `State` out | SyncBinaryVersion, SwitchVersion, MarkSuccess, ClearRollbackMark, Rollback, ResolveLaunchState | called by each port under its lock | a fallback is never the current version; a version gets one unconfirmed launch |
| UpdateContext, `A/UpdateContext.java` | two SharedPreferences stores (memory and file), reset and config generations, launchVersion, first-load and rollback flags, commitLock, versionFilesLock | construction, getBundleUrl, consumeLaunchMarkers, switchVersion, markSuccess, resetToPackagedBundle, setNativeConfig, commitSyncResult, cleanUp | main thread, serial thread, round, crash hold, executor | state coherent in memory and on disk; what is active is on disk; what was superseded stays out; the cache belongs to the configuration |
| UpdateModule, StateSerialRunner, ReactReloadManager, `A/` | one serial thread, a reload posted to the UI thread | the calls JS makes, in order | JS to UpdateContext | a reload loads what was resolved |
| cold-start coordinator, `A/SyncCoordinator.java` | the process's one round, its result, what it left to JS | schedule, claim, run the engine's commands, commit, finish; prepareBundle | round engine, UpdateContext, CrashHold, host | one round per process, cut short means the breadcrumb stays, a host that waits is told what landed |
| CrashHold, `A/CrashHold.java` | handler installed, held once | maybeHold on an uncaught JS exception | coordinator | the process dies within its budget, with a fix activated if there is one |
| round engine, `cpp/update_flow_core/round_engine.cpp` | the round's state: phase, configuration, query, decision, cursor | start, env, http, installed, download, committed | one adapter per platform runs its commands | bounded work, deadlines, at most one commit, a true report |
| endpoint query, `cpp/update_flow_core/native_round.cpp` | list, position, tried, spent | NextQueryStep, PlanAttempts | round engine | bounded, no endpoint twice, never off https |
| decisions, `cpp/update_flow_core/update_flow_core.cpp`, `native_config.cpp`, `src/updateFlowCore.ts` | none | DecideDownload, gray release, expiry, config gate | round and JS | the same answer in C++ and in TypeScript |
| download executor, `A/DownloadTask.java` with the install record and resume plan | one worker, files | download, resume, patch, seal, promote, clean up | UpdateContext, round, JS | an install is complete or absent; cleanup spares what is in use |
| store migration, `H/StoreSchema.ts`, `cpp/patch_core/stored_items.cpp`, `A/StoreMigration.java` | two layouts of the stores | a one-time move | the context's constructor | repeatable after a crash anywhere |
| JS native-config sync, `src/clientNativeConfig.ts` | pending, synced, in flight | syncNativeConfig, flush, continuations | serial thread, PushyRuntime.configure | native code ends up with the wanted configuration |
| JS activation, `src/clientActivation.ts` | applyingUpdate, its generation, the watchdog, shared markSuccess | switchVersion, switchVersionLater, restartApp, markSuccess, resetToPackagedBundle | UpdateModule, downloads | one switch at a time, always released |
| JS check, `src/clientCheck.ts`, with `src/endpoint.ts` and `src/updateFlowCore.ts` | the shared check and its fingerprint, the race's candidates | checkUpdate, the first request, the remote lists, the hedged race, the decisions | server, UpdateModule | no answer to another question, no endpoint twice, a plan for this device |
| JS download, `src/clientDownload.ts` | tasks and listeners by hash, ranked mirrors, exhausted strategies | downloadUpdate, downloadAndInstallApk | mirrors, UpdateModule, activation | one download per version, every mirror gets its try |
| client shell, `src/provider.tsx`, `src/clientReporter.ts`, `src/errorReporting.ts` | React state, dialogs, subscriptions, the global error handler | triggers of checks, buttons, the ways of an error | all of the above | acts on what was offered; an error surfaces once |
| Harmony context, `H/UpdateContext.ts` | preferences in memory and on disk, generations, the task chain | switch, commit of a round, restart, markSuccess, reset, cleanups | the state core, the coordinator | the same as Android's, without locks and with an asynchronous flush |
| Harmony download, `H/DownloadTask.ts`, `cpp/patch_core/resume_plan.cpp` | partial, sidecar, staging, version directory | transfer, resume, extract, patch, seal, promote | mirrors, the context | nothing foreign is installed; a block counts once |
| Harmony coordinator, `H/SyncCoordinator.ts` | the process's one round and its promise | schedule, run, prepareBundle with a deadline | round engine, context, hosts | what a host is told is in force; a host is told in time |
| Harmony bundle and handles, `H/SaveFile.ts`, `H/EventHub.ts` | descriptors by file name, the bundle digest, the receiver of events | withRawFd, getBundleHash, register and unregister | resource manager, RN instances | nobody's descriptor is closed under him |
| iOS port | the same state in its own store | the same | the same core | the same, with named differences |
| patch formats, JSON, APK installer | bytes | parse, patch | files | outside a model checker's reach |

The interactions that carry the difficulty:

* **launch protocol** - getBundleUrl uses up a version's one first launch, JS
  consumes the markers, markSuccess confirms, the next launch rolls back what
  was not confirmed;
* **generations** - a reset and a change of configuration move
  `resetGeneration`; a round or a hold that sampled it earlier is refused;
* **versionFilesLock** - held from the digest of a switch target to its commit,
  and from the choice of a cleanup's keep names to the deletion;
* **the round as a command loop** - the engine is pure; the adapter performs
  one command at a time and answers with one event, while the rest of the
  process goes on;
* **the configuration's owner** - JS or the host, each writing from a thread of
  its own, with promises in between;
* **the lease on a switch** - user hooks, a reset and a newer switch fall between
  the awaits of an older one, and a reload may resolve without restarting;
* **flush and death** - on Harmony a change is in memory at once and on disk when
  a flush ends, and hosts, callers and cleanups act in between.

## Modules

| module | models | lines it reads |
|---|---|---|
| `StateCore` | the state core as operators on a record | `cpp/patch_core/state_core.cpp` |
| `UpdateContext` | one installation on Android: stores, directories, threads, crashes | `A/UpdateContext.java`, with the coordinator, CrashHold, module, reload, executor |
| `MCUpdateContext`, `MCRollback` | TLC instances; `MCRollback` adds an observer of the versions ever rolled back | |
| `StateCoreProofs`, `UpdateContextProofs` | theorems on the two | |
| `Selection`, `SelectionProofs` | what a filter leaves of a list, as an operator without recursion; its lemmas | |
| `EndpointQuery` | NextQueryStep and OrderEndpointCandidates as operators | `cpp/update_flow_core/native_round.cpp`, `update_flow_core.cpp` |
| `RoundEngine` | one round: the engine's handlers, the adapter's loop, the clock, resets, configuration changes and a crash around it | `cpp/update_flow_core/round_engine.cpp`, `A/SyncCoordinator.java` |
| `RoundPromise` | what a round promises its host, abstractly; implemented by `RoundEngine` | |
| `MCRoundEngine`, `RoundEngineProofs` | TLC instance, eight theorems | |
| `NativeConfigSync` | the options' configuration on its way to native storage | `src/clientNativeConfig.ts`, `src/client.ts`, `A/UpdateModule.java`, `A/PushyRuntime.java` |
| `ClientState` | what the parts of the client share | `src/clientState.ts` |
| `Activation` | switches, restarts, resets, markSuccess | `src/clientActivation.ts` |
| `Downloader` | downloads of a version by several callers | `src/clientDownload.ts`, `src/utils.ts` |
| `UpdateClient` | `Activation` and `Downloader` over `ClientState` | |
| `UpdateClientProofs` | theorems on the lease; the invariants of downloads | |
| `Checker` | checkUpdate | `src/clientCheck.ts`, `src/clientNativeConfig.ts` |
| `JsEndpointQuery` | how JS finds an endpoint that answers | `src/endpoint.ts` |
| `UpdateDecisions` | the pure decisions, as operators | `src/updateFlowCore.ts`, `src/telemetry.ts` |
| `DecisionCases` | them over any sets of devices and responses: one initial state each | |
| `Provider` | UpdateProvider: when it checks, what it shows, what buttons do | `src/provider.tsx` |
| `Reporter` | the chain of global error handlers | `src/clientReporter.ts`, `src/errorReporting.ts` |
| `ErrorFlow` | an error's way to the user | `src/clientReporter.ts`, `src/provider.tsx` |
| `JsClient` | the parts of the client as one specification | |
| `MCJsClient`, `JsClientProofs` | TLC instance, thirteen theorems | |
| `HarmonyContext` | one installation on Harmony, over `StateCore` | `H/UpdateContext.ts`, `H/PushyTurboModule.ts` |
| `HarmonyDownload` | transfer and install of one version | `H/DownloadTask.ts`, `cpp/patch_core/resume_plan.cpp` |
| `HarmonyCoordinator` | the round and the hosts that wait for it | `H/SyncCoordinator.ts`, `H/BundlePreparationResult.ts` |
| `HarmonyHandles` | descriptors, digest, events | `H/SaveFile.ts`, `H/UpdateContext.ts`, `H/EventHub.ts` |
| `StoreMigration` | the move between the stores | `H/StoreSchema.ts`, `cpp/patch_core/stored_items.cpp` |
| `Harmony` | the parts of the port as one specification | |
| `HarmonyContextProofs`, `HarmonyProofs` | theorems on the context; on the other parts and the port | |
| `MCHarmony` | TLC instance of the port | |

`PROJECT.json` ("map") names the lines of every definition.

### UpdateContext

Every section the code runs under commitLock is one action; versionFilesLock is
held across actions and is a variable. The store is `mem` (the SharedPreferences
map) and `disk` (its file): a commit always changes `mem`, and reaches `disk` or,
where the run allows it, does not - then a later commit carries the change
along, as SharedPreferences does. An `apply()` is pending until it is written or
lost with the process. Process death is an action enabled at any time; the next
`Construct` reads the files. The serial thread runs one module call at a time in
the steps between which others may run (a switch is called, verified,
committed). The round appears by its outcomes: nothing, a version ready, a
download waited for, then verification and commit; `RoundEngine` is the detail.

What is left out, and why it does not matter to the properties: the per-version
information records, the uuid and the bundle hash (no modelled decision reads
them); package version and build time are one value `binary`; the empty string
is `NoVersion`; the five seconds' delay, the uptime test and the time budgets of
a crash hold are scheduling choices, so the model does more than the code. The
round's facts and response are one step (no state changes between them), its
commit and the bookkeeping after it are one, and markSuccess's commit and the
cleanup it enqueues are one. A "cleanup of old" deletes any subset of what is
not kept. `dirs` holds the versions whose directory is complete and verifies;
an install is atomic here. Directories without a completion record and complete
ones that do not verify are not modelled. The initial state is an installation
whose first construction already recorded the binary. Release builds only: a
debug build never schedules a round.

### RoundEngine

One action per event handler of the engine (`Start`, `OnEnv`, `OnHttp`,
`OnInstalled`, `OnDownload`, `OnCommitted`), each with everything the handler
does up to the command it emits, for the adapter runs that command and nothing
else until its answer arrives. `Sample` is the adapter's first lines, which read
the generations before the configuration; `Abort` is an exception in the
adapter before the first request. `Event` takes the time it happens at, so time
passes only with events, up to `MaxClock`. Around it `World` holds a crash,
resets or replaces the configuration. `round.resetGeneration` and the configuration are
exactly what `commitSyncResult` and the adapter compare.

`EndpointQuery` keeps the query's record field by field. An entry is a model
value; `Base` is the entry without trailing slashes, so two spellings of one
endpoint are two entries with one base. A reply is failed, a response or a list.
An entry is https or in clear: the code tests "not https" for a fetched endpoint
and "http" for an artifact, and the model does not tell these apart.
A response plans its strategies in the order DecideDownload fixes (diff, pdiff,
full), so the full one, when there is one, is the last.

History variables (`issued`, `spoiled`, `installed`, `moved`) record what was
asked for and what happened; no guard reads them.

Not modelled: an event of a type the phase does not expect (the adapters never
send one), `forceActivate` (prepareBundle), and a configuration change between a
refused commit and the adapter's naming of the reason, which only changes the name.

### NativeConfigSync

`Flush` is flushNativeConfig and `SyncNativeConfig` is syncNativeConfig; a call
in flight is an entry of `calls`, the native serial thread's queue, until
`WriteSucceeds` or `WriteFails` settles it, and its promise then passes through
`OnWritten` or `OnRejected` and `OnSettled` - three continuations between which
setOptions may run. A reload is a new client; the old client's calls stay
queued and have no listener. A failed write may have changed what native code
reads (SharedPreferences) or not (the response cache could not be cleared).
The host writes from a thread of its own, while it owns the configuration.
`failed`, `crossed` and `lastSent` are history.

### The JS client

JS runs one continuation at a time, so what happens between two awaits of a call
is one action, and a call is a record with the place of the await it is at
(`act`, `task`, `check`). A hook of the business code is an await that may never
end and may throw; a native call is one that is answered.

`Activation` names a switch by the generation it took when it raised
`applyingUpdate`. A timer that is cleared after it was queued still runs, as
timers do, and finds out by its generation. A native restart replaces the
context: every call of the old one is gone, native state stays. A resolved
reload may also leave the context in place; that is the watchdog's case.

`Downloader` walks a plan (its strategies with their mirrors): the ranking by a
HEAD race, whose winner may be a redirect, the demotion of the mirror that was
this attempt's first choice, the strategies whose bytes did not apply and are
left for all attempts, and the pauses between attempts. `DownloadUpdate` joins a
running download of the same version. The native side is what it did to the
disk: `installed`, `named`. `UpdateClient` composes the two where they meet - a
reset drops what a download left, and one that falls into a transfer queues its
cleanup behind it (`wiped`, `tainted`).

`Checker` numbers the answers asked for, so that a slot, a caller and a promise
can be compared; a `Question` is a fingerprint of a request. `JsEndpointQuery`
takes every order of successes, failures and hedge timers; what a query URL
serves is one of `Listed`. `UpdateDecisions` is the algebra under both: a
device, a response and a rollout in, a plan out; `DecisionCases` compares it
with what it should mean (the requested device, nothing running or rolled back,
a full artifact last) on every combination. The rollout's hash of the device is
its bucket.

`Provider` models a component by its effects, callbacks and timers; `checks` and
`downloads` are what it waits for, `alerts` what is on the screen and about what.
Its history says what the user consented to. `ErrorFlow` numbers errors and
follows each through emission, joined callers and the provider's catches;
`Reporter` numbers handlers and follows the chain; an exception is reported once,
when reporting is on and the process runs an OTA version of a release build
(`release`), and reaches the app's own handler in any case.

### The Harmony port

ArkTS runs on one thread and there are no locks. `HarmonyContext` has one action
per section between two awaits; its header lists the awaits. Memory (`mem`) and
file are separate. An asynchronous flush is the platform's (`H/UpdateContext.ts:383`
awaits it): it writes the memory of the moment it is performed, which the model
puts at its end, or it fails; several may be under way. `flushSync` (370), where
there is one, is a flush with nothing in between. Downloads and cleanups are tasks
of one chain; a cleanup takes its keep names when it starts. Process death is
enabled at any time, and the next process reads the file.

`HarmonyDownload` gives the server's archive `Length` blocks, each named by the
entity it belongs to: a file that mixes two entities, or holds part of an error's
body (`Junk`), is visible as a sequence. The body, its end and the status come
in any order, as the transport's callbacks do; headers may come after the
request resolves, so that an encoding is found out when the sidecar is due or at
the end only. A partial or a sidecar may resist its deletion, which the code logs
or, before a request is made again, fails with. `torn` says that a death fell into
the in-place rewrite of the sidecar.

`HarmonyCoordinator` runs a round by any decisions the engine could take (which
it takes is `RoundEngine`'s matter) and keeps the code's awaits, the shared
promise, the hosts with and without a timeout, and the checks of a result that
is told after the round ended. `HarmonyHandles` has the promise chain of
`withRawFd` as it is: each job waits for the one that was the tail when it came.
The digest of the embedded bundle is stored under the key its computation began
with; a key has the installation's update time or, when the system did not give
it, none (`timed`).

`StoreMigration` is the Harmony carrying-out of the plan that all ports share;
an item is empty, what the old SDK wrote, what this one wrote, or what a later one
wrote before the user went back to this binary - then the plan moves and removes
nothing (`LeftToLater`). `unread` says that a launch could not open the old store.

Left out of the JS and Harmony modules: texts, telemetry payloads, getters,
version metadata, the APK path beyond its status, digests' values and the bytes
of archives.

## Runs

No run states fairness for `UpdateContext`: its properties are safety, and
nothing about the app's calls, the user or the process's life is guaranteed.
`client` and `harmony` each check several parts that share no variable: a
behaviour runs one `part` and the others stay where they start, so their states
add up instead of multiplying. Parts that do share state are composed
(`UpdateClient`).

| run | question | bounds |
|---|---|---|
| `activation` | two versions switched to by JS, rounds and holds while cleanups run: are current and fallback ever deleted; is a version that used up its first launch launched again? | 2 versions (symmetric), 1 binary, 1 queued job, no resets, no faults |
| `lifecycle` | every call, upgrades, resets, configuration, crashes: does anything superseded come back, is the cache ever out of date, does the breadcrumb tell a cut-short round, does a round bring back what this launch rolled back? | 1 version, 2 binaries, 1 reset or change per process, 1 queued job |
| `faults` | commits that do not reach the disk and bundles that vanish: is the state coherent, and the verified target still there? | 2 versions, faults on |
| `round` | one round over every reply, failure, timeout, crash hold, reset and configuration change | 3 requests, deadlines 2 and 4, clock to 6, see below |
| `client` | overlapping switches, resets, downloads and checks, option changes, the endpoint race, the decisions, the provider and its errors: does each keep to its owner, is what callers share right for each, does every call return? | 2 callers, 1 version, 5 calls (2 where downloads and activation run together), 1 retry, a diff over 2 mirrors and a full over 1, 2 configurations with 7 changes, see below |
| `harmony` | the port killed anywhere: does a reset win over what began before it, is what was reported on disk, is nothing foreign installed, does the identity survive, is a host told the truth and in time? | 2 versions, 2 binaries, 2 calls, 1 task, 1 death, archives of 2 blocks, 2 entities, see below |
| `confirmation`, `running_bundle`, `rolled_back`, `revert`, `reset_download`, `harmony_reset` | the six findings | as small as shows them, or those of the run they belong to |

**Why the bounds are enough to be interesting.** Two versions are the least with
which current, fallback and target differ while a third party holds the
directory; the state core has two version slots. Version is symmetric: no action
names one. Two binaries are the least for an upgrade. `MaxGeneration` is per
process and counts from zero in each; one reset is the least a round can miss,
and a second is refused by the same comparison. `MaxQueue` 1 with the job in
progress lets an install and a cleanup follow each other both ways. In `round`
`MaxQueryRequests` is 3 for the code's 8: the lists of the instance hold more
entries than that, so the limit bites, and below it every list is exhausted.
Timeouts 1 and 2 for 10 s and 15 s and 2 for a download window keep the order of
the code's constants (idle bound < call bound) and let a deadline fall before,
inside and after each of them; 6 ticks hold two full windows.

In `client` two callers are the least for a shared download, a joined check or a
superseded switch, and no action compares more than two. Five calls let a switch,
a reset, a newer switch, an older rejection and a watchdog meet; two suffice
where a download runs beside them, since a reset, a second download or a switch
is what can come between its steps. A diff over two mirrors and a full over one,
with a redirected winner, let a mirror be demoted, spoiled and retried.
`MaxChanges` 7 lets an A-B-A change, a reload and two changes of owner overlap in
one behaviour. Two askers of two questions with three checks and one change of
options let an older check fail beside a newer one. Four requests
(`MaxRequests`, the code's 8) are fewer than the endpoints the lists hold, so the
budget bites; one listed endpoint is in clear. Four handlers and two throws give
our handler neighbours on both sides. Three releases, two of them usable, let
the provider replace what a dialog is about. Two errors over two calls let one be
joined and one stay single.

In `harmony` the second version and binary are there for the same reasons as on
Android. `MaxVerifyAttempts` 2 stands for the code's 3, so the last attempt is
reached; one task and two calls let a cleanup start inside each await of an
activation. Two blocks and two entities are the least for a mixed archive, two
runs the least for a resume, and the second mirror the least for a sidecar of
another URL. Two changes of the world are an A-B-A configuration or a reset and
a switch; two attempts a download that fails over. Four boots let a migration
fail, die, repeat and finish. Four jobs on two files with four arrivals queue
three deep on one file.

**Fairness.** `RoundEngine`: weak fairness of `Sample` and `Step`, because the
thread that claimed the round runs it to its end and every command it performs
returns - requests have a call timeout, a download is waited for up to its
deadline. Nothing is assumed of the world. The client: weak fairness of
`JsDelivers`, one condition over what native code, the network, a timer or the JS
queue owes - bridge calls are answered, requests have a timeout, timers fire and
continuations run. Hooks of the business code, whether they allow, decline or
throw (`ActHook`), presses of buttons, setOptions, reloads and the host are not in it, so `ReloadReleasesTheFlag` and `CallsReturn`
except a call that waits for a hook. It is one condition, weaker than one per
part, because the bounds end every exchange. Harmony: weak fairness of the
coordinator's `RoundAnswers` and `HostReturns` - the round's awaits have the
engine's deadlines, a settled promise is delivered. A host's own timeout is not
in it, nor is the end of a download: `HostsReturn` must hold without them.

**Deadlock** is checked for the `UpdateContext` runs: an installation can always
do something. It is not for `round`, which ends, nor for `client`, `harmony`,
their findings and `revert`, where every bounded call may have returned; there
`CallsReturn` and `HostsReturn` say that nobody is left waiting.

### Properties

* `ActiveVersionsKept`, `LaunchVersionKept`: no cleanup takes current, fallback
  (in memory or as a restart would read them) or the version last resolved.
* `CrashLoopBroken`: a version that used up its one first launch unconfirmed is
  not what the next process loads.
* `SupersededStaysOut`: after a reset or an upgrade, no round or hold that
  decided earlier makes its version current or the fallback. The history
  variable `revoked` records it at the moment the reset happens.
* `CacheIsFresh`: no response obtained before the last reset, upgrade or change
  of configuration is left for JS to reuse (with cache commits that reach the
  disk; see the hazards for the other case).
* `BreadcrumbMeansInterrupted`, `RolledBackStaysOut`, `StoresCoherent`,
  `VerifiedTargetsIntact`: as named, see the comments in the module.
* `RoundIsBounded` (`QueryStaysBounded`, `NothingOutlivesDeadline` and
  `FullDownloadHasItsWindow`), `StaysOnHttps`, `SpoiledStrategyIsLeft`: what one
  round may ask for, of whom, until when and how often.
* `LandsInItsOwnWorld`: what a round reports as landed was decided with the
  stored configuration, and no reset came between its first step and its commit.
* `KeepsItsPromise`: `RoundEngine` implements `RoundPromise` - at most one
  commit, a version only when a complete install of it was reported, an end on
  every path, and a report that says what the commit did. `stage`, `ready`,
  `content` and `report` are mapped from the phase, the install that was
  reported, the commit command and the finish command.
* `QuietMeansStored`: when nothing is on its way and JS owns a configuration,
  native code reads it, unless the last call failed or the host wrote between a
  call and its reply.
* `FlagHasOneOwner`: `applyingUpdate` is up exactly as long as one switch or one
  watchdog is to lower it. `SupersededSwitchIsInert`: what a switch that a reset
  superseded still does changes nothing. `ReloadReleasesTheFlag`: a reload that
  does not restart does not hold the flag for the life of the context.
* `DownloadsAreSound`: one transfer of a version, heard by all who wait for it,
  and leaving a version on disk that may be switched to.
  `AttemptTriesEveryMirror`: no ranking, demotion or race skips a mirror.
* `ChecksFitTheirQuestion`: a shared answer is of the asker's question, and the
  native round is told to skip only what a check was made with while the options
  described it. `OthersAreLeftAlone`: giving up a slot or a handler takes nobody
  else's.
* `QueryAsksEachOnce`, `DecisionFitsDevice`, `ProviderActsOnUsableOnce`,
  `ErrorsSurfaceOnce`: as named, see the comments in the modules.
* `CallsReturn`: downloads, checks and writes of the configuration return to all
  who wait, joined callers included.
* `ResetWins`: memory names no version that only a call from before the last
  reset asked for. `CleanupSparesActive`: a regular cleanup spares the current
  version, its fallback and the running one, whatever was activated since it was
  queued. `ReportedIsLaunched`: a switch or reset reported to its caller is what
  the next launch resolves to.
* `NothingForeignIsInstalled`, `BlocksCountOnce`: what is promoted is one whole
  archive of one entity, and nothing received is fetched again - with the
  exceptions the comments in the module name.
* `UuidSurvives`: while both stores can be read, the install's identity is in one
  of the two files and every process runs with it; in any case one of the files
  holds a uuid, and the state store's, once it is on disk, is the one every
  process runs with - an old store that opens again does not win it back.
* `HandlesStay`, `ToldIsInForce`, `HostsReturn`: as named. `HandlesStay` says of a
  digest that one told under a key with an update time is of the running binary.

Stated beside the code and checked by no run, because they do not hold (each is
narrow, and the code owns up to half of it) or are part of another:

* `SwitchBackIsStored` in `NativeConfigSync`: a reply that arrives after the
  configuration went to the host and back is remembered, and the wanted
  configuration deduplicated against it (`src/clientNativeConfig.ts:101`).
* `StoreWins` in `StoreMigration` is proved (`StoredConfigWins`).
* `HandlesStay` leaves out a digest whose key has no update time: the comment at
  `H/UpdateContext.ts:1050-1051` has the key identify the installed binary, but
  without the time (`getBundleModifiedTime` answers 0 when the system refuses) it
  is that of any binary of the version, and an upgrade does not clear it
  (`UPGRADE_CLEARED`, 87-90).
* `EveryBlockCounts` in `HarmonyDownload`, the comment at `H/DownloadTask.ts:412-413`
  that every byte received counts after the death of the process: the sidecar is
  unlinked and written anew, before the first byte of a transfer and after its
  last (150 and 322-332), and a death in between leaves a partial that nothing
  vouches for, so the next task starts from zero, as the comment at 152 accepts of
  a write that fails. An invariant of `DownloadSpec`, TLC refutes it in 22 states.
* `IdentityIsKept` in `StoreMigration`, the comment at `H/UpdateContext.ts:213` that
  a move which fails keeps the uuid: a launch that cannot open the old store goes
  on with an empty state store, as a fresh install (221-225), where JS draws a uuid
  of its own; when the old store opens again the stored uuid wins and the old one
  is removed. An invariant of `MigrationSpec`, TLC refutes it in 8 states.

## Findings

1. `confirmation` - markSuccess confirms whatever is current, also a version
   switched to after the running one was launched. It then has no fallback and
   no protected first launch (`A/UpdateContext.java:582`; `README.md:30`).
2. `running_bundle` - `restart()` resolves the next bundle, and so moves
   launchVersion, before the reload happens. A cleanup in between keeps the next
   version and deletes the one JS still runs from (`A/UpdateContext.java:727`;
   `A/CleanupKeepNames.java:6-9`).
3. `rolled_back` - the rollback mark lasts one launch; the next process's round
   installs and activates the version again (`A/UpdateContext.java:557`;
   `README.md:142`).
4. `revert` - a failed write has changed what native code reads but the client
   still remembers the write before it, so going back to that configuration is
   deduplicated away (`src/clientNativeConfig.ts:92`, its comment at 162-165).
5. `reset_download` - resetToPackagedBundle drops `downloadedHash`, but a
   download in flight sets it again when its transfer resolves, for a version
   that the reset's cleanup, queued behind that transfer, then removes
   (`src/clientActivation.ts:304`, its comment at 302-303).
6. `harmony_reset` - the wipe a reset queues keeps only launchVersion, so a
   version switched to while the reset awaits its flush is deleted while it is
   active (`H/UpdateContext.ts:733`, the comment at 471-473).

`QuietMeansStored` leaves out a failed last call and a host that wrote before
the reply, the situations of 4 and of `SwitchBackIsStored`; `DownloadedIsOnDisk`
leaves out 5, `CleanupSparesActive` 6, `BlocksCountOnce` and the first part of
`UuidSurvives` what the last two items above describe. Each holds in every other
situation.

## Theorems

Every type invariant, safety invariant and action property that a passing run
checks is stated by a theorem here. Each is proved for every value of the
constants, from the modules' named assumptions on constants; five of
`UpdateContext` assume in their statement that a fault is off, as noted. What is
proved is the specification of a component or of a part of it (`Spec`, `JsSpec`,
`HarmonySpec`, ...); the runs of the client and of the port check the same
actions from the first states of their instance (`MCSpec`).

**Assumptions.** TLC evaluates each on the run of its module.

* Bounds are natural numbers (`BoundAssumption`, `CheckBounds`, `ReporterBounds`,
  `CoordinatorBounds`, `DownloadBounds`, ...), positive where the code counts
  from one attempt or one block. The values that stand for "none" are none of the
  others (`NoVersionAssumption`, `NoHashAssumption`, `ReleaseAssumption`, ...):
  the code tests them by null, by the empty string or by a field of their own.
* `UrlAssumption` of `EndpointQuery`: stripping the slashes of an address leaves
  an address or nothing, and does not change the scheme of one that names a host
  (StripTrailingSlashes).
* `TimeAssumption`: the windows and deadlines are positive, as the constants of
  `round_engine.h` are.
* `RoundAssumption`: a configuration, a fetched list and a response have the
  fields that `native_config.cpp` and `native_round.cpp` check before they hand
  them on, and a response names a full package once at most: DecideDownload
  appends the full artifact once, behind the incremental ones.
* `PlanAssumption`, `QueryAssumption`: a plan and an endpoint list are finite
  lists of what they should hold.
* `DecisionAssumption`: a release is a record of the fields `type.ts` declares; a
  rollout is a percentage, 101 standing for none; a device's bucket is in 0..99,
  as a hash modulo 100 is; and what a caller adds to a request is a record, the
  empty one being the only one without fields.

**Filters.** `Array.filter` and the loops of the C++ that copy some entries would
be `SelectSeq`, which is recursive, and nothing can be proved of what it leaves.
`Selection` says the same without recursion: the n-th entry left is the one at
the n-th position kept. `ThoseAre` (what is left are the entries at those
positions), `NthIsInOrder`, `ThoseOnce` (a list without repetitions is left
without) and `MovedToFront` are what the proofs about endpoint queries, mirrors
and plans cite.

* `UpdateContextProofs!Invariance`: `Spec => []IInv`, with
  `IInv == TypeOK /\ StoresCoherent /\ LocksHeld /\ RoundShape /\ DeadIsQuiet /\
  VerifiedTargetsIntact`. From it `TypeCorrect`, `StoresStayCoherent` and
  `TargetsStayIntact`. `VerifiedTargetsIntact` is not inductive alone: that no
  cleanup is in its deletion while a target is verified needs `LocksHeld`, which
  ties the lock to its holder; that a round has a version to verify needs
  `RoundShape`; and that a restart starts with nobody holding a lock needs
  `DeadIsQuiet`. Coherence of the stores rests on the lemmas of
  `StateCoreProofs`, one per operation of the core, and on `CommitGood`: a commit
  leaves on disk one of the stores it wrote or the one that was there.
* On top of it `RunningInvariance`: `Spec => []Running`, with `Running == Quiet /\
  Kept /\ FreshIfCurrent /\ MarkOfTheRound /\ JobsOfTheRound /\ MarkIsRespected`.
  It holds whichever faults are on and gives two properties without a condition:
  `LaunchVersionStays`, because `Kept` adds the version a running launch came from
  to what every deletion spares, and `RollbackIsRespected`, because
  `MarkIsRespected` says that neither the round nor what it left to JS is about
  the version the launch rolled back, and `JobsOfTheRound` that no install the
  round did not ask for ends its wait.
* The others depend on writes that take effect, and each theorem assumes just the
  constant it needs. `CacheStaysFresh` (`~CacheWritesMayFail`) follows from
  `FreshIfCurrent`, a round whose generation is current holds a fresh answer.
  The rest (`~StateWritesMayFail`) go through `DiskInvariance`, `MemIsOnDisk`:
  what a restart would read of these fields is what memory says. With it
  `BreadcrumbIsExact` follows from `MarkOfTheRound`. `LaunchableInvariance` adds
  `Launchable` - what is current or the fallback was never superseded, and the
  version whose one first load was used up is current and recorded as unproven
  (`CandidateIsUnproven`), so that the next launch rolls it back - and gives
  `SupersededStays`, `CrashLoopEnds` and, with `~FilesMayVanish`,
  `ActiveVersionsStay`. The run `lifecycle` has the fault constants of these
  assumptions.
* `RoundEngineProofs!RoundLandsInItsOwnWorld`: `Spec => LandsInItsOwnWorld`. The
  invariant is `SampleIsCurrent`: nothing came between while the sampled
  generation is still the current one, and anything that did made it smaller;
  and from `Start` on the round's configuration is the stored one as long as
  nothing came between. `EventKeepsSample` shows that no event but `Start` takes
  anything anew and that only an accepted commit lands something.
* `RoundEngineProofs!SpoiledStrategyStaysLeft` and `RoundKeepsItsDeadline`, the
  latter `NothingOutlivesDeadline`, a conjunct of `RoundIsBounded`. The invariant
  is `Bounded`: the windows in the cursor end by the deadline (`WindowsEnd`), the
  command given last was given in time (`InTime`), and every spoiled strategy is
  before the cursor (`CursorMovesOn`). `MinOfSome`, from the well-foundedness of
  < on the naturals, says that the next strategy is one that is still open.
* `RoundEngineProofs!QueriesStayBounded` proves `QueryStaysBounded`, another
  conjunct of `RoundIsBounded`. `QueryCounts` ties the engine's own bookkeeping to
  the history of requests: `spent` is their number and `tried` holds every
  endpoint asked; `NextRequestIs` says that a request is only made while there is
  something left to spend, and to an endpoint not in `tried`.
* `RoundEngineProofs!RoundTypeCorrect`, `RoundStaysOnHttps` and
  `RoundAlwaysBounded`, from `RInv == IInv /\ Bounded /\ QueryCounts /\ Sound /\
  LastResort`. That nothing in clear was asked says nothing of what will be:
  `QueryIsHonest` says it of the candidates of a query whose answer is awaited,
  which `NextIsHonest` keeps although a fetched list is mixed in, and
  `PlanIsReachable` of the mirrors of a plan, which `PlanIs` shows of what
  PlanAttempts leaves. `LastResort` says where, in a round without a
  deadline, the full package is while the cursor moves: still ahead, being tried with a whole window, or tried - so a
  round cannot come to its end past it. It needs that a response names one full
  package, since the window is granted to the first.
* `RoundEngineProofs!StepsKeepThePromise`: `Spec => Promise!Init /\
  [][Promise!Next]_(Promise!vars)`, under the mapping `KeepsItsPromise` uses. By
  `EventDecides` each event either decides something or answers the one commit,
  and `PromiseKept` ties what a commit carries to what it will report. That the
  round ends, the rest of `KeepsItsPromise`, is left to TLC.
* `UpdateClientProofs!FlagAlwaysHasOneOwner` and `SupersededSwitchStaysInert`, for
  any number of callers, versions and calls. The invariant is `LeaseInv`: types,
  `GenerationsArePast` - no switch and no timer is of a generation still to come,
  and 0 is nobody's - and `FlagHasOneOwner`. Without the second, the switch that
  takes the next generation could find that somebody holds it already.
  `SwitchTakesLease`, `ReloadPassesLease`, `SwitchEndsLease`, `ResetVoidsLease`
  and `FiresEndsLease` are the moves of the lease.
* `JsClientProofs!DownloadsAlwaysSound`. `SharingInv` makes the sharing of a
  download symmetric: the caller a version's task is recorded for is the one that
  runs it (`OwnersHoldTheirTask`), who joined it waits on that caller
  (`JoinedShareOne`), and while bytes move all of them are among the listeners
  (`ProgressIsTold`). `PersistedIsThere` says that a version is on disk before its
  hash is offered to switchVersion, unless a reset wiped under the transfer,
  which is what `reset_download` shows.
* `JsClientProofs!AttemptsAlwaysTryAll`. The property speaks of the end of an
  attempt; `AttemptInv` says it of every moment: strategies before the current
  one are over (`SoFar`), the mirrors of the current one are tried or still in
  the list (`ToTry`), and no ranking lost a mirror (`NoneIsLost`) - a race puts
  its winner in front, a demotion puts the failed one last, and `MovedToFront`
  says that neither drops an entry, nor does a redirect that takes a winner's
  place. `NextStrategyInv` shows that the loop skips nothing but exhausted
  strategies.
* `JsClientProofs!ChecksAlwaysFit`, and the half of `OthersAlwaysLeftAlone` about
  checks. `CheckFits` and `SlotFits` number the answers: the slot's answer is of
  the fingerprint beside it, and a caller that waits on an answer asked its
  question. `MarkedWasChecked` keeps, of a configuration native code was told
  of, that a check got its answer with it. The other half, about the chain of
  error handlers, rests on `ReporterInv`: what a cleanup would take out is a
  handler this client installed (`wrapper`), never another integration's.
* `JsClientProofs!QueryAlwaysAsksOnce`. `QueryInv` ties the history to the lists
  the code keeps: what was asked is what an earlier batch excluded and the part
  of this batch already started, the two are disjoint, and a batch is never
  longer than what the budget leaves.
* `JsClientProofs!ProviderAlwaysActsOnUsableOnce`. `ProviderInv` adds what is on
  the way: an alert about an update is about a usable one, so are the downloads
  in flight, and the counts of start checks and launch links are zero until the
  mount sets its flag (`CountsBeginWithTheMount`).
* `JsClientProofs!DecisionsAlwaysFit`. `ResolveIs` lists what the resolution of a
  response can be, `PlansWell` (`DecideIs`) what can be planned of it, and
  `ResolveAgain` that deciding twice is deciding once. The cases are initial
  states, so this is a statement about the operators for all their inputs.
* `JsClientProofs!EveryErrorSurfacesOnce`. `FlowInv` adds to the property who
  still has to show an error: one a call has caught was made (`ThrownWasMade`),
  an error never emitted has one holder (`UnemittedHasOneHolder`), one the
  listener heard was emitted (`HeardOfEmitted`), and the counts follow
  (`ShownOnce`, `LoggedOnce`).
* `JsClientProofs!StorageFollowsOptions`: `Spec => [](TypeOK /\ QuietMeansStored)`
  of `NativeConfigSync`. The invariant is `CallShape` (the live call is the last
  one queued, behind calls of replaced clients), `PendingIsWanted` (what waits or
  is in flight is what the options describe) and `SyncedIsStored` (what the
  client remembers is what native code reads, as long as no call failed and the
  host kept out). `FlushIInv` proves the one operation all paths share.
* `JsClientProofs!ClientTypeCorrect`, `ClientKeepsItsWord` and
  `SupersededStaysInert` are of the client as one (`JsSpec => []ClientInv`), where
  switches and downloads share the flag, the process and the reset.
* `HarmonyContextProofs`: `ResetAlwaysWins`, `CleanupsSpareActive` and
  `ReportedStaysLaunched`, from `ContextInv`. A call that may still activate a
  version (`Pending`) is of a version asked for since the last reset unless that
  reset superseded it, and one that verifies while a cleanup is in flight knows
  that it raced and tries again (`CallFits`); so a cleanup that runs keeps every
  name the state holds (`TasksFit`). What was reported is in memory and on disk
  (`DebtIsStored`): memory alone would not survive a death, and the disk alone
  would be overwritten by the next flush.
* `HarmonyProofs!OneArchiveIsInstalled` and `BlocksAreWrittenOnce`, from
  `DownloadInv`, for archives of any length. `ArchiveFits` says of a partial
  whose sidecar vouches for it that it is of one entity, and of the entity a
  range is about to extend; `RequestFits` that a body which is being written
  is one whose status was judged; `DirectoriesFit` that what is staged, sealed
  or promoted was made of a whole archive; `CountFits` ties the counted bytes to
  the file.
* `HarmonyProofs!ToldStaysInForce`, from `CoordinatorInv`: a round whose
  generation is the present one has its version selected in memory while it
  flushes (`InForceInMemory`) and on disk when it ends (`InForce`); that
  generations only grow past the one it sampled is `SampledBefore`.
* `HarmonyProofs!UuidAlwaysSurvives` and `StoredConfigWins`. `MigrationInv` says
  what each step of the move has already carried, so that a process runs with the
  stored uuid (`UuidIsCarried`, `ConfigIsKept`), that it is the install's as long as
  every launch could read (`UuidIsTheirs`), that a later SDK's store is left as it
  is (`LaterKeepsIt`) and that no flush outlives its process (`FlushesDieWithIt`).
* `HarmonyProofs!HandlesAlwaysStay`. That a descriptor is closed by its only user
  rests on the chain being a queue: `IsQueue` gives each waiting job a place such
  that it waits for the one before it and the tail is last; `ArrivesQueues` and
  `LeavesQueue` renumber the places, and `HeadIsAlone` says that of one file one
  job reads.
* `HarmonyProofs!PortRunsItsParts`: every behaviour of the port is one of each
  part's own specification, so the theorems on the parts are theorems on the
  port; with it `HarmonyTypeCorrect`.

**Only model-checked.** That the round ends (the liveness of `KeepsItsPromise`,
whose steps are proved), `ReloadReleasesTheFlag`, `CallsReturn` and `HostsReturn`
need fairness, and liveness under fairness is out of the prover's reach. The
properties of the runs that expect a violation do not hold.

## Not modelled

* The bytes of archives, patches and JSON, header syntax, digests' values: data
  without a protocol. The APK installer and resource copying: platform I/O.
* The iOS port. It runs the same core over NSUserDefaults and dispatch queues,
  with a state of its own (tvOS purge, first loads that are not consumed on
  launch); of the state core, ClearFirstTime and ForgetPurgedVersions serve only
  it and are left out with it.
* On Android the steps of an install: `UpdateContext` has it atomic, and the
  resume, staging, sealing and promotion that both ports share in structure are
  modelled for Harmony. `A/StoreMigration.java` commits synchronously before
  anything else of the process runs. prepareBundle's waiting host is modelled for
  Harmony.
* The parser and normalizer of the configuration (`native_config.cpp`): whether a
  configuration can run a round is a constant of the models. Texts, types,
  telemetry payloads and web fallbacks of the JS side.
* Scripts, generators, the example app and its end-to-end tests: no state
  survives a step.

The status of every component is in `PROJECT.json`.

## Plan

What would add most next, in this order:

1. The crash hold over `UpdateContext` with the version that crashed, so that a
   hold which activates that very version can be stated
   (`A/SyncCoordinator.java:283`), and prepareBundle's host on Android.
2. The response cache in `HarmonyContext` (`H/UpdateContext.ts:786`).
3. An abstract launch specification - what may be loaded after what - that
   `UpdateContext` and `HarmonyContext` both implement; the install of
   `HarmonyDownload` as a refinement of the atomic one.
4. The iOS port beside the two others.
5. Theorems: `LandsInItsOwnWorld` composed with the activation state, so that what
   `RoundEngine` lands is what `UpdateContext` lets a round land; the restart on
   Harmony, that what is launched after a death is what `ReportedIsLaunched`
   promised, as a refinement of the launch specification of 3.
