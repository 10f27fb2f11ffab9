------------------------- MODULE UpdateContextProofs -------------------------
(***************************************************************************)
(* UpdateContext, for every set of versions, binaries, configurations and  *)
(* calls, every bound, and whichever faults are switched on.               *)
(***************************************************************************)
EXTENDS UpdateContext, StateCoreProofs, SequenceTheorems

(***************************************************************************)
(* Persistence                                                             *)
(***************************************************************************)
GoodStore(s) == s \in Store /\ Coherent(s.st)

GoodStores == StoreTypeOK /\ StoresCoherent

(* GoodStores, one store at a time.                                        *)
LEMMA GoodStoresDef ==
    GoodStores <=> GoodStore(mem) /\ GoodStore(disk) /\ applyPending \in BOOLEAN
BY DEF GoodStores, GoodStore, StoreTypeOK, StoresCoherent

(* Whether a commit reached the disk is a Boolean.                         *)
LEMMA ReachedType ==
    ASSUME NEW mayFail
    PROVE  Reached(mayFail) \subseteq BOOLEAN
BY DEF Reached

(* A commit leaves good stores if what it writes is good.                  *)
LEMMA CommitGood ==
    ASSUME GoodStores, NEW s, GoodStore(s), NEW reached, Commit(s, reached)
    PROVE  GoodStores'
<1>1. GoodStore(mem)' /\ GoodStore(disk)' /\ applyPending' \in BOOLEAN
  BY GoodStoresDef DEF Commit, GoodStore, Store
<1>2. QED
  BY <1>1, GoodStoresDef DEF GoodStores, GoodStore, StoreTypeOK, StoresCoherent

(* So does an apply().                                                     *)
LEMMA ApplyGood ==
    ASSUME GoodStores, NEW s, GoodStore(s), Apply(s)
    PROVE  GoodStores'
BY DEF Apply, GoodStores, GoodStore, StoreTypeOK, StoresCoherent, Store

(* And a step that writes nothing.                                         *)
LEMMA UnchangedStoreGood ==
    ASSUME GoodStores, UNCHANGED store
    PROVE  GoodStores'
BY DEF store, GoodStores, StoreTypeOK, StoresCoherent

(* Replacing the core's state by a coherent one, or the other entries by   *)
(* anything of their type.                                                 *)
LEMMA WithState ==
    ASSUME NEW m, GoodStore(m), NEW t \in State, Coherent(t)
    PROVE  GoodStore([m EXCEPT !.st = t])
BY DEF GoodStore, Store

(* Coherence is about the activation state and not the rest of a store.    *)
LEMMA WithOthers ==
    ASSUME NEW m, GoodStore(m), NEW b \in BOOLEAN, NEW c \in MaybeConfig
    PROVE  /\ GoodStore([m EXCEPT !.marker = b])
           /\ GoodStore([m EXCEPT !.breadcrumb = b])
           /\ GoodStore([m EXCEPT !.config = c])
BY DEF GoodStore, Store

(* A write that is skipped or that may fail is still a write or nothing.   *)
LEMMA BestEffortGood ==
    ASSUME GoodStores, NEW s, GoodStore(s), BestEffort(s)
    PROVE  GoodStores'
BY CommitGood, UnchangedStoreGood DEF BestEffort

(***************************************************************************)
(* Resolving a launch                                                      *)
(***************************************************************************)
LEMMA LaunchedGood ==
    ASSUME GoodStores, ignoreRollback \in BOOLEAN
    PROVE  /\ GoodStore(Resolved)
           /\ GoodStore(RolledBack(Resolved))
           /\ GoodStore(Launched)
<1>1. GoodStore(mem)
  BY GoodStoresDef
<1>2. GoodStore(Resolved)
  <2> DEFINE t == ResolveLaunchState(mem.st, ignoreRollback)
             c == mem.marker \/ ConsumedFirstTime(mem.st, ignoreRollback)
  <2>1. t \in State /\ Coherent(t)
    BY <1>1, ResolveLaunchStateCoherent DEF GoodStore, Store
  <2>2. Resolved = [[mem EXCEPT !.st = t] EXCEPT !.marker = c]
    BY <1>1 DEF Resolved, GoodStore, Store
  <2>3. c \in BOOLEAN
    BY <1>1 DEF GoodStore, Store, ConsumedFirstTime, State
  <2>4. GoodStore([mem EXCEPT !.st = t])
    BY <1>1, <2>1, WithState
  <2>5. QED
    BY <2>2, <2>3, <2>4 DEF GoodStore, Store
<1>3. ASSUME NEW m, GoodStore(m)
      PROVE  GoodStore(RolledBack(m))
  BY <1>3, RollbackCoherent, WithState DEF RolledBack, GoodStore, Store
<1>4. QED
  BY <1>2, <1>3 DEF Launched

(* getBundleUrl leaves good stores, whichever of its commits failed.       *)
LEMMA GetBundleUrlGood ==
    ASSUME GoodStores, ignoreRollback \in BOOLEAN, GetBundleUrl
    PROVE  GoodStores'
<1>1. GoodStore(mem) /\ GoodStore(disk)
  BY GoodStoresDef
<1>2. CASE LaunchWrites = {}
  BY <1>2, UnchangedStoreGood DEF GetBundleUrl, PersistLaunch
<1>3. CASE LaunchWrites # {}
  <2>1. mem' = Launched /\ disk' \in {disk, Resolved, RolledBack(Resolved), Launched}
        /\ applyPending' = FALSE
    BY <1>3 DEF GetBundleUrl, PersistLaunch, LaunchWrites
  <2>2. GoodStore(mem') /\ GoodStore(disk')
    BY <1>1, <2>1, LaunchedGood
  <2>3. QED
    BY <2>1, <2>2 DEF GoodStores, GoodStore, StoreTypeOK, StoresCoherent
<1>4. QED
  BY <1>2, <1>3

(***************************************************************************)
(* Every step leaves good stores                                           *)
(***************************************************************************)
LEMMA StoreInit == Init => GoodStores
<1> SUFFICES ASSUME Init PROVE GoodStores
  OBVIOUS
<1>1. PICK c \in MaybeConfig :
         disk = [st |-> FreshState(binary), marker |-> FALSE,
                 breadcrumb |-> FALSE, config |-> c]
  BY DEF Init
<1>2. FreshState(binary) \in State /\ Coherent(FreshState(binary))
  BY FreshStateCoherent DEF Init
<1>3. QED
  BY <1>1, <1>2 DEF Init, GoodStores, StoreTypeOK, StoresCoherent, Store

(* A step of any thread, of the executor or of the environment leaves      *)
(* both stores typed and coherent.                                         *)
LEMMA StoreStep == IInv /\ [Next]_vars => GoodStores'
<1> SUFFICES ASSUME IInv, [Next]_vars PROVE GoodStores'
  OBVIOUS
<1>1. GoodStores /\ GoodStore(mem) /\ GoodStore(disk)
  BY GoodStoresDef DEF IInv, TypeOK, GoodStores
<1>2. mem.st \in State /\ Coherent(mem.st) /\ mem.config \in MaybeConfig
  BY <1>1 DEF GoodStore, Store
<1>3. binary \in Binary /\ ignoreRollback \in BOOLEAN
  BY DEF IInv, TypeOK, DeviceTypeOK
<1>4. GoodStore([mem EXCEPT !.breadcrumb = FALSE]) /\ GoodStore([mem EXCEPT !.breadcrumb = TRUE])
  BY <1>1, <1>2, WithOthers
<1>5. ASSUME NEW v \in Version
      PROVE  GoodStore([mem EXCEPT !.st = SwitchVersion(@, v)])
  BY <1>1, <1>2, SwitchVersionCoherent, WithState DEF GoodStore, Store
<1>6. ASSUME NEW b \in BOOLEAN, NEW t \in State, Coherent(t)
      PROVE  GoodStore([mem EXCEPT !.st = t, !.marker = b])
  BY <1>1, <1>6 DEF GoodStore, Store
<1>7. ASSUME EndRound PROVE GoodStores'
  BY <1>1, <1>4, <1>7, BestEffortGood DEF EndRound
<1>8. ASSUME NEW r, NEW switching, NEW reached, switching => r.version \in Version,
             CommitSyncResult(r, switching, reached)
      PROVE  GoodStores'
  <2> DEFINE t == IF switching THEN SwitchVersion(mem.st, r.version) ELSE mem.st
  <2>1. t \in State /\ Coherent(t)
    BY <1>2, <1>8, SwitchVersionCoherent
  <2>2. GoodStore([mem EXCEPT !.st = t, !.breadcrumb = FALSE])
    BY <1>1, <2>1 DEF GoodStore, Store
  <2>3. QED
    BY <1>1, <1>8, <2>2, CommitGood DEF CommitSyncResult
<1>a. CASE UNCHANGED vars
  BY <1>a, <1>1, UnchangedStoreGood DEF vars
<1>b. CASE Environment
  <2>1. CASE UpgradeBinary \/ LoseFiles
    BY <2>1, <1>1, UnchangedStoreGood DEF UpgradeBinary, LoseFiles
  <2>2. CASE Die
    BY <2>2, <1>1 DEF Die, ProcessGone, GoodStores, GoodStore, StoreTypeOK, StoresCoherent
  <2>3. CASE FlushApply
    BY <2>3, <1>1 DEF FlushApply, GoodStores, GoodStore, StoreTypeOK, StoresCoherent
  <2>4. QED
    BY <1>b, <2>1, <2>2, <2>3 DEF Environment
<1>c. CASE MainThread
  <2>1. CASE Construct
    <3>1. CASE mem.st.binary = binary
      BY <2>1, <3>1, <1>1, UnchangedStoreGood DEF Construct
    <3>2. CASE mem.st.binary # binary
      <4>1. GoodStore([mem EXCEPT !.st = SyncBinaryVersion(mem.st, binary), !.marker = FALSE])
        BY <1>2, <1>3, <1>6, SyncBinaryVersionCoherent
      <4>2. QED
        BY <2>1, <3>2, <4>1, <1>1, CommitGood DEF Construct
    <3>3. QED
      BY <3>1, <3>2
  <2>2. CASE Launch
    BY <2>2, <1>1, <1>3, GetBundleUrlGood DEF Launch
  <2>3. CASE Reload \/ JsCrash
    BY <2>3, <1>1, UnchangedStoreGood DEF Reload, JsCrash
  <2>4. QED
    BY <1>c, <2>1, <2>2, <2>3 DEF MainThread
<1>d. CASE JsThread
  <2>1. CASE ConsumeLaunchMarkers
    <3>1. GoodStore([mem EXCEPT !.marker = FALSE, !.st = ClearRollbackMark(@)])
      BY <1>1, <1>2, ClearRollbackMarkCoherent DEF GoodStore, Store
    <3>2. QED
      BY <2>1, <3>1, <1>1, ApplyGood, UnchangedStoreGood DEF ConsumeLaunchMarkers
  <2>2. CASE JsCalls \/ CallDownload
    BY <2>2, <1>1, UnchangedStoreGood DEF JsCalls, CallDownload
  <2>3. QED
    BY <1>d, <2>1, <2>2 DEF JsThread
<1>e. CASE SerialThread
  <2>1. CASE VerifySwitchTarget
    BY <2>1, <1>1, UnchangedStoreGood DEF VerifySwitchTarget
  <2>2. CASE SwitchVersionCommit
    <3>1. serial.arg \in Version
      BY <2>2 DEF SwitchVersionCommit, Calling, IInv, TypeOK, DeviceTypeOK, VerifiedTargetsIntact
    <3>2. QED
      BY <2>2, <3>1, <1>1, <1>5, CommitGood DEF SwitchVersionCommit
  <2>3. CASE ResolveReload
    BY <2>3, <1>1, <1>3, GetBundleUrlGood DEF ResolveReload
  <2>4. CASE MarkSuccessCall
    <3>1. GoodStore([mem EXCEPT !.st = MarkSuccess(@)])
      BY <1>1, <1>2, MarkSuccessCoherent, WithState DEF GoodStore, Store
    <3>2. QED
      BY <2>4, <3>1, <1>1, CommitGood DEF MarkSuccessCall
  <2>5. CASE ResetToPackagedBundle
    <3>1. GoodStore([mem EXCEPT !.st = FreshState(binary), !.marker = FALSE])
      BY <1>3, <1>6, FreshStateCoherent
    <3>2. QED
      BY <2>5, <3>1, <1>1, CommitGood, UnchangedStoreGood DEF ResetToPackagedBundle
  <2>6. CASE SetNativeConfig
    <3>1. serial.arg \in Config
      BY <2>6 DEF SetNativeConfig, Calling, IInv, TypeOK, ThreadTypeOK, Call, NoCall,
                  SwitchCall, PlainCall, ConfigCall
    <3>2. GoodStore([mem EXCEPT !.config = serial.arg])
      BY <3>1, <1>1, WithOthers DEF MaybeConfig
    <3>3. QED
      BY <2>6, <3>2, <1>1, CommitGood, UnchangedStoreGood DEF SetNativeConfig
  <2>7. QED
    BY <1>e, <2>1, <2>2, <2>3, <2>4, <2>5, <2>6 DEF SerialThread
<1>f. CASE RoundThread
  <2>1. CASE StartRound
    BY <2>1, <1>1, <1>4, CommitGood DEF StartRound
  <2>2. CASE RoundResponse
    BY <2>2, <1>1, <1>7, UnchangedStoreGood DEF RoundResponse
  <2>3. CASE RoundTimeout
    BY <2>3, <1>1, UnchangedStoreGood DEF RoundTimeout
  <2>4. CASE RoundVerify
    BY <2>4, <1>1, <1>7, UnchangedStoreGood DEF RoundVerify
  <2>5. CASE RoundCommit
    <3>1. round.activate => round.version \in Version
      BY DEF IInv, RoundShape
    <3>2. QED
      BY <2>5, <3>1, <1>7, <1>8 DEF RoundCommit
  <2>6. QED
    BY <1>f, <2>1, <2>2, <2>3, <2>4, <2>5 DEF RoundThread
<1>g. CASE HoldThread
  <2>1. CASE HoldVerify
    BY <2>1, <1>1, UnchangedStoreGood DEF HoldVerify
  <2>2. CASE HoldActivate
    <3>1. unactivated.version \in Version
      BY <2>2 DEF HoldActivate, IInv, TypeOK, DeviceTypeOK, VerifiedTargetsIntact
    <3>2. QED
      BY <2>2, <3>1, <1>1, <1>8, UnchangedStoreGood DEF HoldActivate
  <2>3. QED
    BY <1>g, <2>1, <2>2 DEF HoldThread
<1>h. CASE Executor
  BY <1>h, <1>1, UnchangedStoreGood DEF Executor, RunInstall, SelectKeepNames, DeleteVersions
<1>i. QED
  BY <1>a, <1>b, <1>c, <1>d, <1>e, <1>f, <1>g, <1>h DEF Next

(***************************************************************************)
(* Every step leaves the device's variables well typed                     *)
(***************************************************************************)
LEMMA GetBundleUrlDevice ==
    ASSUME GoodStores, DeviceTypeOK, GetBundleUrl
    PROVE  /\ ignoreRollback' \in BOOLEAN
           /\ launchVersion' \in MaybeVersion
           /\ candidate' \in MaybeVersion
           /\ revoked' \subseteq Version
<1>1. GoodStore(mem) /\ GoodStore(Launched)
  BY GoodStoresDef, LaunchedGood DEF DeviceTypeOK
<1>2. mem.st.current \in MaybeVersion /\ Launched.st.current \in MaybeVersion
  BY <1>1 DEF GoodStore, Store, State
<1>3. ConsumedFirstTime(mem.st, ignoreRollback) \in BOOLEAN
  BY <1>1 DEF GoodStore, Store, State, ConsumedFirstTime
<1>4. QED
  BY <1>2, <1>3 DEF GetBundleUrl, DeviceTypeOK, MaybeVersion

(* Ageing a cached response keeps it a cache content.                      *)
LEMMA OutdatedType ==
    ASSUME NEW c \in Cache
    PROVE  Outdated(c) \in Cache
BY DEF Outdated, Cache

(* Clearing the cache, or failing to, leaves a cache content.              *)
LEMMA ClearCacheType ==
    ASSUME DeviceTypeOK, NEW reached, NEW proceeds, ClearCache(reached, proceeds)
    PROVE  cacheMem' \in Cache /\ cacheDisk' \in Cache
<1>1. CacheFile(reached) \in Cache
  BY DEF CacheFile, DeviceTypeOK, Cache
<1>2. QED
  BY <1>1, OutdatedType DEF ClearCache, Cache

(* A step leaves the device's variables typed.                             *)
LEMMA DeviceStep == IInv /\ [Next]_vars => DeviceTypeOK'
<1> SUFFICES ASSUME IInv, [Next]_vars PROVE DeviceTypeOK'
  OBVIOUS
<1>1. GoodStores /\ DeviceTypeOK /\ ThreadTypeOK
  BY DEF IInv, TypeOK, GoodStores
<1>2. NoVersion \in MaybeVersion /\ {} \subseteq Version
  BY DEF MaybeVersion
<1>4. ASSUME NEW r, NEW switching, NEW reached, switching => r.version \in Version,
             CommitSyncResult(r, switching, reached)
      PROVE  /\ ignoreRollback' \in BOOLEAN
             /\ candidate' \in MaybeVersion
             /\ revoked' \subseteq Version
  BY <1>1, <1>2, <1>4 DEF CommitSyncResult, Activates, history, DeviceTypeOK
<1>a. CASE UNCHANGED vars
  BY <1>a, <1>1 DEF vars, cache, launch, history, DeviceTypeOK
<1>b. CASE Environment
  <2>1. CASE UpgradeBinary
    BY <2>1, <1>1 DEF UpgradeBinary, cache, launch, history, DeviceTypeOK
  <2>2. CASE LoseFiles
    BY <2>2, <1>1 DEF LoseFiles, cache, launch, history, DeviceTypeOK
  <2>3. CASE Die
    BY <2>3, <1>1, <1>2 DEF Die, ProcessGone, history, DeviceTypeOK
  <2>4. CASE FlushApply
    BY <2>4, <1>1 DEF FlushApply, cache, launch, history, DeviceTypeOK
  <2>5. QED
    BY <1>b, <2>1, <2>2, <2>3, <2>4 DEF Environment
<1>c. CASE MainThread
  <2>1. CASE Construct
    <3>1. cacheMem' \in Cache /\ cacheDisk' \in Cache
      BY <2>1, <1>1, ClearCacheType DEF Construct, cache, DeviceTypeOK
    <3>2. candidate' \in MaybeVersion /\ revoked' \subseteq Version
      BY <2>1, <1>1, <1>2 DEF Construct, history, DeviceTypeOK
    <3>3. QED
      BY <2>1, <1>1, <3>1, <3>2 DEF Construct, DeviceTypeOK
  <2>2. CASE Launch
    <3>1. Launched.st.rolledBack \in MaybeVersion
      BY <1>1, LaunchedGood DEF DeviceTypeOK, GoodStore, Store, State
    <3>2. QED
      BY <2>2, <3>1, <1>1, GetBundleUrlDevice DEF Launch, cache, DeviceTypeOK
  <2>3. CASE Reload \/ JsCrash
    BY <2>3, <1>1 DEF Reload, JsCrash, cache, launch, history, DeviceTypeOK
  <2>4. QED
    BY <1>c, <2>1, <2>2, <2>3 DEF MainThread
<1>d. CASE JsThread
  BY <1>d, <1>1 DEF JsThread, ConsumeLaunchMarkers, JsCalls, CallDownload,
     cache, launch, history, DeviceTypeOK
<1>e. CASE SerialThread
  <2>1. CASE VerifySwitchTarget
    BY <2>1, <1>1 DEF VerifySwitchTarget, cache, launch, history, DeviceTypeOK
  <2>2. CASE SwitchVersionCommit
    <3>1. serial.arg \in Version
      BY <2>2 DEF SwitchVersionCommit, Calling, IInv, TypeOK, DeviceTypeOK, VerifiedTargetsIntact
    <3>2. Reached(StateWritesMayFail) \subseteq BOOLEAN
      BY ReachedType
    <3>3. QED
      BY <2>2, <3>1, <3>2, <1>1, <1>2 DEF SwitchVersionCommit, Activates, cache, DeviceTypeOK
  <2>3. CASE ResolveReload
    BY <2>3, <1>1, GetBundleUrlDevice DEF ResolveReload, cache, DeviceTypeOK
  <2>4. CASE MarkSuccessCall
    BY <2>4, <1>1, <1>2 DEF MarkSuccessCall, cache, launch, DeviceTypeOK
  <2>5. CASE ResetToPackagedBundle
    <3>1. cacheMem' \in Cache /\ cacheDisk' \in Cache
      BY <2>5, <1>1, ClearCacheType DEF ResetToPackagedBundle
    <3>2. candidate' \in MaybeVersion /\ revoked' \subseteq Version /\ ignoreRollback' \in BOOLEAN
      BY <2>5, <1>1, <1>2 DEF ResetToPackagedBundle, history, DeviceTypeOK
    <3>3. generation' \in Nat
      BY <2>5, <1>1 DEF ResetToPackagedBundle, Supersede, DeviceTypeOK
    <3>4. QED
      BY <2>5, <3>1, <3>2, <3>3, <1>1 DEF ResetToPackagedBundle, DeviceTypeOK
  <2>6. CASE SetNativeConfig
    <3>1. cacheMem' \in Cache /\ cacheDisk' \in Cache
      BY <2>6, <1>1, ClearCacheType DEF SetNativeConfig, cache, DeviceTypeOK
    <3>2. generation' \in Nat
      BY <2>6, <1>1 DEF SetNativeConfig, Supersede, DeviceTypeOK
    <3>3. QED
      BY <2>6, <3>1, <3>2, <1>1 DEF SetNativeConfig, history, DeviceTypeOK
  <2>7. QED
    BY <1>e, <2>1, <2>2, <2>3, <2>4, <2>5, <2>6 DEF SerialThread
<1>f. CASE RoundThread
  <2>1. CASE StartRound \/ RoundResponse \/ RoundTimeout \/ RoundVerify
    BY <2>1, <1>1 DEF StartRound, RoundResponse, RoundTimeout, RoundVerify,
       cache, launch, history, DeviceTypeOK
  <2>2. CASE RoundCommit
    <3>1. round.activate => round.version \in Version
      BY DEF IInv, RoundShape
    <3>2. ignoreRollback' \in BOOLEAN /\ candidate' \in MaybeVersion /\ revoked' \subseteq Version
      BY <2>2, <3>1, <1>1, <1>4 DEF RoundCommit, history, DeviceTypeOK
    <3>3. cacheMem' \in Cache /\ cacheDisk' \in Cache
      BY <2>2, <1>1 DEF RoundCommit, CacheResponse, cache, Cache, DeviceTypeOK
    <3>4. QED
      BY <2>2, <3>2, <3>3, <1>1 DEF RoundCommit, DeviceTypeOK
  <2>3. QED
    BY <1>f, <2>1, <2>2 DEF RoundThread
<1>g. CASE HoldThread
  <2>1. CASE HoldVerify
    BY <2>1, <1>1 DEF HoldVerify, cache, launch, history, DeviceTypeOK
  <2>2. CASE HoldActivate
    <3>1. unactivated.version \in Version
      BY <2>2 DEF HoldActivate, IInv, TypeOK, DeviceTypeOK, VerifiedTargetsIntact
    <3>2. ignoreRollback' \in BOOLEAN /\ candidate' \in MaybeVersion /\ revoked' \subseteq Version
      BY <2>2, <3>1, <1>1, <1>4 DEF HoldActivate, history, DeviceTypeOK
    <3>3. QED
      BY <2>2, <3>2, <1>1 DEF HoldActivate, cache, DeviceTypeOK
  <2>3. QED
    BY <1>g, <2>1, <2>2 DEF HoldThread
<1>h. CASE Executor
  <2>1. CASE RunInstall
    <3>1. Head(queue) \in Job
      BY <2>1, <1>1 DEF RunInstall, Idle, ThreadTypeOK
    <3>2. Head(queue).version \in Version
      BY <2>1, <3>1 DEF RunInstall, Job, InstallJob, CleanupJob
    <3>3. dirs' \subseteq Version
      BY <2>1, <3>2, <1>1 DEF RunInstall, DeviceTypeOK
    <3>4. QED
      BY <2>1, <3>3, <1>1 DEF RunInstall, cache, launch, history, DeviceTypeOK
  <2>2. CASE SelectKeepNames
    BY <2>2, <1>1 DEF SelectKeepNames, cache, launch, history, DeviceTypeOK
  <2>3. CASE DeleteVersions
    <3>1. dirs' \subseteq Version
      BY <2>3, <1>1 DEF DeleteVersions, DeviceTypeOK
    <3>2. QED
      BY <2>3, <3>1, <1>1 DEF DeleteVersions, cache, launch, history, DeviceTypeOK
  <2>4. QED
    BY <1>h, <2>1, <2>2, <2>3 DEF Executor
<1>i. QED
  BY <1>a, <1>b, <1>c, <1>d, <1>e, <1>f, <1>g, <1>h DEF Next

(***************************************************************************)
(* Every step leaves the threads' variables well typed                     *)
(***************************************************************************)
LEMMA EnqueueType ==
    ASSUME ThreadTypeOK, NEW j \in Job, Enqueue(j)
    PROVE  queue' \in Seq(Job) /\ UNCHANGED cleaning
BY DEF ThreadTypeOK, Enqueue

(* The jobs the actions enqueue are jobs.                                  *)
LEMMA JobTypes ==
    /\ \A kind \in {"cleanupAll", "cleanupOld"} : Cleanup(kind) \in Job
    /\ \A v \in Version : /\ [kind |-> "install", version |-> v] \in Job
                          /\ [kind |-> "installForRound", version |-> v] \in Job
BY DEF Job, CleanupJob, InstallJob, Cleanup

(* Every next record of the round is a round.                              *)
LEMMA RoundTypes ==
    ASSUME ThreadTypeOK, NEW v \in Version, NEW decided \in BOOLEAN
    PROVE  Ready(v, decided) \in Round /\ NothingToInstall \in Round
BY DEF ThreadTypeOK, Ready, NothingToInstall, Round, MaybeVersion

(* The idle values of the threads' variables are typed.                    *)
LEMMA IdleTypes ==
    /\ NoCall \in Call
    /\ NoJs \in Js
    /\ NoRound \in Round
    /\ NothingPending \in Unactivated
    /\ NotCleaning \in [active : BOOLEAN, keep : SUBSET Version]
    /\ <<>> \in Seq(Job)
    /\ NoBundle \in MaybeVersion \cup {NoBundle}
BY DEF NoCall, Call, NoJs, Js, NoRound, Round, NothingPending, Unactivated, NotCleaning,
       MaybeVersion, NoBundle

(* A step leaves the threads' variables typed.                             *)
LEMMA ThreadStep == IInv /\ [Next]_vars => ThreadTypeOK'
<1> SUFFICES ASSUME IInv, [Next]_vars PROVE ThreadTypeOK'
  OBVIOUS
<1>1. StoreTypeOK /\ DeviceTypeOK /\ ThreadTypeOK /\ GoodStores
  BY DEF IInv, TypeOK, GoodStores
<1>2. GoodStore(mem) /\ GoodStore(Launched)
  BY <1>1, GoodStoresDef, LaunchedGood DEF DeviceTypeOK
<1>3. Launched.st.current \in MaybeVersion
  BY <1>2 DEF GoodStore, Store, State
<1>4. ASSUME EndRound PROVE round' \in Round
  BY <1>1, <1>4 DEF EndRound, ThreadTypeOK, Round
<1>5. ASSUME Supersede PROVE round' \in Round /\ unactivated' \in Unactivated
  BY <1>1, <1>5 DEF Supersede, ThreadTypeOK, Round, Unactivated
<1>a. CASE UNCHANGED vars
  BY <1>a, <1>1 DEF vars, rescue, executor, ThreadTypeOK
<1>b. CASE Environment
  <2>1. CASE UpgradeBinary \/ LoseFiles \/ FlushApply
    BY <2>1, <1>1 DEF UpgradeBinary, LoseFiles, FlushApply, rescue, executor, ThreadTypeOK
  <2>2. CASE Die
    BY <2>2, IdleTypes DEF Die, ProcessGone, ThreadTypeOK
  <2>3. QED
    BY <1>b, <2>1, <2>2 DEF Environment
<1>c. CASE MainThread
  <2>1. CASE Construct
    <3>1. queue' \in Seq(Job) /\ UNCHANGED cleaning
      BY <2>1, <1>1, JobTypes, EnqueueType DEF Construct, executor, ThreadTypeOK
    <3>2. QED
      BY <2>1, <3>1, <1>1 DEF Construct, rescue, ThreadTypeOK
  <2>2. CASE Launch
    <3>1. js' \in Js
      BY <2>2, <1>3 DEF Launch, NoJs, Js
    <3>2. handler' \in BOOLEAN
      BY <2>2 DEF Launch
    <3>3. QED
      BY <2>2, <3>1, <3>2, <1>1 DEF Launch, executor, ThreadTypeOK
  <2>3. CASE Reload
    <3>1. js' \in Js
      BY <2>3, <1>1 DEF Reload, NoJs, Js, ThreadTypeOK
    <3>2. QED
      BY <2>3, <3>1, <1>1 DEF Reload, rescue, executor, ThreadTypeOK
  <2>4. CASE JsCrash
    <3>1. js' \in Js
      BY <2>4, <1>1 DEF JsCrash, Js, ThreadTypeOK
    <3>2. QED
      BY <2>4, <3>1, <1>1 DEF JsCrash, executor, ThreadTypeOK
  <2>5. QED
    BY <1>c, <2>1, <2>2, <2>3, <2>4 DEF MainThread
<1>d. CASE JsThread
  <2>1. CASE ConsumeLaunchMarkers
    <3>1. js' \in Js
      BY <2>1, <1>1 DEF ConsumeLaunchMarkers, Js, ThreadTypeOK, StoreTypeOK, Store
    <3>2. queue' \in Seq(Job) /\ UNCHANGED cleaning
      BY <2>1, <1>1, JobTypes, EnqueueType DEF ConsumeLaunchMarkers, executor, ThreadTypeOK
    <3>3. QED
      BY <2>1, <3>1, <3>2, <1>1 DEF ConsumeLaunchMarkers, rescue, ThreadTypeOK
  <2>2. CASE JsCalls
    <3>1. serial' \in Call
      <4>1. CASE CallSwitch
        BY <4>1 DEF CallSwitch, CallModule, Call, SwitchCall
      <4>2. CASE CallRestart \/ CallMarkSuccess \/ CallReset
        BY <4>2 DEF CallRestart, CallMarkSuccess, CallReset, CallModule, Call, PlainCall
      <4>3. CASE CallSyncConfig
        BY <4>3 DEF CallSyncConfig, CallModule, Call, ConfigCall
      <4>4. QED
        BY <2>2, <4>1, <4>2, <4>3 DEF JsCalls
    <3>2. js' \in Js
      BY <2>2, <1>1 DEF JsCalls, CallSwitch, CallRestart, CallMarkSuccess, CallReset,
         CallSyncConfig, Js, ThreadTypeOK
    <3>3. QED
      BY <2>2, <3>1, <3>2, <1>1 DEF JsCalls, rescue, executor, ThreadTypeOK
  <2>3. CASE CallDownload
    <3>1. queue' \in Seq(Job) /\ UNCHANGED cleaning
      BY <2>3, <1>1, JobTypes, EnqueueType DEF CallDownload
    <3>2. QED
      BY <2>3, <3>1, <1>1 DEF CallDownload, rescue, ThreadTypeOK
  <2>4. QED
    BY <1>d, <2>1, <2>2, <2>3 DEF JsThread
<1>e. CASE SerialThread
  <2>0. ASSUME Return PROVE serial' \in Call
    BY <2>0, IdleTypes DEF Return
  <2>1. ASSUME NEW step \in {"verified", "switched"},
               serial.op \in {"setNeedUpdate", "reloadUpdate"}
        PROVE  [serial EXCEPT !.step = step] \in Call
    <3>1. serial \in SwitchCall
      BY <2>1, <1>1 DEF ThreadTypeOK, Call, NoCall, SwitchCall, PlainCall, ConfigCall
    <3>2. QED
      BY <2>1, <3>1 DEF Call, SwitchCall
  <2>2. CASE VerifySwitchTarget
    <3>1. serial' \in Call
      BY <2>2, <2>0, <2>1 DEF VerifySwitchTarget, Calling
    <3>2. QED
      BY <2>2, <3>1, <1>1 DEF VerifySwitchTarget, rescue, executor, ThreadTypeOK
  <2>3. CASE SwitchVersionCommit
    <3>1. serial' \in Call
      BY <2>3, <2>0, <2>1 DEF SwitchVersionCommit, Calling
    <3>2. QED
      BY <2>3, <3>1, <1>1 DEF SwitchVersionCommit, rescue, executor, ThreadTypeOK
  <2>4. CASE ResolveReload
    BY <2>4, <2>0, <1>1, <1>3 DEF ResolveReload, rescue, executor, ThreadTypeOK
  <2>5. CASE MarkSuccessCall
    <3>1. js' \in Js
      BY <2>5, <1>1 DEF MarkSuccessCall, Js, ThreadTypeOK
    <3>2. queue' \in Seq(Job) /\ UNCHANGED cleaning
      BY <2>5, <1>1, JobTypes, EnqueueType DEF MarkSuccessCall, executor, ThreadTypeOK
    <3>3. QED
      BY <2>5, <2>0, <3>1, <3>2, <1>1 DEF MarkSuccessCall, rescue, ThreadTypeOK
  <2>6. CASE ResetToPackagedBundle
    <3>1. js' \in Js
      BY <2>6, <1>1 DEF ResetToPackagedBundle, Js, ThreadTypeOK
    <3>2. queue' \in Seq(Job) /\ UNCHANGED cleaning
      BY <2>6, <1>1, JobTypes, EnqueueType DEF ResetToPackagedBundle, executor, ThreadTypeOK
    <3>3. QED
      BY <2>6, <2>0, <3>1, <3>2, <1>1, <1>5 DEF ResetToPackagedBundle, ThreadTypeOK
  <2>7. CASE SetNativeConfig
    <3>1. round' \in Round /\ unactivated' \in Unactivated
      BY <2>7, <1>1, <1>5 DEF SetNativeConfig, ThreadTypeOK
    <3>2. handler' \in BOOLEAN
      BY <2>7, <1>1 DEF SetNativeConfig, ThreadTypeOK
    <3>3. QED
      BY <2>7, <2>0, <3>1, <3>2, <1>1 DEF SetNativeConfig, executor, ThreadTypeOK
  <2>8. QED
    BY <1>e, <2>2, <2>3, <2>4, <2>5, <2>6, <2>7 DEF SerialThread
<1>f. CASE RoundThread
  <2>1. CASE StartRound
    <3>1. round' \in Round
      BY <2>1, <1>1 DEF StartRound, NoRound, Round, MaybeVersion, DeviceTypeOK
    <3>2. QED
      BY <2>1, <3>1, <1>1 DEF StartRound, executor, ThreadTypeOK
  <2>2. CASE RoundResponse
    <3>1. CASE EndRound /\ UNCHANGED executor
      BY <2>2, <3>1, <1>1, <1>4 DEF RoundResponse, executor, ThreadTypeOK
    <3>2. CASE round' = NothingToInstall /\ UNCHANGED <<store, executor>>
      <4>1. round' \in Round
        BY <3>2, <1>1 DEF NothingToInstall, ThreadTypeOK, Round, MaybeVersion
      <4>2. QED
        BY <2>2, <3>2, <4>1, <1>1 DEF RoundResponse, executor, ThreadTypeOK
    <3>3. ASSUME NEW v \in Version, NEW activate \in BOOLEAN,
                 IF v \in dirs
                 THEN round' = Ready(v, activate) /\ UNCHANGED executor
                 ELSE /\ round' = [round EXCEPT !.phase = "waiting", !.version = v,
                                                !.activate = activate]
                      /\ Enqueue([kind |-> "installForRound", version |-> v])
          PROVE  ThreadTypeOK'
      <4>1. round' \in Round
        <5>1. Ready(v, activate) \in Round
          BY <3>3, <1>1, RoundTypes
        <5>2. [round EXCEPT !.phase = "waiting", !.version = v, !.activate = activate] \in Round
          BY <3>3, <1>1 DEF ThreadTypeOK, Round, MaybeVersion
        <5>3. QED
          BY <3>3, <5>1, <5>2
      <4>2. queue' \in Seq(Job) /\ UNCHANGED cleaning
        BY <3>3, <1>1, JobTypes, EnqueueType DEF executor, ThreadTypeOK
      <4>3. QED
        BY <2>2, <4>1, <4>2, <1>1 DEF RoundResponse, ThreadTypeOK
    <3>4. QED
      BY <2>2, <3>1, <3>2, <3>3 DEF RoundResponse
  <2>3. CASE RoundTimeout
    <3>1. round' \in Round
      BY <2>3, <1>1 DEF RoundTimeout, NothingToInstall, ThreadTypeOK, Round, MaybeVersion
    <3>2. QED
      BY <2>3, <3>1, <1>1 DEF RoundTimeout, executor, ThreadTypeOK
  <2>4. CASE RoundVerify
    <3>1. round' \in Round
      BY <2>4, <1>1, <1>4 DEF RoundVerify, ThreadTypeOK, Round
    <3>2. QED
      BY <2>4, <3>1, <1>1 DEF RoundVerify, executor, ThreadTypeOK
  <2>5. CASE RoundCommit
    <3>1. round' \in Round
      BY <2>5, <1>1, <1>4 DEF RoundCommit, ThreadTypeOK, Round
    <3>2. unactivated' \in Unactivated
      BY <2>5, <1>1, IdleTypes DEF RoundCommit, Unactivate, ThreadTypeOK, Round, Unactivated
    <3>3. QED
      BY <2>5, <3>1, <3>2, <1>1 DEF RoundCommit, executor, ThreadTypeOK
  <2>6. QED
    BY <1>f, <2>1, <2>2, <2>3, <2>4, <2>5 DEF RoundThread
<1>g. CASE HoldThread
  <2>1. CASE HoldVerify
    BY <2>1, <1>1 DEF HoldVerify, executor, ThreadTypeOK
  <2>2. CASE HoldActivate
    <3>1. unactivated' \in Unactivated
      BY <2>2, <1>1, IdleTypes DEF HoldActivate, ThreadTypeOK
    <3>2. QED
      BY <2>2, <3>1, <1>1 DEF HoldActivate, executor, ThreadTypeOK
  <2>3. QED
    BY <1>g, <2>1, <2>2 DEF HoldThread
<1>h. CASE Executor
  <2>1. CASE RunInstall
    <3>1. Head(queue) \in Job /\ queue' \in Seq(Job)
      BY <2>1, <1>1 DEF RunInstall, Idle, ThreadTypeOK
    <3>2. Head(queue).version \in Version
      BY <2>1, <3>1 DEF RunInstall, Job, InstallJob, CleanupJob
    <3>3. round' \in Round
      BY <2>1, <3>2, <1>1, RoundTypes DEF RunInstall, ThreadTypeOK, Round
    <3>4. QED
      BY <2>1, <3>1, <3>3, <1>1 DEF RunInstall, ThreadTypeOK
  <2>2. CASE SelectKeepNames
    <3>1. KeepNames \subseteq Version
      BY <1>2, <1>1 DEF KeepNames, GoodStore, Store, State, MaybeVersion, DeviceTypeOK
    <3>2. QED
      BY <2>2, <3>1, <1>1 DEF SelectKeepNames, rescue, ThreadTypeOK
  <2>3. CASE DeleteVersions
    <3>1. queue' \in Seq(Job)
      BY <2>3, <1>1 DEF DeleteVersions, ThreadTypeOK, IInv, LocksHeld
    <3>2. QED
      BY <2>3, <3>1, <1>1, IdleTypes DEF DeleteVersions, rescue, ThreadTypeOK
  <2>4. QED
    BY <1>h, <2>1, <2>2, <2>3 DEF Executor
<1>i. QED
  BY <1>a, <1>b, <1>c, <1>d, <1>e, <1>f, <1>g, <1>h DEF Next

(***************************************************************************)
(* Locks, rounds and dead processes                                        *)
(***************************************************************************)
Control == LocksHeld /\ RoundShape /\ DeadIsQuiet

(* Nothing is locked, in flight or verified on a new installation.         *)
LEMMA ControlInit == Init => Control /\ VerifiedTargetsIntact
BY DEF Init, Control, LocksHeld, RoundShape, DeadIsQuiet, VerifiedTargetsIntact,
       NoCall, NoRound, NothingPending, NoJs, NotCleaning

(* A step keeps the locks with their holders, the shape of the round and   *)
(* the silence of a dead process.                                          *)
LEMMA ControlStep == IInv /\ [Next]_vars => Control'
<1> SUFFICES ASSUME IInv, [Next]_vars PROVE Control'
  OBVIOUS
<1>1. ThreadTypeOK /\ DeviceTypeOK /\ Control /\ VerifiedTargetsIntact
  BY DEF IInv, TypeOK, Control
<1>2. /\ NoCall.step = "idle" /\ NoRound.phase = "idle" /\ NoRound.activate = FALSE
      /\ NothingPending.version = NoVersion /\ NoJs.phase = "off"
      /\ NotCleaning.active = FALSE
  BY DEF NoCall, NoRound, NothingPending, NoJs, NotCleaning
<1>3. ASSUME NEW j, Enqueue(j) PROVE queue' # <<>> /\ UNCHANGED cleaning
  BY <1>1, <1>3 DEF Enqueue, ThreadTypeOK
<1>4. ASSUME EndRound
      PROVE  /\ round'.phase = "done"
             /\ round'.activate = round.activate /\ round'.version = round.version
  BY <1>1, <1>4 DEF EndRound, ThreadTypeOK, Round
<1>5. ASSUME Supersede
      PROVE  /\ round'.phase = round.phase
             /\ round'.activate = round.activate /\ round'.version = round.version
             /\ unactivated'.version = unactivated.version
  BY <1>1, <1>5 DEF Supersede, ThreadTypeOK, Round, Unactivated
<1>a. CASE UNCHANGED vars
  BY <1>a, <1>1 DEF vars, launch, rescue, executor, Control, LocksHeld, RoundShape, DeadIsQuiet
<1>b. CASE Environment
  <2>1. CASE UpgradeBinary \/ LoseFiles \/ FlushApply
    BY <2>1, <1>1 DEF UpgradeBinary, LoseFiles, FlushApply, launch, rescue, executor,
       Control, LocksHeld, RoundShape, DeadIsQuiet
  <2>2. CASE Die
    BY <2>2, <1>2 DEF Die, ProcessGone, Control, LocksHeld, RoundShape, DeadIsQuiet
  <2>3. QED
    BY <1>b, <2>1, <2>2 DEF Environment
<1>c. CASE MainThread
  <2>1. CASE Construct
    <3>1. process' # "dead" /\ UNCHANGED cleaning /\ (queue' # <<>> \/ UNCHANGED queue)
      BY <2>1, <1>3 DEF Construct, executor
    <3>2. QED
      BY <2>1, <3>1, <1>1 DEF Construct, rescue, Control, LocksHeld, RoundShape, DeadIsQuiet
  <2>2. CASE Launch
    BY <2>2, <1>1 DEF Launch, executor, Control, LocksHeld, RoundShape, DeadIsQuiet
  <2>3. CASE Reload
    BY <2>3, <1>1 DEF Reload, launch, rescue, executor, Control, LocksHeld, RoundShape, DeadIsQuiet
  <2>4. CASE JsCrash
    BY <2>4, <1>1 DEF JsCrash, launch, executor, Control, LocksHeld, RoundShape, DeadIsQuiet
  <2>5. QED
    BY <1>c, <2>1, <2>2, <2>3, <2>4 DEF MainThread
<1>d. CASE JsThread
  <2>1. CASE ConsumeLaunchMarkers
    <3>1. UNCHANGED cleaning /\ (queue' # <<>> \/ UNCHANGED queue)
      BY <2>1, <1>3 DEF ConsumeLaunchMarkers, executor
    <3>2. process' # "dead"
      BY <2>1, <1>1 DEF ConsumeLaunchMarkers, launch, Control, DeadIsQuiet
    <3>3. QED
      BY <2>1, <3>1, <3>2, <1>1 DEF ConsumeLaunchMarkers, rescue, Control, LocksHeld,
         RoundShape, DeadIsQuiet
  <2>2. CASE JsCalls
    <3>1. js.phase = "up" /\ serial = NoCall /\ serial'.step = "called"
      BY <2>2 DEF JsCalls, CallSwitch, CallRestart, CallMarkSuccess, CallReset, CallSyncConfig,
         CallModule
    <3>2. process' # "dead"
      BY <2>2, <3>1, <1>1 DEF JsCalls, launch, Control, DeadIsQuiet
    <3>3. QED
      BY <2>2, <3>1, <3>2, <1>1, <1>2 DEF JsCalls, rescue, executor, Control, LocksHeld,
         RoundShape, DeadIsQuiet
  <2>3. CASE CallDownload
    <3>1. process' # "dead" /\ queue' # <<>> /\ UNCHANGED cleaning
      BY <2>3, <1>1, <1>3 DEF CallDownload, launch, Control, DeadIsQuiet
    <3>2. QED
      BY <2>3, <3>1, <1>1 DEF CallDownload, rescue, Control, LocksHeld, RoundShape, DeadIsQuiet
  <2>4. QED
    BY <1>d, <2>1, <2>2, <2>3 DEF JsThread
<1>e. CASE SerialThread
  <2>1. serial.step \in {"called", "verified", "switched"} => process # "dead"
    BY <1>1, <1>2 DEF Control, DeadIsQuiet
  <2>2. CASE VerifySwitchTarget
    <3>1. serial'.step = IF serial.arg \in dirs THEN "verified" ELSE "idle"
      BY <2>2, <1>1, <1>2 DEF VerifySwitchTarget, Calling, Return, ThreadTypeOK, Call, NoCall,
         SwitchCall, PlainCall, ConfigCall
    <3>2. process' # "dead"
      BY <2>1, <2>2 DEF VerifySwitchTarget, Calling, launch
    <3>3. QED
      BY <2>2, <3>1, <3>2, <1>1 DEF VerifySwitchTarget, Calling, rescue, executor, Control,
         LocksHeld, RoundShape, DeadIsQuiet
  <2>3. CASE SwitchVersionCommit
    <3>1. serial'.step \in {"switched", "idle"}
      BY <2>3, <1>1, <1>2 DEF SwitchVersionCommit, Calling, Return, ThreadTypeOK, Call, NoCall,
         SwitchCall, PlainCall, ConfigCall
    <3>2. process' # "dead"
      BY <2>1, <2>3 DEF SwitchVersionCommit, Calling
    <3>3. QED
      BY <2>3, <3>1, <3>2, <1>1 DEF SwitchVersionCommit, Calling, rescue, executor, Control,
         LocksHeld, RoundShape, DeadIsQuiet
  <2>4. CASE ResolveReload
    <3>1. process' # "dead" /\ serial.step # "verified"
      BY <2>1, <2>4 DEF ResolveReload, Calling
    <3>2. QED
      BY <2>4, <3>1, <1>1, <1>2 DEF ResolveReload, Return, rescue, executor, Control,
         LocksHeld, RoundShape, DeadIsQuiet
  <2>5. CASE MarkSuccessCall
    <3>1. process' # "dead" /\ serial.step # "verified"
      BY <2>1, <2>5 DEF MarkSuccessCall, Calling, launch
    <3>2. UNCHANGED cleaning /\ (queue' # <<>> \/ UNCHANGED queue)
      BY <2>5, <1>3 DEF MarkSuccessCall, executor
    <3>3. QED
      BY <2>5, <3>1, <3>2, <1>1, <1>2 DEF MarkSuccessCall, Return, rescue, Control,
         LocksHeld, RoundShape, DeadIsQuiet
  <2>6. CASE ResetToPackagedBundle
    <3>1. process' # "dead" /\ serial.step # "verified"
      BY <2>1, <2>6 DEF ResetToPackagedBundle, Calling
    <3>2. UNCHANGED cleaning /\ (queue' # <<>> \/ UNCHANGED queue)
      BY <2>6, <1>3 DEF ResetToPackagedBundle, executor
    <3>3. QED
      BY <2>6, <3>1, <3>2, <1>1, <1>2, <1>5 DEF ResetToPackagedBundle, Return, Control,
         LocksHeld, RoundShape, DeadIsQuiet
  <2>7. CASE SetNativeConfig
    <3>1. process' # "dead" /\ serial.step # "verified"
      BY <2>1, <2>7 DEF SetNativeConfig, Calling
    <3>2. /\ round'.phase = round.phase
          /\ round'.activate = round.activate /\ round'.version = round.version
          /\ unactivated'.version = unactivated.version
      BY <2>7, <1>5 DEF SetNativeConfig
    <3>3. QED
      BY <2>7, <3>1, <3>2, <1>1, <1>2 DEF SetNativeConfig, Return, executor, Control,
         LocksHeld, RoundShape, DeadIsQuiet
  <2>8. QED
    BY <1>e, <2>2, <2>3, <2>4, <2>5, <2>6, <2>7 DEF SerialThread
<1>f. CASE RoundThread
  <2>0. round # NoRound => process # "dead"
    BY <1>1 DEF Control, DeadIsQuiet
  <2>1. CASE StartRound
    <3>1. /\ round'.phase = "started" /\ ~round'.activate
          /\ unactivated.version = NoVersion
      BY <2>1, <1>1 DEF StartRound, NoRound, Control, RoundShape
    <3>2. QED
      BY <2>1, <3>1, <1>1 DEF StartRound, launch, executor, Control, LocksHeld,
         RoundShape, DeadIsQuiet
  <2>2. CASE RoundResponse
    <3>1. process' # "dead" /\ unactivated.version = NoVersion /\ round.phase = "started"
      BY <2>0, <2>2, <1>1, <1>2 DEF RoundResponse, launch, Control, RoundShape
    <3>2. UNCHANGED cleaning /\ (queue' # <<>> \/ UNCHANGED queue)
      BY <2>2, <1>3 DEF RoundResponse, executor
    <3>3. /\ round'.phase # "verified"
          /\ round'.activate => round'.version \in Version
          /\ round'.phase \in {"waiting", "verify"} => round'.version \in Version
      <4>1. CASE EndRound
        BY <4>1, <1>1, <1>4 DEF Control, RoundShape
      <4>2. CASE round' = NothingToInstall
        BY <4>2, <1>1 DEF NothingToInstall, ThreadTypeOK, Round
      <4>3. ASSUME NEW v \in Version, NEW activate \in BOOLEAN,
                   \/ round' = Ready(v, activate)
                   \/ round' = [round EXCEPT !.phase = "waiting", !.version = v,
                                             !.activate = activate]
            PROVE  round'.phase # "verified" /\ round'.version \in Version
        BY <4>3, <1>1 DEF Ready, ThreadTypeOK, Round
      <4>4. QED
        BY <2>2, <4>1, <4>2, <4>3 DEF RoundResponse
    <3>4. QED
      BY <2>2, <3>1, <3>2, <3>3, <1>1 DEF RoundResponse, Control, LocksHeld,
         RoundShape, DeadIsQuiet
  <2>3. CASE RoundTimeout
    <3>1. process' # "dead" /\ unactivated.version = NoVersion
      BY <2>0, <2>3, <1>1, <1>2 DEF RoundTimeout, launch, Control, RoundShape
    <3>2. round'.phase = "commit" /\ ~round'.activate
      BY <2>3, <1>1 DEF RoundTimeout, NothingToInstall, ThreadTypeOK, Round
    <3>3. QED
      BY <2>3, <3>1, <3>2, <1>1 DEF RoundTimeout, executor, Control, LocksHeld,
         RoundShape, DeadIsQuiet
  <2>4. CASE RoundVerify
    <3>1. process' # "dead" /\ unactivated.version = NoVersion
      BY <2>0, <2>4, <1>1, <1>2 DEF RoundVerify, launch, Control, RoundShape
    <3>2. /\ round'.phase = IF round.version \in dirs THEN "verified" ELSE "done"
          /\ round'.activate = round.activate /\ round'.version = round.version
      BY <2>4, <1>1, <1>4 DEF RoundVerify, ThreadTypeOK, Round
    <3>3. round.version \in Version
      BY <2>4, <1>1 DEF RoundVerify, Control, RoundShape
    <3>4. QED
      BY <2>4, <3>1, <3>2, <3>3, <1>1 DEF RoundVerify, executor, Control, LocksHeld,
         RoundShape, DeadIsQuiet
  <2>5. CASE RoundCommit
    <3>1. process' # "dead"
      BY <2>0, <2>5, <1>2 DEF RoundCommit
    <3>2. /\ round'.phase = "done"
          /\ round'.activate = round.activate /\ round'.version = round.version
      BY <2>5, <1>1, <1>4 DEF RoundCommit, ThreadTypeOK, Round
    <3>3. hold # "verified"
      <4>1. hold = "verified" => unactivated.version # NoVersion
        BY <1>1, NoVersionAssumption DEF VerifiedTargetsIntact, DeviceTypeOK
      <4>2. QED
        BY <4>1, <2>5, <1>1 DEF RoundCommit, Control, RoundShape
    <3>4. QED
      BY <2>5, <3>1, <3>2, <3>3, <1>1 DEF RoundCommit, executor, Control, LocksHeld,
         RoundShape, DeadIsQuiet
  <2>6. QED
    BY <1>f, <2>1, <2>2, <2>3, <2>4, <2>5 DEF RoundThread
<1>g. CASE HoldThread
  <2>0. hold # "none" => process # "dead"
    BY <1>1 DEF Control, DeadIsQuiet
  <2>1. CASE HoldVerify
    <3>1. process' # "dead"
      BY <2>0, <2>1 DEF HoldVerify, launch
    <3>2. QED
      BY <2>1, <3>1, <1>1 DEF HoldVerify, executor, Control, LocksHeld,
         RoundShape, DeadIsQuiet
  <2>2. CASE HoldActivate
    <3>1. process' # "dead"
      BY <2>0, <2>2 DEF HoldActivate
    <3>2. unactivated'.version # NoVersion => unactivated' = unactivated
      BY <2>2, <1>2 DEF HoldActivate
    <3>3. QED
      BY <2>2, <3>1, <3>2, <1>1 DEF HoldActivate, executor, Control, LocksHeld,
         RoundShape, DeadIsQuiet
  <2>3. QED
    BY <1>g, <2>1, <2>2 DEF HoldThread
<1>h. CASE Executor
  <2>0. queue # <<>> => process # "dead"
    BY <1>1 DEF Control, DeadIsQuiet
  <2>1. CASE RunInstall
    <3>1. process' # "dead" /\ ~cleaning.active
      BY <2>0, <2>1 DEF RunInstall, Idle, launch
    <3>2. Head(queue).version \in Version
      <4>1. Head(queue) \in Job
        BY <2>1, <1>1 DEF RunInstall, Idle, ThreadTypeOK
      <4>2. QED
        BY <2>1, <4>1 DEF RunInstall, Job, InstallJob, CleanupJob
    <3>3. \/ round' = round
          \/ /\ round.phase = "waiting"
             /\ round'.phase \in {"verify", "commit"}
             /\ round'.activate => round'.version \in Version
             /\ round'.phase = "verify" => round'.version \in Version
      BY <2>1, <3>2, <1>1 DEF RunInstall, Ready, NothingToInstall, ThreadTypeOK, Round
    <3>4. QED
      BY <2>1, <3>1, <3>3, <1>1 DEF RunInstall, Control, LocksHeld, RoundShape, DeadIsQuiet
  <2>2. CASE SelectKeepNames
    <3>1. process' # "dead" /\ cleaning'.active
      BY <2>0, <2>2 DEF SelectKeepNames, Idle, launch
    <3>2. QED
      BY <2>2, <3>1, <1>1 DEF SelectKeepNames, Idle, rescue, Control, LocksHeld, RoundShape,
         DeadIsQuiet
  <2>3. CASE DeleteVersions
    <3>1. process' # "dead" /\ ~cleaning'.active
      BY <2>3, <1>1, <1>2 DEF DeleteVersions, launch, Control, DeadIsQuiet
    <3>2. QED
      BY <2>3, <3>1, <1>1 DEF DeleteVersions, rescue, Control, LocksHeld, RoundShape, DeadIsQuiet
  <2>4. QED
    BY <1>h, <2>1, <2>2, <2>3 DEF Executor
<1>i. QED
  BY <1>a, <1>b, <1>c, <1>d, <1>e, <1>f, <1>g, <1>h DEF Next

(***************************************************************************)
(* Every step leaves verified targets in place                             *)
(***************************************************************************)

(* Nothing is verified in a dead process or while a cleanup holds the      *)
(* lock, and only a finished round leaves the hold anything.               *)
LEMMA NothingVerified ==
    ASSUME IInv
    PROVE  /\ process = "dead" \/ cleaning.active
                => serial.step # "verified" /\ round.phase # "verified" /\ hold # "verified"
           /\ hold = "verified" => round.phase = "done"
<1>1. LocksHeld /\ RoundShape /\ DeadIsQuiet /\ VerifiedTargetsIntact /\ dirs \subseteq Version
  BY DEF IInv, TypeOK, DeviceTypeOK
<1>2. process = "dead" => serial.step = "idle" /\ round.phase = "idle" /\ hold = "none"
  BY <1>1 DEF DeadIsQuiet, NoCall, NoRound
<1>3. hold = "verified" => unactivated.version # NoVersion
  BY <1>1, NoVersionAssumption DEF VerifiedTargetsIntact
<1>4. QED
  BY <1>1, <1>2, <1>3 DEF LocksHeld, RoundShape

(* The step of every action keeps the three targets that were verified, or *)
(* verifies one that is there.                                             *)
LEMMA TargetsStep == IInv /\ [Next]_vars => VerifiedTargetsIntact'
<1> SUFFICES ASSUME IInv, [Next]_vars PROVE VerifiedTargetsIntact'
  OBVIOUS
<1>1. VerifiedTargetsIntact /\ ThreadTypeOK
  BY DEF IInv, TypeOK
<1>2. ASSUME UNCHANGED <<dirs, serial, round, unactivated, hold>>
      PROVE  VerifiedTargetsIntact'
  BY <1>1, <1>2 DEF VerifiedTargetsIntact
<1>3. ASSUME UNCHANGED <<dirs, round, unactivated, hold>>, serial'.step # "verified"
      PROVE  VerifiedTargetsIntact'
  BY <1>1, <1>3 DEF VerifiedTargetsIntact
<1>4. ASSUME UNCHANGED <<dirs, serial>>, round'.phase # "verified", hold # "verified",
             hold' # "verified"
      PROVE  VerifiedTargetsIntact'
  BY <1>1, <1>4 DEF VerifiedTargetsIntact
<1>a. CASE UNCHANGED vars
  BY <1>a, <1>2 DEF vars, rescue
<1>b. CASE Environment
  <2>1. CASE UpgradeBinary \/ FlushApply
    BY <2>1, <1>2 DEF UpgradeBinary, FlushApply, rescue
  <2>2. CASE LoseFiles
    BY <2>2, NothingVerified DEF LoseFiles, rescue, VerifiedTargetsIntact
  <2>3. CASE Die
    BY <2>3 DEF Die, ProcessGone, NoCall, NoRound, VerifiedTargetsIntact
  <2>4. QED
    BY <1>b, <2>1, <2>2, <2>3 DEF Environment
<1>c. CASE MainThread
  <2>1. CASE Construct \/ Launch \/ Reload
    BY <2>1, <1>2 DEF Construct, Launch, Reload, rescue
  <2>2. CASE JsCrash
    BY <2>2, <1>1 DEF JsCrash, VerifiedTargetsIntact
  <2>3. QED
    BY <1>c, <2>1, <2>2 DEF MainThread
<1>d. CASE JsThread
  <2>1. CASE ConsumeLaunchMarkers \/ CallDownload
    BY <2>1, <1>2 DEF ConsumeLaunchMarkers, CallDownload, rescue
  <2>2. CASE JsCalls
    <3>1. serial'.step = "called"
      BY <2>2 DEF JsCalls, CallSwitch, CallRestart, CallMarkSuccess, CallReset, CallSyncConfig,
         CallModule
    <3>2. QED
      BY <2>2, <3>1, <1>3 DEF JsCalls, rescue
  <2>3. QED
    BY <1>d, <2>1, <2>2 DEF JsThread
<1>e. CASE SerialThread
  <2>1. CASE VerifySwitchTarget
    <3>1. serial'.step = "verified" => serial.arg \in dirs /\ serial'.arg = serial.arg
      BY <2>1, <1>1 DEF VerifySwitchTarget, Return, ThreadTypeOK, Call, NoCall, SwitchCall,
         PlainCall, ConfigCall
    <3>2. QED
      BY <2>1, <3>1, <1>1 DEF VerifySwitchTarget, rescue, VerifiedTargetsIntact
  <2>2. CASE SwitchVersionCommit
    <3>1. serial'.step # "verified"
      BY <2>2, <1>1 DEF SwitchVersionCommit, Return, ThreadTypeOK, Call, NoCall, SwitchCall,
         PlainCall, ConfigCall
    <3>2. QED
      BY <2>2, <3>1, <1>3 DEF SwitchVersionCommit, rescue
  <2>3. CASE ResolveReload \/ MarkSuccessCall
    BY <2>3, <1>3 DEF ResolveReload, MarkSuccessCall, Return, NoCall, rescue
  <2>4. ASSUME serial' = NoCall, UNCHANGED <<dirs, hold>>,
               Supersede \/ UNCHANGED <<generation, round, unactivated>>
        PROVE  VerifiedTargetsIntact'
    <3>1. /\ round'.phase = round.phase
          /\ round'.version = round.version
          /\ unactivated'.version = unactivated.version
      BY <2>4, <1>1 DEF Supersede, ThreadTypeOK, Round, Unactivated
    <3>2. QED
      BY <2>4, <3>1, <1>1 DEF NoCall, VerifiedTargetsIntact
  <2>5. CASE ResetToPackagedBundle \/ SetNativeConfig
    BY <2>4, <2>5 DEF ResetToPackagedBundle, SetNativeConfig, Return
  <2>6. QED
    BY <1>e, <2>1, <2>2, <2>3, <2>5 DEF SerialThread
<1>f. CASE RoundThread
  <2>1. hold = "verified" => round.phase = "done"
    BY NothingVerified
  <2>2. CASE StartRound
    BY <2>1, <2>2, <1>4 DEF StartRound, NoRound
  <2>3. CASE RoundResponse
    <3>1. round'.phase # "verified"
      BY <2>3, <1>1 DEF RoundResponse, EndRound, NothingToInstall, Ready, ThreadTypeOK, Round
    <3>2. QED
      BY <2>1, <2>3, <3>1, <1>4 DEF RoundResponse
  <2>4. CASE RoundTimeout
    BY <2>1, <2>4, <1>1, <1>4 DEF RoundTimeout, NothingToInstall, ThreadTypeOK, Round
  <2>5. CASE RoundVerify
    <3>1. /\ round'.phase = "verified" => round.version \in dirs
          /\ round'.version = round.version
      BY <2>5, <1>1 DEF RoundVerify, EndRound, ThreadTypeOK, Round
    <3>2. QED
      BY <2>5, <3>1, <1>1 DEF RoundVerify, VerifiedTargetsIntact
  <2>6. CASE RoundCommit
    <3>1. round'.phase = "done"
      BY <2>6, <1>1 DEF RoundCommit, EndRound, ThreadTypeOK, Round
    <3>2. QED
      BY <2>1, <2>6, <3>1, <1>4 DEF RoundCommit
  <2>7. QED
    BY <1>f, <2>2, <2>3, <2>4, <2>5, <2>6 DEF RoundThread
<1>g. CASE HoldThread
  <2>1. CASE HoldVerify
    BY <2>1, <1>1 DEF HoldVerify, VerifiedTargetsIntact
  <2>2. CASE HoldActivate
    BY <2>2, <1>1 DEF HoldActivate, VerifiedTargetsIntact
  <2>3. QED
    BY <1>g, <2>1, <2>2 DEF HoldThread
<1>h. CASE Executor
  <2>1. CASE RunInstall
    <3>1. dirs \subseteq dirs'
      BY <2>1 DEF RunInstall
    <3>2. round' = round \/ round'.phase \in {"verify", "commit"}
      BY <2>1, <1>1 DEF RunInstall, Ready, NothingToInstall, ThreadTypeOK, Round
    <3>3. QED
      BY <2>1, <3>1, <3>2, <1>1 DEF RunInstall, VerifiedTargetsIntact
  <2>2. CASE SelectKeepNames
    BY <2>2, <1>2 DEF SelectKeepNames, rescue
  <2>3. CASE DeleteVersions
    BY <2>3, NothingVerified DEF DeleteVersions, rescue, VerifiedTargetsIntact
  <2>4. QED
    BY <1>h, <2>1, <2>2, <2>3 DEF Executor
<1>i. QED
  BY <1>a, <1>b, <1>c, <1>d, <1>e, <1>f, <1>g, <1>h DEF Next

(***************************************************************************)
(* The theorems                                                            *)
(***************************************************************************)

(* The other variables of an installation that has never run are typed.    *)
LEMMA TypesInit == Init => DeviceTypeOK /\ ThreadTypeOK
<1> SUFFICES ASSUME Init PROVE DeviceTypeOK /\ ThreadTypeOK
  OBVIOUS
<1>1. DeviceTypeOK
  BY DEF Init, DeviceTypeOK, Cache, MaybeVersion
<1>2. ThreadTypeOK
  BY IdleTypes DEF Init, ThreadTypeOK, MaybeVersion
<1>3. QED
  BY <1>1, <1>2

(* IInv is inductive: it holds of a new installation, and every step of    *)
(* every thread, and of the environment, preserves it.                     *)
THEOREM Invariance == Spec => []IInv
<1>1. Init => IInv
  BY StoreInit, TypesInit, ControlInit DEF IInv, TypeOK, GoodStores, Control
<1>2. IInv /\ [Next]_vars => IInv'
  BY StoreStep, DeviceStep, ThreadStep, ControlStep, TargetsStep
     DEF IInv, TypeOK, GoodStores, Control
<1>3. QED
  BY <1>1, <1>2, PTL DEF Spec

(* Every variable keeps its type.                                          *)
THEOREM TypeCorrect == Spec => []TypeOK
<1>1. IInv => TypeOK
  BY DEF IInv
<1>2. QED
  BY <1>1, Invariance, PTL

(* The state the process sees and the state a restart would read stay      *)
(* coherent under every interleaving, crash and failed commit: no fallback *)
(* without a current version or equal to it, no rolled-back version that   *)
(* is about to be loaded (state_core.cpp under commitLock).                *)
THEOREM StoresStayCoherent == Spec => []StoresCoherent
<1>1. IInv => StoresCoherent
  BY DEF IInv
<1>2. QED
  BY <1>1, Invariance, PTL

(* Between the check of a switch target and the commit that points the     *)
(* state at it, no cleanup deletes it (versionFilesLock).                  *)
THEOREM TargetsStayIntact == Spec => []VerifiedTargetsIntact
<1>1. IInv => VerifiedTargetsIntact
  BY DEF IInv
<1>2. QED
  BY <1>1, Invariance, PTL

(***************************************************************************)
(* What a launch changes                                                   *)
(***************************************************************************)

(* Rolling back moves to the fallback, which is used up by it.             *)
LEMMA RolledBackIs ==
    ASSUME NEW m, GoodStore(m)
    PROVE  /\ RolledBack(m).st.current = m.st.last
           /\ RolledBack(m).st.last = NoVersion
           /\ ~RolledBack(m).st.firstTime
           /\ RolledBack(m).st.firstTimeOk
           /\ RolledBack(m).breadcrumb = m.breadcrumb
BY DEF RolledBack, Rollback, GoodStore, Store, State

(* Resolving without touching the disk rolls a broken first load back,     *)
(* uses up a first load or leaves things alone.                            *)
LEMMA ResolvedIs ==
    ASSUME GoodStore(mem), ignoreRollback \in BOOLEAN
    PROVE  /\ Resolved.breadcrumb = mem.breadcrumb
           /\ DidRollback(mem.st, ignoreRollback)
                => /\ Resolved.st.current = mem.st.last
                   /\ Resolved.st.last = NoVersion
                   /\ ~Resolved.st.firstTime
                   /\ Resolved.st.firstTimeOk
           /\ ~DidRollback(mem.st, ignoreRollback)
                => /\ Resolved.st.current = mem.st.current
                   /\ Resolved.st.last = mem.st.last
                   /\ Resolved.st.firstTimeOk = mem.st.firstTimeOk
                   /\ Resolved.st.firstTime
                        = (mem.st.firstTime /\ ~ConsumedFirstTime(mem.st, ignoreRollback))
<1>1. mem.st \in State
  BY DEF GoodStore, Store
<1>2. /\ Resolved.st = ResolveLaunchState(mem.st, ignoreRollback)
      /\ Resolved.breadcrumb = mem.breadcrumb
  BY DEF Resolved, GoodStore, Store
<1>3. ConsumedFirstTime(mem.st, ignoreRollback) => mem.st.firstTime
  BY DEF ConsumedFirstTime
<1>4. CASE DidRollback(mem.st, ignoreRollback)
  BY <1>1, <1>2, <1>4 DEF ResolveLaunchState, Rollback, State
<1>5. CASE ~DidRollback(mem.st, ignoreRollback) /\ ConsumedFirstTime(mem.st, ignoreRollback)
  <2>1. Resolved.st = [mem.st EXCEPT !.firstTime = FALSE]
    BY <1>2, <1>5 DEF ResolveLaunchState
  <2>2. QED
    BY <1>1, <1>2, <1>5, <2>1 DEF State
<1>6. CASE ~DidRollback(mem.st, ignoreRollback) /\ ~ConsumedFirstTime(mem.st, ignoreRollback)
  <2>1. Resolved.st = mem.st
    BY <1>2, <1>6 DEF ResolveLaunchState
  <2>2. mem.st.firstTime \in BOOLEAN
    BY <1>1 DEF State
  <2>3. QED
    BY <1>2, <1>6, <2>1, <2>2
<1>7. QED
  BY <1>4, <1>5, <1>6

(* What is launched is what the state said, unless its first load broke or *)
(* its bundle is missing; then it is the fallback or the packaged bundle.  *)
LEMMA LaunchedIs ==
    ASSUME GoodStores, ignoreRollback \in BOOLEAN
    PROVE  /\ Launched.breadcrumb = mem.breadcrumb
           /\ Launched.st.current \in dirs \cup {NoVersion}
           /\ \/ /\ ~DidRollback(mem.st, ignoreRollback)
                 /\ ~Missing(mem.st.current)
                 /\ Launched.st.current = mem.st.current
                 /\ Launched.st.last = mem.st.last
                 /\ Launched.st.firstTimeOk = mem.st.firstTimeOk
                 /\ Launched.st.firstTime
                      = (mem.st.firstTime /\ ~ConsumedFirstTime(mem.st, ignoreRollback))
              \/ /\ DidRollback(mem.st, ignoreRollback) \/ Missing(mem.st.current)
                 /\ Launched.st.current \in {mem.st.last, NoVersion}
                 /\ Launched.st.last = NoVersion
                 /\ ~Launched.st.firstTime
                 /\ Launched.st.firstTimeOk
<1>1. GoodStore(mem) /\ GoodStore(Resolved) /\ GoodStore(RolledBack(Resolved))
  BY GoodStoresDef, LaunchedGood
<1>2. /\ Resolved.st.current \in MaybeVersion /\ Resolved.st.last \in MaybeVersion
      /\ Resolved.st.firstTime \in BOOLEAN /\ Resolved.st.firstTimeOk \in BOOLEAN
  BY <1>1 DEF GoodStore, Store, State
<1>3. \A v \in MaybeVersion : ~Missing(v) => v \in dirs \cup {NoVersion}
  BY DEF Missing, MaybeVersion
<1>4. ~Missing(NoVersion)
  BY NoVersionAssumption DEF Missing
<1>5. CASE ~Missing(Resolved.st.current)
  <2>1. Launched = Resolved
    BY <1>5 DEF Launched
  <2>2. Resolved.st.current \in dirs \cup {NoVersion}
    BY <1>2, <1>3, <1>5
  <2>3. QED
    BY <1>1, <1>5, <2>1, <2>2, ResolvedIs
<1>6. CASE Missing(Resolved.st.current) /\ ~Missing(Resolved.st.last)
  <2>1. Launched = RolledBack(Resolved)
    BY <1>6 DEF Launched
  <2>2. Resolved.st.last \in dirs \cup {NoVersion}
    BY <1>2, <1>3, <1>6
  <2>3. Launched.st.current \in {mem.st.last, NoVersion}
    BY <1>1, <2>1, ResolvedIs, RolledBackIs
  <2>4. DidRollback(mem.st, ignoreRollback) \/ Missing(mem.st.current)
    BY <1>1, <1>6, ResolvedIs
  <2>5. QED
    BY <1>1, <2>1, <2>2, <2>3, <2>4, ResolvedIs, RolledBackIs
<1>7. CASE Missing(Resolved.st.current) /\ Missing(Resolved.st.last)
  <2>1. Launched = RolledBack(RolledBack(Resolved))
    BY <1>7 DEF Launched
  <2>2. DidRollback(mem.st, ignoreRollback) \/ Missing(mem.st.current)
    BY <1>1, <1>7, ResolvedIs
  <2>3. Launched.st.current = NoVersion
    BY <1>1, <2>1, RolledBackIs
  <2>4. QED
    BY <1>1, <2>1, <2>2, <2>3, ResolvedIs, RolledBackIs
<1>8. QED
  BY <1>5, <1>6, <1>7

(* However it is persisted, memory holds what is launched; and so does the *)
(* disk, if commits reach it.                                              *)
LEMMA LaunchPersisted ==
    ASSUME PersistLaunch
    PROVE  /\ mem' = Launched
           /\ ~StateWritesMayFail => UNCHANGED store \/ disk' = mem'
<1>1. CASE LaunchWrites = {}
  BY <1>1 DEF PersistLaunch, LaunchWrites, store
<1>2. CASE LaunchWrites # {}
  BY <1>2 DEF PersistLaunch
<1>3. QED
  BY <1>1, <1>2

(***************************************************************************)
(* A process that has not resolved a bundle runs nothing                   *)
(***************************************************************************)
NotUpIsQuiet ==
    process # "up" =>
        /\ serial = NoCall
        /\ uiReload = NoBundle
        /\ js.phase = "off"
        /\ hold = "none"
        /\ round = NoRound
        /\ unactivated = NothingPending
        /\ ~ignoreRollback
        /\ launchVersion = NoVersion
        /\ launchRolledBack = NoVersion

(* A round that activates verifies its target before it commits.           *)
CommitsWithoutSwitch == round.phase = "commit" => ~round.activate

Quiet == NotUpIsQuiet /\ CommitsWithoutSwitch

(* Only Launch starts anything, and only Die stops the process.            *)
LEMMA QuietStep == IInv /\ Quiet /\ [Next]_vars => Quiet'
<1> SUFFICES ASSUME IInv, Quiet, [Next]_vars PROVE Quiet'
  OBVIOUS
<1>1. ThreadTypeOK /\ RoundShape /\ NotUpIsQuiet /\ CommitsWithoutSwitch
  BY DEF IInv, TypeOK, Quiet
<1>2. serial.op # "none" \/ js.phase # "off" \/ hold # "none" \/ round.phase # "idle"
        \/ unactivated.version # NoVersion => process = "up"
  BY <1>1 DEF NotUpIsQuiet, NoCall, NoRound, NothingPending
<1>3. ASSUME process' = "up", UNCHANGED round
      PROVE  Quiet'
  BY <1>1, <1>3 DEF Quiet, NotUpIsQuiet, CommitsWithoutSwitch
<1>4. ASSUME EndRound, process' = "up"
      PROVE  Quiet'
  BY <1>1, <1>4 DEF EndRound, ThreadTypeOK, Round, Quiet, NotUpIsQuiet, CommitsWithoutSwitch
<1>5. ASSUME process' = "up", round'.phase = "commit" => ~round'.activate
      PROVE  Quiet'
  BY <1>5 DEF Quiet, NotUpIsQuiet, CommitsWithoutSwitch
<1>6. ~NothingToInstall.activate
  BY <1>1 DEF NothingToInstall, ThreadTypeOK, Round
<1>7. ASSUME NEW v, NEW decided
      PROVE  Ready(v, decided).phase = "commit" => ~Ready(v, decided).activate
  BY <1>1 DEF Ready, ThreadTypeOK, Round
<1>a. CASE UNCHANGED vars
  BY <1>a, <1>1 DEF vars, launch, rescue, Quiet, NotUpIsQuiet, CommitsWithoutSwitch
<1>b. CASE Environment
  <2>1. CASE UpgradeBinary \/ LoseFiles \/ FlushApply
    BY <2>1, <1>1 DEF UpgradeBinary, LoseFiles, FlushApply, launch, rescue, Quiet,
       NotUpIsQuiet, CommitsWithoutSwitch
  <2>2. CASE Die
    BY <2>2 DEF Die, ProcessGone, NoJs, NoRound, Quiet, NotUpIsQuiet, CommitsWithoutSwitch
  <2>3. QED
    BY <1>b, <2>1, <2>2 DEF Environment
<1>c. CASE MainThread
  <2>1. CASE Construct
    <3>1. ignoreRollback' = ignoreRollback
      BY <2>1 DEF Construct
    <3>2. QED
      BY <2>1, <3>1, <1>1 DEF Construct, rescue, Quiet, NotUpIsQuiet, CommitsWithoutSwitch
  <2>2. CASE Launch
    BY <2>2, <1>3 DEF Launch
  <2>3. CASE Reload
    BY <2>3, <1>1, <1>3 DEF Reload, launch, rescue, NotUpIsQuiet
  <2>4. CASE JsCrash
    BY <2>4, <1>3 DEF JsCrash, launch
  <2>5. QED
    BY <1>c, <2>1, <2>2, <2>3, <2>4 DEF MainThread
<1>d. CASE JsThread
  <2>1. process' = "up" /\ UNCHANGED round
    BY <1>d, <1>2 DEF JsThread, ConsumeLaunchMarkers, JsCalls, CallDownload, CallSwitch,
       CallRestart, CallMarkSuccess, CallReset, CallSyncConfig, CallModule, launch, rescue
  <2>2. QED
    BY <2>1, <1>3
<1>e. CASE SerialThread
  <2>1. process' = "up"
    BY <1>e, <1>2 DEF SerialThread, VerifySwitchTarget, SwitchVersionCommit, ResolveReload,
       MarkSuccessCall, ResetToPackagedBundle, SetNativeConfig, Calling, launch
  <2>2. round'.phase = round.phase /\ round'.activate = round.activate
    BY <1>e, <1>1 DEF SerialThread, VerifySwitchTarget, SwitchVersionCommit, ResolveReload,
       MarkSuccessCall, ResetToPackagedBundle, SetNativeConfig, Supersede, rescue,
       ThreadTypeOK, Round
  <2>3. QED
    BY <2>1, <2>2, <1>1, <1>5 DEF CommitsWithoutSwitch
<1>f. CASE RoundThread
  <2>1. process' = "up"
    BY <1>f, <1>2 DEF RoundThread, StartRound, RoundResponse, RoundTimeout, RoundVerify,
       RoundCommit, launch
  <2>2. round'.phase = "commit" => ~round'.activate
    <3>0. EndRound => round'.phase = "done"
      BY <1>1 DEF EndRound, ThreadTypeOK, Round
    <3>1. CASE StartRound \/ RoundVerify \/ RoundCommit
      BY <3>0, <3>1, <1>1 DEF StartRound, RoundVerify, RoundCommit, NoRound,
         ThreadTypeOK, Round
    <3>2. CASE RoundResponse
      <4>1. ASSUME NEW v \in Version, NEW activate \in BOOLEAN,
                   round' = [round EXCEPT !.phase = "waiting", !.version = v,
                                          !.activate = activate]
            PROVE  round'.phase = "waiting"
        BY <4>1, <1>1 DEF ThreadTypeOK, Round
      <4>2. \/ round'.phase \in {"done", "waiting"}
            \/ round' = NothingToInstall
            \/ \E v \in Version, activate \in BOOLEAN : round' = Ready(v, activate)
        BY <3>0, <3>2, <4>1 DEF RoundResponse
      <4>3. QED
        BY <4>2, <1>6, <1>7
    <3>3. CASE RoundTimeout
      BY <3>3, <1>6 DEF RoundTimeout
    <3>4. QED
      BY <1>f, <3>1, <3>2, <3>3 DEF RoundThread
  <2>3. QED
    BY <2>1, <2>2, <1>5
<1>g. CASE HoldThread
  <2>1. process' = "up" /\ UNCHANGED round
    BY <1>g, <1>2 DEF HoldThread, HoldVerify, HoldActivate, launch
  <2>2. QED
    BY <2>1, <1>3
<1>h. CASE Executor
  <2>1. CASE RunInstall
    <3>1. \/ round' = round
          \/ round.phase = "waiting" /\ (round'.phase = "commit" => ~round'.activate)
      BY <2>1, <1>6, <1>7 DEF RunInstall
    <3>2. CASE round' = round
      BY <2>1, <3>2, <1>1 DEF RunInstall, launch, Quiet, NotUpIsQuiet, CommitsWithoutSwitch
    <3>3. CASE round' # round
      BY <2>1, <3>1, <3>3, <1>2, <1>5 DEF RunInstall, launch
    <3>4. QED
      BY <3>2, <3>3
  <2>2. CASE SelectKeepNames \/ DeleteVersions
    BY <2>2, <1>1 DEF SelectKeepNames, DeleteVersions, launch, rescue, Quiet, NotUpIsQuiet,
       CommitsWithoutSwitch
  <2>3. QED
    BY <1>h, <2>1, <2>2 DEF Executor
<1>i. QED
  BY <1>a, <1>b, <1>c, <1>d, <1>e, <1>f, <1>g, <1>h DEF Next

(***************************************************************************)
(* What runs stays on disk                                                 *)
(***************************************************************************)

(* Switching makes the target current and the version before the fallback. *)
LEMMA SwitchedIs ==
    ASSUME NEW s \in State, NEW v \in Version
    PROVE  /\ SwitchVersion(s, v).current = v
           /\ SwitchVersion(s, v).last \in {s.current, s.last}
           /\ SwitchVersion(s, v).firstTime
           /\ ~SwitchVersion(s, v).firstTimeOk
BY DEF SwitchVersion, State

(* Clearing the rollback mark touches nothing else.                        *)
LEMMA MarkersConsumedIs ==
    ASSUME mem \in Store, ConsumeLaunchMarkers
    PROVE  /\ mem'.breadcrumb = mem.breadcrumb
           /\ mem'.st.current = mem.st.current
           /\ mem'.st.last = mem.st.last
           /\ mem'.st.firstTime = mem.st.firstTime
           /\ mem'.st.firstTimeOk = mem.st.firstTimeOk
           /\ disk' = disk
<1>1. CASE UNCHANGED store
  BY <1>1 DEF store
<1>2. CASE Apply([mem EXCEPT !.marker = FALSE, !.st = ClearRollbackMark(@)])
  <2>1. mem'.st = ClearRollbackMark(mem.st) /\ mem'.breadcrumb = mem.breadcrumb
    BY <1>2 DEF Apply, Store
  <2>2. mem.st \in State
    BY DEF Store
  <2>3. QED
    BY <1>2, <2>1, <2>2 DEF Apply, ClearRollbackMark, State
<1>3. QED
  BY <1>1, <1>2 DEF ConsumeLaunchMarkers

(* What a cleanup under way may not delete.                                *)
KeepsActive ==
    cleaning.active =>
        {mem.st.current, mem.st.last, launchVersion} \ {NoVersion} \subseteq cleaning.keep

(* Once a bundle is resolved, no first load of this process counts as      *)
(* broken, and the version to load next is there: a further resolution in  *)
(* the same process rolls nothing back.                                    *)
NoRollbackWhileUp ==
    process = "up" => /\ ignoreRollback \/ mem.st.firstTime \/ mem.st.firstTimeOk
                      /\ mem.st.current \in dirs \cup {NoVersion}

Kept == KeepsActive /\ LaunchVersionKept /\ NoRollbackWhileUp

(* Resolving a bundle, at launch or for a reload, keeps what runs.         *)
LEMMA GetBundleUrlKept ==
    ASSUME GoodStores, ignoreRollback \in BOOLEAN, Kept, GetBundleUrl, UNCHANGED <<dirs, cleaning>>
    PROVE  Kept'
<1>1. mem' = Launched /\ GoodStore(mem)
  BY LaunchPersisted, GoodStoresDef DEF GetBundleUrl
<1>2. mem.st.firstTime \in BOOLEAN /\ mem.st.firstTimeOk \in BOOLEAN /\ Coherent(mem.st)
  BY <1>1 DEF GoodStore, Store, State
<1>3. /\ {Launched.st.current, Launched.st.last} \subseteq {mem.st.current, mem.st.last, NoVersion}
      /\ Launched.st.current \in dirs \cup {NoVersion}
  BY LaunchedIs
<1>4. launchVersion' \in {launchVersion, Launched.st.current}
      /\ (launchVersion' # launchVersion => launchVersion' # NoVersion)
  BY DEF GetBundleUrl
<1>5. KeepsActive'
  BY <1>1, <1>3, <1>4 DEF Kept, KeepsActive
<1>6. LaunchVersionKept'
  BY <1>3, <1>4 DEF Kept, LaunchVersionKept
<1>7. ignoreRollback' \/ Launched.st.firstTime \/ Launched.st.firstTimeOk
  <2>1. CASE DidRollback(mem.st, ignoreRollback) \/ Missing(mem.st.current)
    BY <2>1, LaunchedIs
  <2>2. CASE ~DidRollback(mem.st, ignoreRollback) /\ ~Missing(mem.st.current)
    <3>1. ignoreRollback' = (ignoreRollback \/ ConsumedFirstTime(mem.st, ignoreRollback))
      BY DEF GetBundleUrl
    <3>2. \/ ignoreRollback \/ ConsumedFirstTime(mem.st, ignoreRollback)
          \/ mem.st.firstTime \/ mem.st.firstTimeOk
      BY <1>2, <2>2 DEF DidRollback, ShouldRollbackForBrokenFirstLoad, Coherent
    <3>3. QED
      BY <2>2, <3>1, <3>2, LaunchedIs
  <2>3. QED
    BY <2>1, <2>2
<1>8. QED
  BY <1>1, <1>3, <1>5, <1>6, <1>7 DEF Kept, NoRollbackWhileUp

(* No step takes away what the next resolution or the running context      *)
(* needs: deletions spare the keep names, and the keep names chosen stay   *)
(* right until versionFilesLock is released.                               *)
LEMMA KeptStep == IInv /\ Quiet /\ Kept /\ [Next]_vars => Kept'
<1> SUFFICES ASSUME IInv, Quiet, Kept, [Next]_vars PROVE Kept'
  OBVIOUS
<1>1. GoodStores /\ GoodStore(mem) /\ DeviceTypeOK /\ ThreadTypeOK /\ NotUpIsQuiet
      /\ LocksHeld /\ VerifiedTargetsIntact
  BY GoodStoresDef DEF IInv, TypeOK, GoodStores, Quiet
<1>2. mem \in Store /\ mem.st \in State /\ ignoreRollback \in BOOLEAN
  BY <1>1 DEF GoodStore, Store, DeviceTypeOK
<1>3. KeepsActive /\ LaunchVersionKept /\ NoRollbackWhileUp
  BY DEF Kept
<1>4. process = "dead" => ~cleaning.active /\ launchVersion = NoVersion
  BY <1>1 DEF IInv, DeadIsQuiet, NotUpIsQuiet
<1>5. ASSUME UNCHANGED <<dirs, cleaning, launchVersion, process, ignoreRollback>>,
             /\ mem'.st.current = mem.st.current
             /\ mem'.st.last \in {mem.st.last, NoVersion}
             /\ mem'.st.firstTime = mem.st.firstTime \/ mem'.st.firstTimeOk
             /\ mem'.st.firstTimeOk = mem.st.firstTimeOk \/ mem'.st.firstTimeOk
      PROVE  Kept'
  BY <1>3, <1>5 DEF Kept, KeepsActive, LaunchVersionKept, NoRollbackWhileUp
<1>6. ASSUME BestEffort([mem EXCEPT !.breadcrumb = FALSE])
      PROVE  mem'.st = mem.st
  BY <1>2, <1>6 DEF BestEffort, Commit, store, Store
<1>7. ASSUME NEW v \in dirs, ~cleaning.active, UNCHANGED <<dirs, cleaning, launchVersion, process>>,
             mem'.st = SwitchVersion(mem.st, v)
      PROVE  Kept'
  BY <1>1, <1>2, <1>3, <1>7, SwitchedIs DEF Kept, KeepsActive, LaunchVersionKept, NoRollbackWhileUp,
     DeviceTypeOK
<1>a. CASE UNCHANGED vars
  BY <1>a, <1>5 DEF vars, store, launch, executor
<1>b. CASE Environment
  <2>1. CASE UpgradeBinary
    BY <2>1, <1>5 DEF UpgradeBinary, store, launch, executor
  <2>2. CASE FlushApply
    BY <2>2, <1>5 DEF FlushApply, launch, executor
  <2>3. CASE LoseFiles
    BY <2>3, <1>4 DEF LoseFiles, launch, executor, Kept, KeepsActive, LaunchVersionKept,
       NoRollbackWhileUp
  <2>4. CASE Die
    BY <2>4 DEF Die, ProcessGone, NotCleaning, Kept, KeepsActive, LaunchVersionKept,
       NoRollbackWhileUp
  <2>5. QED
    BY <1>b, <2>1, <2>2, <2>3, <2>4 DEF Environment
<1>c. CASE MainThread
  <2>1. CASE Construct
    <3>1. ~cleaning'.active
      BY <2>1, <1>4 DEF Construct, Enqueue, executor
    <3>2. QED
      BY <2>1, <3>1, <1>4 DEF Construct, Kept, KeepsActive, LaunchVersionKept, NoRollbackWhileUp
  <2>2. CASE Launch
    BY <2>2, <1>1, <1>2, GetBundleUrlKept DEF Launch, executor
  <2>3. CASE Reload \/ JsCrash
    BY <2>3, <1>5 DEF Reload, JsCrash, store, launch, executor
  <2>4. QED
    BY <1>c, <2>1, <2>2, <2>3 DEF MainThread
<1>d. CASE JsThread
  <2>1. CASE ConsumeLaunchMarkers
    <3>1. /\ mem'.st.current = mem.st.current
          /\ mem'.st.last = mem.st.last
          /\ mem'.st.firstTime = mem.st.firstTime
          /\ mem'.st.firstTimeOk = mem.st.firstTimeOk
      BY <2>1, <1>2, MarkersConsumedIs
    <3>2. UNCHANGED cleaning
      BY <2>1 DEF ConsumeLaunchMarkers, Enqueue, executor
    <3>3. QED
      BY <2>1, <3>1, <3>2, <1>5 DEF ConsumeLaunchMarkers, launch
  <2>2. CASE JsCalls \/ CallDownload
    BY <2>2, <1>5 DEF JsCalls, CallDownload, Enqueue, store, launch, executor
  <2>3. QED
    BY <1>d, <2>1, <2>2 DEF JsThread
<1>e. CASE SerialThread
  <2>1. CASE VerifySwitchTarget
    BY <2>1, <1>5 DEF VerifySwitchTarget, store, launch, executor
  <2>2. CASE SwitchVersionCommit
    <3>1. serial.arg \in dirs /\ ~cleaning.active
      BY <2>2, <1>1 DEF SwitchVersionCommit, Calling, LocksHeld, VerifiedTargetsIntact
    <3>2. mem'.st = SwitchVersion(mem.st, serial.arg)
      BY <2>2, <1>2 DEF SwitchVersionCommit, Commit, Store
    <3>3. QED
      BY <2>2, <3>1, <3>2, <1>7 DEF SwitchVersionCommit, executor
  <2>3. CASE ResolveReload
    BY <2>3, <1>1, <1>2, GetBundleUrlKept DEF ResolveReload, executor
  <2>4. CASE MarkSuccessCall
    <3>1. mem'.st = MarkSuccess(mem.st)
      BY <2>4, <1>2 DEF MarkSuccessCall, Commit, Store
    <3>2. /\ mem'.st.current = mem.st.current
          /\ mem'.st.last \in {mem.st.last, NoVersion}
          /\ mem'.st.firstTimeOk
      BY <3>1, <1>2 DEF MarkSuccess, State
    <3>3. UNCHANGED cleaning
      BY <2>4 DEF MarkSuccessCall, Enqueue, executor
    <3>4. QED
      BY <2>4, <3>2, <3>3, <1>5 DEF MarkSuccessCall, launch
  <2>5. CASE ResetToPackagedBundle
    <3>1. UNCHANGED <<dirs, cleaning, launchVersion, process>>
      BY <2>5 DEF ResetToPackagedBundle, Enqueue, executor
    <3>2. CASE UNCHANGED <<store, ignoreRollback>>
      BY <3>1, <3>2, <1>5 DEF store
    <3>3. CASE mem' = [mem EXCEPT !.st = FreshState(binary), !.marker = FALSE]
      <4>1. mem'.st = FreshState(binary)
        BY <3>3, <1>2 DEF Store
      <4>2. /\ mem'.st.current = NoVersion
            /\ mem'.st.last = NoVersion
            /\ mem'.st.firstTimeOk
        BY <4>1 DEF FreshState
      <4>3. QED
        BY <3>1, <4>2, <1>3 DEF Kept, KeepsActive, LaunchVersionKept, NoRollbackWhileUp
    <3>4. QED
      BY <2>5, <3>2, <3>3 DEF ResetToPackagedBundle, Commit
  <2>6. CASE SetNativeConfig
    <3>1. mem'.st = mem.st
      BY <2>6, <1>2 DEF SetNativeConfig, Commit, store, Store
    <3>2. QED
      BY <2>6, <3>1, <1>5 DEF SetNativeConfig, executor
  <2>7. QED
    BY <1>e, <2>1, <2>2, <2>3, <2>4, <2>5, <2>6 DEF SerialThread
<1>f. CASE RoundThread
  <2>1. CASE StartRound
    <3>1. mem'.st = mem.st
      BY <2>1, <1>2 DEF StartRound, Commit, Store
    <3>2. QED
      BY <2>1, <3>1, <1>5 DEF StartRound, launch, executor
  <2>2. CASE RoundResponse
    <3>1. mem'.st = mem.st /\ UNCHANGED cleaning
      BY <2>2, <1>6 DEF RoundResponse, EndRound, Enqueue, store, executor
    <3>2. QED
      BY <2>2, <3>1, <1>5 DEF RoundResponse, launch
  <2>3. CASE RoundTimeout
    BY <2>3, <1>5 DEF RoundTimeout, store, launch, executor
  <2>4. CASE RoundVerify
    <3>1. mem'.st = mem.st
      BY <2>4, <1>6 DEF RoundVerify, EndRound, store
    <3>2. QED
      BY <2>4, <3>1, <1>5 DEF RoundVerify, launch, executor
  <2>5. CASE RoundCommit
    <3>1. UNCHANGED <<dirs, cleaning, launchVersion, process>>
      BY <2>5 DEF RoundCommit, executor
    <3>2. CASE Superseded(round.generation)
      BY <2>5, <3>1, <3>2, <1>5, <1>6 DEF RoundCommit, EndRound
    <3>3. CASE ~Superseded(round.generation) /\ round.activate
      <4>1. round.version \in dirs /\ ~cleaning.active
        BY <2>5, <3>3, <1>1 DEF RoundCommit, LocksHeld, VerifiedTargetsIntact, Quiet,
           CommitsWithoutSwitch
      <4>2. mem'.st = SwitchVersion(mem.st, round.version)
        BY <2>5, <3>3, <1>2 DEF RoundCommit, CommitSyncResult, Commit, Store
      <4>3. QED
        BY <3>1, <4>1, <4>2, <1>7
    <3>4. CASE ~Superseded(round.generation) /\ ~round.activate
      <4>1. mem'.st = mem.st /\ ignoreRollback' = ignoreRollback
        BY <2>5, <3>4, <1>2 DEF RoundCommit, CommitSyncResult, Commit, Store
      <4>2. QED
        BY <3>1, <4>1, <1>5
    <3>5. QED
      BY <3>2, <3>3, <3>4
  <2>6. QED
    BY <1>f, <2>1, <2>2, <2>3, <2>4, <2>5 DEF RoundThread
<1>g. CASE HoldThread
  <2>1. CASE HoldVerify
    BY <2>1, <1>5 DEF HoldVerify, store, launch, executor
  <2>2. CASE HoldActivate
    <3>1. UNCHANGED <<dirs, cleaning, launchVersion, process>>
      BY <2>2 DEF HoldActivate, executor
    <3>2. CASE Superseded(unactivated.generation)
      BY <2>2, <3>1, <3>2, <1>5 DEF HoldActivate, store
    <3>3. CASE ~Superseded(unactivated.generation)
      <4>1. unactivated.version \in dirs /\ ~cleaning.active
        BY <2>2, <1>1 DEF HoldActivate, LocksHeld, VerifiedTargetsIntact
      <4>2. mem'.st = SwitchVersion(mem.st, unactivated.version)
        BY <2>2, <3>3, <1>2 DEF HoldActivate, CommitSyncResult, Commit, Store
      <4>3. QED
        BY <3>1, <4>1, <4>2, <1>7
    <3>4. QED
      BY <3>2, <3>3
  <2>3. QED
    BY <1>g, <2>1, <2>2 DEF HoldThread
<1>h. CASE Executor
  <2>1. UNCHANGED <<mem, launchVersion, process, ignoreRollback>>
    BY <1>h DEF Executor, RunInstall, SelectKeepNames, DeleteVersions, store, launch
  <2>2. CASE RunInstall
    <3>1. dirs \subseteq dirs' /\ UNCHANGED cleaning
      BY <2>2 DEF RunInstall
    <3>2. QED
      BY <2>1, <3>1, <1>3 DEF Kept, KeepsActive, LaunchVersionKept, NoRollbackWhileUp
  <2>3. CASE SelectKeepNames
    BY <2>1, <2>3, <1>3 DEF SelectKeepNames, KeepNames, Kept, KeepsActive, LaunchVersionKept,
       NoRollbackWhileUp
  <2>4. CASE DeleteVersions
    <3>1. cleaning.active /\ dirs \cap cleaning.keep \subseteq dirs' /\ ~cleaning'.active
      BY <2>4 DEF DeleteVersions, NotCleaning
    <3>2. QED
      BY <2>1, <3>1, <1>3 DEF Kept, KeepsActive, LaunchVersionKept, NoRollbackWhileUp
  <2>5. QED
    BY <1>h, <2>2, <2>3, <2>4 DEF Executor
<1>i. QED
  BY <1>a, <1>b, <1>c, <1>d, <1>e, <1>f, <1>g, <1>h DEF Next

(***************************************************************************)
(* What the generation stands for                                          *)
(***************************************************************************)

(* A round, or what it left to JS, that carries the current generation was *)
(* decided after the last reset or change of configuration.                *)
FreshIfCurrent ==
    /\ round.generation <= generation
    /\ round.phase # "idle" /\ round.generation = generation => round.fresh
    /\ unactivated.version # NoVersion =>
         /\ unactivated.generation <= generation
         /\ unactivated.generation = generation => unactivated.fresh

(* Every step that supersedes a decision moves the generation past it.     *)
LEMMA FreshStep == IInv /\ FreshIfCurrent /\ [Next]_vars => FreshIfCurrent'
<1> SUFFICES ASSUME IInv, FreshIfCurrent, [Next]_vars PROVE FreshIfCurrent'
  OBVIOUS
<1>1. ThreadTypeOK /\ generation \in Nat /\ round \in Round /\ unactivated \in Unactivated
  BY DEF IInv, TypeOK, DeviceTypeOK, ThreadTypeOK
<1>2. round.generation \in Nat /\ unactivated.generation \in Nat
  BY <1>1 DEF Round, Unactivated
<1>3. ASSUME UNCHANGED <<generation, unactivated>>, round.phase # "idle",
             round'.generation = round.generation, round'.fresh = round.fresh
      PROVE  FreshIfCurrent'
  BY <1>3 DEF FreshIfCurrent
<1>4. ASSUME UNCHANGED <<generation, round, unactivated>>
      PROVE  FreshIfCurrent'
  BY <1>4 DEF FreshIfCurrent
<1>5. ASSUME EndRound
      PROVE  round'.generation = round.generation /\ round'.fresh = round.fresh
  BY <1>1, <1>5 DEF EndRound, Round
<1>6. /\ NothingToInstall.generation = round.generation
      /\ NothingToInstall.fresh = round.fresh
  BY <1>1 DEF NothingToInstall, Round
<1>7. ASSUME NEW v, NEW decided
      PROVE  /\ Ready(v, decided).generation = round.generation
             /\ Ready(v, decided).fresh = round.fresh
  BY <1>1 DEF Ready, Round
<1>8. ASSUME Supersede
      PROVE  FreshIfCurrent'
  <2>1. /\ round'.generation = round.generation
        /\ unactivated'.generation = unactivated.generation
        /\ unactivated'.version = unactivated.version
        /\ generation' = generation + 1
    BY <1>1, <1>8 DEF Supersede, Round, Unactivated
  <2>2. QED
    BY <1>1, <1>2, <2>1 DEF FreshIfCurrent
<1>a. CASE UNCHANGED vars
  BY <1>a, <1>4 DEF vars, launch, rescue
<1>b. CASE Environment
  <2>1. CASE UpgradeBinary \/ LoseFiles \/ FlushApply
    BY <2>1, <1>4 DEF UpgradeBinary, LoseFiles, FlushApply, launch, rescue
  <2>2. CASE Die
    BY <2>2 DEF Die, ProcessGone, NoRound, NothingPending, FreshIfCurrent
  <2>3. QED
    BY <1>b, <2>1, <2>2 DEF Environment
<1>c. CASE MainThread
  BY <1>c, <1>4 DEF MainThread, Construct, Launch, Reload, JsCrash, launch, rescue
<1>d. CASE JsThread
  BY <1>d, <1>4 DEF JsThread, ConsumeLaunchMarkers, JsCalls, CallDownload, launch, rescue
<1>e. CASE SerialThread
  BY <1>e, <1>4, <1>8 DEF SerialThread, VerifySwitchTarget, SwitchVersionCommit, ResolveReload,
     MarkSuccessCall, ResetToPackagedBundle, SetNativeConfig, launch, rescue
<1>f. CASE RoundThread
  <2>1. CASE StartRound
    <3>1. round'.generation = generation /\ round'.fresh
      BY <2>1 DEF StartRound, NoRound
    <3>2. QED
      BY <2>1, <3>1, <1>1 DEF StartRound, launch, FreshIfCurrent
  <2>2. CASE RoundResponse
    <3>1. round'.generation = round.generation /\ round'.fresh = round.fresh
      <4>1. CASE EndRound \/ round' = NothingToInstall
        BY <4>1, <1>5, <1>6
      <4>2. ASSUME NEW v \in Version, NEW activate \in BOOLEAN, round' = Ready(v, activate)
            PROVE  round'.generation = round.generation /\ round'.fresh = round.fresh
        BY <4>2, <1>7
      <4>3. ASSUME NEW v \in Version, NEW activate \in BOOLEAN,
                   round' = [round EXCEPT !.phase = "waiting", !.version = v,
                                          !.activate = activate]
            PROVE  round'.generation = round.generation /\ round'.fresh = round.fresh
        BY <4>3, <1>1 DEF Round
      <4>4. QED
        BY <2>2, <4>1, <4>2, <4>3 DEF RoundResponse
    <3>2. QED
      BY <2>2, <3>1, <1>3 DEF RoundResponse, launch
  <2>3. CASE RoundTimeout
    BY <2>3, <1>3, <1>6 DEF RoundTimeout, launch
  <2>4. CASE RoundVerify
    <3>1. round'.generation = round.generation /\ round'.fresh = round.fresh
      BY <2>4, <1>1, <1>5 DEF RoundVerify, Round
    <3>2. QED
      BY <2>4, <3>1, <1>3 DEF RoundVerify, launch
  <2>5. CASE RoundCommit
    <3>1. round'.generation = round.generation /\ round'.fresh = round.fresh
      BY <2>5, <1>1, <1>5 DEF RoundCommit, Round
    <3>2. CASE UNCHANGED unactivated
      BY <2>5, <3>1, <3>2, <1>3 DEF RoundCommit
    <3>3. CASE unactivated' = Unactivate(round) /\ ~Superseded(round.generation)
      <4>1. round.generation = generation /\ round.fresh
        BY <2>5, <3>3 DEF RoundCommit, Superseded, FreshIfCurrent
      <4>2. \/ unactivated' = unactivated
            \/ unactivated'.version = NoVersion
            \/ unactivated'.generation = generation /\ unactivated'.fresh
        BY <3>3, <4>1 DEF Unactivate, NothingPending
      <4>3. QED
        BY <2>5, <3>1, <4>2, <1>1 DEF RoundCommit, FreshIfCurrent
    <3>4. QED
      BY <2>5, <3>2, <3>3 DEF RoundCommit
  <2>6. QED
    BY <1>f, <2>1, <2>2, <2>3, <2>4, <2>5 DEF RoundThread
<1>g. CASE HoldThread
  <2>1. UNCHANGED <<generation, round>>
    BY <1>g DEF HoldThread, HoldVerify, HoldActivate, launch
  <2>2. unactivated' \in {unactivated, NothingPending}
    BY <1>g DEF HoldThread, HoldVerify, HoldActivate
  <2>3. QED
    BY <2>1, <2>2 DEF NothingPending, FreshIfCurrent
<1>h. CASE Executor
  <2>1. CASE RunInstall
    <3>1. UNCHANGED <<generation, unactivated>>
      BY <2>1 DEF RunInstall, launch
    <3>2. \/ round' = round
          \/ /\ round.phase = "waiting"
             /\ round'.generation = round.generation
             /\ round'.fresh = round.fresh
      BY <2>1, <1>6, <1>7 DEF RunInstall
    <3>3. QED
      BY <3>1, <3>2, <1>3, <1>4
  <2>2. CASE SelectKeepNames \/ DeleteVersions
    BY <2>2, <1>4 DEF SelectKeepNames, DeleteVersions, launch, rescue
  <2>3. QED
    BY <1>h, <2>1, <2>2 DEF Executor
<1>i. QED
  BY <1>a, <1>b, <1>c, <1>d, <1>e, <1>f, <1>g, <1>h DEF Next

(* With commits that reach the cache's file, the file says what memory     *)
(* says.                                                                   *)
CacheKept == cacheDisk = cacheMem /\ CacheIsFresh

(* Clearing leaves nothing to be stale; only a current round caches.       *)
LEMMA CacheStep ==
    ASSUME ~CacheWritesMayFail
    PROVE  IInv /\ FreshIfCurrent /\ CacheKept /\ [Next]_vars => CacheKept'
<1> SUFFICES ASSUME IInv, FreshIfCurrent, CacheKept, [Next]_vars PROVE CacheKept'
  OBVIOUS
<1>1. Reached(CacheWritesMayFail) = {TRUE}
  BY DEF Reached
<1>2. ASSUME UNCHANGED cache
      PROVE  CacheKept'
  BY <1>2 DEF cache, CacheKept, CacheIsFresh
<1>3. ASSUME NEW reached, reached, NEW proceeds, ClearCache(reached, proceeds)
      PROVE  CacheKept'
  <2>1. CacheFile(reached) = "none"
    BY <1>3 DEF CacheFile, CacheKept
  <2>2. QED
    BY <1>3, <2>1 DEF ClearCache, Outdated, CacheKept, CacheIsFresh
<1>a. CASE UNCHANGED vars
  BY <1>a, <1>2 DEF vars
<1>b. CASE Environment
  BY <1>b, <1>2 DEF Environment, UpgradeBinary, LoseFiles, FlushApply, Die, ProcessGone,
     CacheKept, CacheIsFresh
<1>c. CASE MainThread
  BY <1>c, <1>1, <1>2, <1>3 DEF MainThread, Construct, Launch, Reload, JsCrash
<1>d. CASE JsThread
  BY <1>d, <1>2 DEF JsThread, ConsumeLaunchMarkers, JsCalls, CallDownload
<1>e. CASE SerialThread
  BY <1>e, <1>1, <1>2, <1>3 DEF SerialThread, VerifySwitchTarget, SwitchVersionCommit,
     ResolveReload, MarkSuccessCall, ResetToPackagedBundle, SetNativeConfig
<1>f. CASE RoundThread
  <2>1. CASE RoundCommit /\ CacheResponse(round) /\ ~Superseded(round.generation)
    <3>1. round.fresh
      BY <2>1 DEF RoundCommit, Superseded, FreshIfCurrent
    <3>2. QED
      BY <2>1, <3>1, <1>1 DEF CacheResponse, CacheKept, CacheIsFresh
  <2>2. QED
    BY <1>f, <2>1, <1>2 DEF RoundThread, StartRound, RoundResponse, RoundTimeout, RoundVerify,
       RoundCommit
<1>g. CASE HoldThread
  BY <1>g, <1>2 DEF HoldThread, HoldVerify, HoldActivate
<1>h. CASE Executor
  BY <1>h, <1>2 DEF Executor, RunInstall, SelectKeepNames, DeleteVersions
<1>i. QED
  BY <1>a, <1>b, <1>c, <1>d, <1>e, <1>f, <1>g, <1>h DEF Next

(***************************************************************************)
(* What survives the process                                               *)
(***************************************************************************)

(* What a crash would change about the state, were the file behind.        *)
MemIsOnDisk ==
    /\ disk.breadcrumb = mem.breadcrumb
    /\ disk.st.current = mem.st.current
    /\ disk.st.last = mem.st.last
    /\ disk.st.firstTime = mem.st.firstTime
    /\ disk.st.firstTimeOk = mem.st.firstTimeOk

(* With commits that reach the disk, only apply() lets the file lag, and   *)
(* what it writes is not among these.                                      *)
LEMMA DiskStep ==
    ASSUME ~StateWritesMayFail
    PROVE  IInv /\ MemIsOnDisk /\ [Next]_vars => MemIsOnDisk'
<1> SUFFICES ASSUME IInv, MemIsOnDisk, [Next]_vars PROVE MemIsOnDisk'
  OBVIOUS
<1>1. Reached(StateWritesMayFail) = {TRUE}
  BY DEF Reached
<1>2. mem \in Store
  BY DEF IInv, TypeOK, StoreTypeOK
<1>3. ASSUME UNCHANGED store \/ disk' = mem'
      PROVE  MemIsOnDisk'
  BY <1>3 DEF store, MemIsOnDisk
<1>4. ASSUME NEW s, NEW reached, reached, Commit(s, reached)
      PROVE  disk' = mem'
  BY <1>4 DEF Commit
<1>5. ASSUME NEW s, BestEffort(s)
      PROVE  UNCHANGED store \/ disk' = mem'
  BY <1>1, <1>4, <1>5 DEF BestEffort
<1>a. CASE UNCHANGED vars
  BY <1>a, <1>3 DEF vars
<1>b. CASE Environment
  BY <1>b, <1>3 DEF Environment, UpgradeBinary, LoseFiles, FlushApply, Die, ProcessGone
<1>c. CASE MainThread
  BY <1>c, <1>1, <1>3, <1>4, LaunchPersisted DEF MainThread, Construct, Launch, GetBundleUrl,
     Reload, JsCrash
<1>d. CASE JsThread
  <2>1. CASE ConsumeLaunchMarkers
    BY <2>1, <1>2, MarkersConsumedIs DEF MemIsOnDisk
  <2>2. CASE JsCalls \/ CallDownload
    BY <2>2, <1>3 DEF JsCalls, CallDownload
  <2>3. QED
    BY <1>d, <2>1, <2>2 DEF JsThread
<1>e. CASE SerialThread
  BY <1>e, <1>1, <1>3, <1>4, LaunchPersisted DEF SerialThread, VerifySwitchTarget,
     SwitchVersionCommit, ResolveReload, GetBundleUrl, MarkSuccessCall, ResetToPackagedBundle,
     SetNativeConfig
<1>f. CASE RoundThread
  BY <1>f, <1>1, <1>3, <1>4, <1>5 DEF RoundThread, StartRound, RoundResponse, RoundTimeout,
     RoundVerify, RoundCommit, EndRound, CommitSyncResult
<1>g. CASE HoldThread
  BY <1>g, <1>1, <1>3, <1>4 DEF HoldThread, HoldVerify, HoldActivate, CommitSyncResult
<1>h. CASE Executor
  BY <1>h, <1>3 DEF Executor, RunInstall, SelectKeepNames, DeleteVersions
<1>i. QED
  BY <1>a, <1>b, <1>c, <1>d, <1>e, <1>f, <1>g, <1>h DEF Next

(* The breadcrumb in memory: set when a round starts, removed when it ends.*)
MarkOfTheRound == round.phase # "idle" => (mem.breadcrumb <=> round.phase # "done")

(* Whatever ends a round removes it, and nothing else touches it.          *)
LEMMA MarkStep == IInv /\ Quiet /\ MarkOfTheRound /\ [Next]_vars => MarkOfTheRound'
<1> SUFFICES ASSUME IInv, Quiet, MarkOfTheRound, [Next]_vars PROVE MarkOfTheRound'
  OBVIOUS
<1>1. GoodStores /\ mem \in Store /\ round \in Round /\ ignoreRollback \in BOOLEAN
  BY DEF IInv, TypeOK, StoreTypeOK, DeviceTypeOK, ThreadTypeOK, GoodStores
<1>2. ASSUME round'.phase = round.phase, mem'.breadcrumb = mem.breadcrumb
      PROVE  MarkOfTheRound'
  BY <1>2 DEF MarkOfTheRound
<1>3. ASSUME UNCHANGED mem, round.phase \notin {"idle", "done"}, round'.phase # "done"
      PROVE  MarkOfTheRound'
  BY <1>3 DEF MarkOfTheRound
<1>4. ASSUME EndRound
      PROVE  MarkOfTheRound'
  <2>1. round'.phase = "done"
    BY <1>1, <1>4 DEF EndRound, Round
  <2>2. ~mem'.breadcrumb
    BY <1>1, <1>4 DEF EndRound, BestEffort, Commit, store, Store
  <2>3. QED
    BY <2>1, <2>2 DEF MarkOfTheRound
<1>5. process # "up" => round.phase = "idle"
  BY DEF Quiet, NotUpIsQuiet, NoRound
<1>6. PersistLaunch => mem'.breadcrumb = mem.breadcrumb
  BY <1>1, LaunchPersisted, LaunchedIs
<1>7. ASSUME NEW r, NEW switching, NEW reached, CommitSyncResult(r, switching, reached)
      PROVE  ~mem'.breadcrumb
  BY <1>1, <1>7 DEF CommitSyncResult, Commit, Store
<1>a. CASE UNCHANGED vars
  BY <1>a, <1>2 DEF vars, store, rescue
<1>b. CASE Environment
  BY <1>b, <1>2 DEF Environment, UpgradeBinary, LoseFiles, FlushApply, Die, ProcessGone,
     NoRound, store, rescue, MarkOfTheRound
<1>c. CASE MainThread
  BY <1>c, <1>2, <1>5, <1>6 DEF MainThread, Construct, Launch, GetBundleUrl, Reload, JsCrash,
     store, rescue, MarkOfTheRound
<1>d. CASE JsThread
  BY <1>d, <1>1, <1>2, MarkersConsumedIs DEF JsThread, ConsumeLaunchMarkers, JsCalls,
     CallDownload, store, rescue
<1>e. CASE SerialThread
  <2>1. round'.phase = round.phase
    BY <1>e, <1>1 DEF SerialThread, VerifySwitchTarget, SwitchVersionCommit, ResolveReload,
       MarkSuccessCall, ResetToPackagedBundle, SetNativeConfig, Supersede, rescue, Round
  <2>2. mem'.breadcrumb = mem.breadcrumb
    BY <1>e, <1>1, <1>6 DEF SerialThread, VerifySwitchTarget, SwitchVersionCommit, ResolveReload,
       GetBundleUrl, MarkSuccessCall, ResetToPackagedBundle, SetNativeConfig, Commit, store, Store
  <2>3. QED
    BY <2>1, <2>2, <1>2
<1>f. CASE RoundThread
  <2>1. CASE StartRound
    <3>1. round'.phase = "started"
      BY <2>1 DEF StartRound, NoRound
    <3>2. mem'.breadcrumb
      BY <2>1, <1>1 DEF StartRound, Commit, Store
    <3>3. QED
      BY <3>1, <3>2 DEF MarkOfTheRound
  <2>2. CASE RoundResponse
    <3>1. ASSUME ~EndRound
          PROVE  round'.phase # "done" /\ UNCHANGED mem
      BY <2>2, <3>1, <1>1 DEF RoundResponse, NothingToInstall, Ready, store, Round
    <3>2. QED
      BY <2>2, <3>1, <1>3, <1>4 DEF RoundResponse
  <2>3. CASE RoundTimeout
    BY <2>3, <1>1, <1>3 DEF RoundTimeout, NothingToInstall, store, Round
  <2>4. CASE RoundVerify
    BY <2>4, <1>1, <1>3, <1>4 DEF RoundVerify, store, Round
  <2>5. CASE RoundCommit
    <3>1. CASE EndRound
      BY <3>1, <1>4
    <3>2. CASE ~EndRound
      <4>1. round'.phase = "done" /\ ~mem'.breadcrumb
        BY <2>5, <3>2, <1>1, <1>7 DEF RoundCommit, Round
      <4>2. QED
        BY <4>1 DEF MarkOfTheRound
    <3>3. QED
      BY <3>1, <3>2
  <2>6. QED
    BY <1>f, <2>1, <2>2, <2>3, <2>4, <2>5 DEF RoundThread
<1>g. CASE HoldThread
  <2>1. CASE HoldVerify
    BY <2>1, <1>2 DEF HoldVerify, store
  <2>2. CASE HoldActivate
    <3>1. CASE UNCHANGED store
      BY <2>2, <3>1, <1>2 DEF HoldActivate, store
    <3>2. CASE ~UNCHANGED store
      <4>1. round.phase = "done" /\ UNCHANGED round
        BY <2>2, NothingVerified DEF HoldActivate
      <4>2. ~mem'.breadcrumb
        BY <2>2, <3>2, <1>7 DEF HoldActivate
      <4>3. QED
        BY <4>1, <4>2 DEF MarkOfTheRound
    <3>3. QED
      BY <3>1, <3>2
  <2>3. QED
    BY <1>g, <2>1, <2>2 DEF HoldThread
<1>h. CASE Executor
  <2>1. CASE RunInstall
    BY <2>1, <1>1, <1>2, <1>3 DEF RunInstall, Ready, NothingToInstall, store, Round
  <2>2. CASE SelectKeepNames \/ DeleteVersions
    BY <2>2, <1>2 DEF SelectKeepNames, DeleteVersions, store, rescue
  <2>3. QED
    BY <1>h, <2>1, <2>2 DEF Executor
<1>i. QED
  BY <1>a, <1>b, <1>c, <1>d, <1>e, <1>f, <1>g, <1>h DEF Next

(***************************************************************************)
(* What the state to launch from never is                                  *)
(***************************************************************************)

(* What the state to launch from needs is there.                           *)
ActiveKept == FilesMayVanish \/ {mem.st.current, mem.st.last} \ {NoVersion} \subseteq dirs

(* The version whose one first load was used up is current, and the state  *)
(* says that it is unproven.                                               *)
CandidateIsUnproven ==
    candidate # NoVersion => mem.st.current = candidate /\ ~mem.st.firstTime /\ ~mem.st.firstTimeOk

Launchable == SupersededStaysOut /\ ActiveKept /\ CandidateIsUnproven

(* A launch that rolls back loads another version than the current one.    *)
LEMMA RollbackLeaves ==
    ASSUME GoodStores, ignoreRollback \in BOOLEAN,
           DidRollback(mem.st, ignoreRollback) \/ Missing(mem.st.current)
    PROVE  Launched.st.current # mem.st.current
<1>1. Coherent(mem.st)
  BY DEF GoodStores, StoresCoherent
<1>2. mem.st.current # NoVersion
  BY NoVersionAssumption DEF DidRollback, Missing
<1>3. Launched.st.current \in {mem.st.last, NoVersion}
  BY LaunchedIs
<1>4. QED
  BY <1>1, <1>2, <1>3 DEF Coherent

(* Resolving a bundle chooses among what was chosen before.                *)
LEMMA GetBundleUrlLaunchable ==
    ASSUME GoodStores, DeviceTypeOK, Launchable, GetBundleUrl, UNCHANGED dirs
    PROVE  Launchable'
<1>1. mem' = Launched /\ ignoreRollback \in BOOLEAN /\ revoked \subseteq Version
  BY LaunchPersisted DEF GetBundleUrl, DeviceTypeOK
<1>2. Coherent(mem.st) /\ mem.st.firstTime \in BOOLEAN /\ mem.st.firstTimeOk \in BOOLEAN
  BY GoodStoresDef DEF GoodStore, Store, State
<1>3. /\ Launched.st.current \in {mem.st.current, mem.st.last, NoVersion}
      /\ Launched.st.current \in dirs \cup {NoVersion}
      /\ Launched.st.last \in {mem.st.last, NoVersion}
  BY <1>1, LaunchedIs
<1>4. SupersededStaysOut' /\ ActiveKept'
  BY <1>1, <1>3, NoVersionAssumption DEF GetBundleUrl, Launchable, SupersededStaysOut, ActiveKept
<1>5. CandidateIsUnproven'
  <2>1. CASE DidRollback(mem.st, ignoreRollback) \/ Missing(mem.st.current)
    BY <2>1, <1>1, RollbackLeaves DEF GetBundleUrl, CandidateIsUnproven
  <2>2. CASE ~DidRollback(mem.st, ignoreRollback) /\ ~Missing(mem.st.current)
    <3>1. /\ Launched.st.current = mem.st.current
          /\ Launched.st.firstTimeOk = mem.st.firstTimeOk
          /\ Launched.st.firstTime
               = (mem.st.firstTime /\ ~ConsumedFirstTime(mem.st, ignoreRollback))
      BY <1>1, <2>2, LaunchedIs
    <3>2. candidate' = IF ConsumedFirstTime(mem.st, ignoreRollback) THEN mem.st.current
                       ELSE candidate
      BY <3>1 DEF GetBundleUrl
    <3>3. ConsumedFirstTime(mem.st, ignoreRollback) => ~mem.st.firstTimeOk
      BY <1>2 DEF ConsumedFirstTime, Coherent
    <3>4. QED
      BY <1>1, <3>1, <3>2, <3>3 DEF Launchable, CandidateIsUnproven
  <2>3. QED
    BY <2>1, <2>2
<1>6. QED
  BY <1>4, <1>5 DEF Launchable

(* No step makes a revoked, missing or twice-launched version the state to *)
(* launch from, when a crash cannot bring an older state back.             *)
LEMMA LaunchableStep ==
    IInv /\ Quiet /\ Kept /\ FreshIfCurrent /\ MemIsOnDisk /\ Launchable /\ [Next]_vars
        => Launchable'
<1> SUFFICES ASSUME IInv, Quiet, Kept, FreshIfCurrent, MemIsOnDisk, Launchable, [Next]_vars
             PROVE  Launchable'
  OBVIOUS
<1>1. GoodStores /\ DeviceTypeOK /\ ThreadTypeOK /\ VerifiedTargetsIntact
  BY DEF IInv, TypeOK, GoodStores
<1>2. mem \in Store /\ mem.st \in State /\ revoked \subseteq Version /\ dirs \subseteq Version
  BY <1>1, GoodStoresDef DEF GoodStore, Store, DeviceTypeOK
<1>3. SupersededStaysOut /\ ActiveKept /\ CandidateIsUnproven /\ KeepsActive
  BY DEF Launchable, Kept
<1>4. ASSUME /\ mem'.st.current = mem.st.current
             /\ mem'.st.last = mem.st.last
             /\ mem'.st.firstTime = mem.st.firstTime
             /\ mem'.st.firstTimeOk = mem.st.firstTimeOk,
             UNCHANGED <<dirs, history>>
      PROVE  Launchable'
  BY <1>3, <1>4 DEF history, Launchable, SupersededStaysOut, ActiveKept, CandidateIsUnproven
<1>5. ASSUME UNCHANGED <<store, dirs, history>>
      PROVE  Launchable'
  BY <1>4, <1>5 DEF store
<1>6. ASSUME NEW v \in dirs, mem'.st = SwitchVersion(mem.st, v), Activates(v, TRUE), UNCHANGED dirs
      PROVE  Launchable'
  <2>1. /\ mem'.st.current = v
        /\ mem'.st.last \in {mem.st.current, mem.st.last}
    BY <1>2, <1>6, SwitchedIs
  <2>2. mem'.st.last # v \/ mem'.st.last \notin revoked'
    BY <1>6 DEF Activates
  <2>3. QED
    BY <2>1, <2>2, <1>3, <1>6 DEF Activates, Launchable, SupersededStaysOut, ActiveKept,
       CandidateIsUnproven
<1>7. ASSUME mem' = [mem EXCEPT !.st = FreshState(binary), !.marker = FALSE],
             candidate' = NoVersion, revoked' = Version, UNCHANGED dirs
      PROVE  Launchable'
  <2>1. mem'.st = FreshState(binary)
    BY <1>2, <1>7 DEF Store
  <2>2. QED
    BY <2>1, <1>7, NoVersionAssumption DEF FreshState, Launchable, SupersededStaysOut, ActiveKept,
       CandidateIsUnproven
<1>8. ASSUME BestEffort([mem EXCEPT !.breadcrumb = FALSE])
      PROVE  mem'.st = mem.st
  BY <1>2, <1>8 DEF BestEffort, Commit, store, Store
<1>a. CASE UNCHANGED vars
  BY <1>a, <1>5 DEF vars
<1>b. CASE Environment
  <2>1. CASE UpgradeBinary \/ FlushApply
    BY <2>1, <1>4 DEF UpgradeBinary, FlushApply, store
  <2>2. CASE LoseFiles
    BY <2>2, <1>3 DEF LoseFiles, store, history, Launchable, SupersededStaysOut, ActiveKept,
       CandidateIsUnproven
  <2>3. CASE Die
    BY <2>3, <1>4 DEF Die, ProcessGone, MemIsOnDisk
  <2>4. QED
    BY <1>b, <2>1, <2>2, <2>3 DEF Environment
<1>c. CASE MainThread
  <2>1. CASE Construct
    <3>1. CASE mem.st.binary = binary
      BY <2>1, <3>1, <1>5 DEF Construct
    <3>2. CASE mem.st.binary # binary
      <4>1. SyncBinaryVersion(mem.st, binary) = FreshState(binary)
        BY <3>2 DEF SyncBinaryVersion
      <4>2. QED
        BY <2>1, <3>2, <4>1, <1>7 DEF Construct, Commit
    <3>3. QED
      BY <3>1, <3>2
  <2>2. CASE Launch
    BY <2>2, <1>1, GetBundleUrlLaunchable DEF Launch
  <2>3. CASE Reload \/ JsCrash
    BY <2>3, <1>5 DEF Reload, JsCrash
  <2>4. QED
    BY <1>c, <2>1, <2>2, <2>3 DEF MainThread
<1>d. CASE JsThread
  <2>1. CASE ConsumeLaunchMarkers
    BY <2>1, <1>2, <1>4, MarkersConsumedIs DEF ConsumeLaunchMarkers
  <2>2. CASE JsCalls \/ CallDownload
    BY <2>2, <1>5 DEF JsCalls, CallDownload
  <2>3. QED
    BY <1>d, <2>1, <2>2 DEF JsThread
<1>e. CASE SerialThread
  <2>1. CASE VerifySwitchTarget
    BY <2>1, <1>5 DEF VerifySwitchTarget
  <2>2. CASE SwitchVersionCommit
    <3>1. serial.arg \in dirs
      BY <2>2, <1>1 DEF SwitchVersionCommit, Calling, VerifiedTargetsIntact
    <3>2. mem'.st = SwitchVersion(mem.st, serial.arg)
      BY <2>2, <1>2 DEF SwitchVersionCommit, Commit, Store
    <3>3. QED
      BY <2>2, <3>1, <3>2, <1>6 DEF SwitchVersionCommit
  <2>3. CASE ResolveReload
    BY <2>3, <1>1, GetBundleUrlLaunchable DEF ResolveReload
  <2>4. CASE MarkSuccessCall
    <3>1. mem'.st = MarkSuccess(mem.st)
      BY <2>4, <1>2 DEF MarkSuccessCall, Commit, Store
    <3>2. mem'.st.current = mem.st.current /\ mem'.st.last \in {mem.st.last, NoVersion}
      BY <3>1, <1>2 DEF MarkSuccess, State
    <3>3. QED
      BY <2>4, <3>2, <1>2, <1>3, NoVersionAssumption DEF MarkSuccessCall, Launchable,
         SupersededStaysOut, ActiveKept, CandidateIsUnproven
  <2>5. CASE ResetToPackagedBundle
    BY <2>5, <1>5, <1>7 DEF ResetToPackagedBundle, Commit
  <2>6. CASE SetNativeConfig
    <3>1. mem'.st = mem.st
      BY <2>6, <1>2 DEF SetNativeConfig, Commit, store, Store
    <3>2. QED
      BY <2>6, <3>1, <1>4 DEF SetNativeConfig
  <2>7. QED
    BY <1>e, <2>1, <2>2, <2>3, <2>4, <2>5, <2>6 DEF SerialThread
<1>f. CASE RoundThread
  <2>1. CASE StartRound
    <3>1. mem'.st = mem.st
      BY <2>1, <1>2 DEF StartRound, Commit, Store
    <3>2. QED
      BY <2>1, <3>1, <1>4 DEF StartRound
  <2>2. CASE RoundResponse
    <3>1. mem'.st = mem.st
      BY <2>2, <1>8 DEF RoundResponse, EndRound, store
    <3>2. QED
      BY <2>2, <3>1, <1>4 DEF RoundResponse
  <2>3. CASE RoundTimeout
    BY <2>3, <1>5 DEF RoundTimeout
  <2>4. CASE RoundVerify
    <3>1. mem'.st = mem.st
      BY <2>4, <1>8 DEF RoundVerify, EndRound, store
    <3>2. QED
      BY <2>4, <3>1, <1>4 DEF RoundVerify
  <2>5. CASE RoundCommit
    <3>1. CASE Superseded(round.generation)
      BY <2>5, <3>1, <1>4, <1>8 DEF RoundCommit, EndRound
    <3>2. CASE ~Superseded(round.generation) /\ round.activate
      <4>1. round.version \in dirs /\ round.fresh
        BY <2>5, <3>2, <1>1 DEF RoundCommit, VerifiedTargetsIntact, Quiet, CommitsWithoutSwitch,
           Superseded, FreshIfCurrent
      <4>2. mem'.st = SwitchVersion(mem.st, round.version) /\ Activates(round.version, TRUE)
        BY <2>5, <3>2, <4>1, <1>2 DEF RoundCommit, CommitSyncResult, Commit, Store, Activates
      <4>3. QED
        BY <2>5, <4>1, <4>2, <1>6 DEF RoundCommit
    <3>3. CASE ~Superseded(round.generation) /\ ~round.activate
      <4>1. mem'.st = mem.st /\ UNCHANGED history
        BY <2>5, <3>3, <1>2 DEF RoundCommit, CommitSyncResult, Commit, Store
      <4>2. QED
        BY <2>5, <4>1, <1>4 DEF RoundCommit
    <3>4. QED
      BY <3>1, <3>2, <3>3
  <2>6. QED
    BY <1>f, <2>1, <2>2, <2>3, <2>4, <2>5 DEF RoundThread
<1>g. CASE HoldThread
  <2>1. CASE HoldVerify
    BY <2>1, <1>5 DEF HoldVerify
  <2>2. CASE HoldActivate
    <3>1. CASE Superseded(unactivated.generation)
      BY <2>2, <3>1, <1>5 DEF HoldActivate
    <3>2. CASE ~Superseded(unactivated.generation)
      <4>1. unactivated.version \in dirs /\ unactivated.fresh
        BY <2>2, <3>2, <1>1, <1>2, NoVersionAssumption DEF HoldActivate, VerifiedTargetsIntact,
           Superseded, FreshIfCurrent
      <4>2. mem'.st = SwitchVersion(mem.st, unactivated.version)
            /\ Activates(unactivated.version, TRUE)
        BY <2>2, <3>2, <4>1, <1>2 DEF HoldActivate, CommitSyncResult, Commit, Store, Activates
      <4>3. QED
        BY <2>2, <4>1, <4>2, <1>6 DEF HoldActivate
    <3>3. QED
      BY <3>1, <3>2
  <2>3. QED
    BY <1>g, <2>1, <2>2 DEF HoldThread
<1>h. CASE Executor
  <2>1. UNCHANGED <<mem, history>>
    BY <1>h DEF Executor, RunInstall, SelectKeepNames, DeleteVersions, store
  <2>2. CASE RunInstall \/ SelectKeepNames
    <3>1. dirs \subseteq dirs'
      BY <2>2 DEF RunInstall, SelectKeepNames
    <3>2. QED
      BY <2>1, <3>1, <1>3 DEF history, Launchable, SupersededStaysOut, ActiveKept,
         CandidateIsUnproven
  <2>3. CASE DeleteVersions
    <3>1. cleaning.active /\ dirs \cap cleaning.keep \subseteq dirs'
      BY <2>3 DEF DeleteVersions
    <3>2. QED
      BY <2>1, <3>1, <1>3 DEF history, KeepsActive, Launchable, SupersededStaysOut, ActiveKept,
         CandidateIsUnproven
  <2>4. QED
    BY <1>h, <2>2, <2>3 DEF Executor
<1>i. QED
  BY <1>a, <1>b, <1>c, <1>d, <1>e, <1>f, <1>g, <1>h DEF Next

(***************************************************************************)
(* What the launch rolled back                                             *)
(***************************************************************************)

(* The executor has an install for the round only while, or after, the     *)
(* round waits for that very version.                                      *)
JobsOfTheRound ==
    \A i \in 1..Len(queue) :
        queue[i].kind = "installForRound" =>
            /\ round.phase \notin {"idle", "started"}
            /\ round.phase = "waiting" => queue[i].version = round.version

(* Neither the round nor what it left to JS is about the version that the  *)
(* launch rolled back.                                                     *)
MarkIsRespected ==
    launchRolledBack # NoVersion => launchRolledBack \notin {round.version, unactivated.version}

RoundsOwn == JobsOfTheRound /\ MarkIsRespected

(* Where a job of the queue comes from.                                    *)
LEMMA EnqueuedJobs ==
    ASSUME queue \in Seq(Job), NEW j \in Job, Enqueue(j)
    PROVE  \A i \in 1..Len(queue') : \/ queue'[i] = j
                                     \/ i \in 1..Len(queue) /\ queue'[i] = queue[i]
BY DEF Enqueue

(* And what is left when the first one is done.                            *)
LEMMA DequeuedJobs ==
    ASSUME queue \in Seq(Job), queue # <<>>, queue' = Tail(queue)
    PROVE  \A i \in 1..Len(queue') : i + 1 \in 1..Len(queue) /\ queue'[i] = queue[i + 1]
OBVIOUS

(* A job that is not the round's, or one less, changes nothing; and the    *)
(* round asks for one version, which it does not take back for another.    *)
LEMMA JobsStep == IInv /\ Quiet /\ JobsOfTheRound /\ [Next]_vars => JobsOfTheRound'
<1> SUFFICES ASSUME IInv, Quiet, JobsOfTheRound, [Next]_vars PROVE JobsOfTheRound'
  OBVIOUS
<1>1. queue \in Seq(Job) /\ round \in Round /\ LocksHeld /\ DeadIsQuiet
  BY DEF IInv, TypeOK, ThreadTypeOK
<1>2. ASSUME UNCHANGED queue, round'.phase = round.phase, round'.version = round.version
      PROVE  JobsOfTheRound'
  BY <1>2 DEF JobsOfTheRound
<1>3. ASSUME UNCHANGED queue, round.phase # "idle",
             round'.phase \notin {"idle", "started", "waiting"}
      PROVE  JobsOfTheRound'
  BY <1>3 DEF JobsOfTheRound
<1>4. ASSUME NEW kind \in {"cleanupAll", "cleanupOld"}, Enqueue(Cleanup(kind)),
             round'.phase = round.phase, round'.version = round.version
      PROVE  JobsOfTheRound'
  BY <1>1, <1>4, EnqueuedJobs, JobTypes DEF Cleanup, JobsOfTheRound
<1>5. ASSUME queue # <<>>, queue' = Tail(queue),
             \/ UNCHANGED round
             \/ round'.phase \notin {"idle", "started", "waiting"}
      PROVE  JobsOfTheRound'
  BY <1>1, <1>5, DequeuedJobs DEF JobsOfTheRound
<1>6. ASSUME EndRound
      PROVE  round'.phase = "done"
  BY <1>1, <1>6 DEF EndRound, Round
<1>7. /\ NothingToInstall.phase = "commit"
      /\ \A v \in Version, decided \in BOOLEAN : Ready(v, decided).phase \in {"verify", "commit"}
  BY <1>1 DEF NothingToInstall, Ready, Round
<1>a. CASE UNCHANGED vars
  BY <1>a, <1>2 DEF vars, rescue, executor
<1>b. CASE Environment
  BY <1>b, <1>2 DEF Environment, UpgradeBinary, LoseFiles, FlushApply, Die, ProcessGone,
     rescue, executor, JobsOfTheRound
<1>c. CASE MainThread
  BY <1>c, <1>2, <1>4 DEF MainThread, Construct, Launch, Reload, JsCrash, rescue, executor
<1>d. CASE JsThread
  <2>1. CASE ConsumeLaunchMarkers
    BY <2>1, <1>2, <1>4 DEF ConsumeLaunchMarkers, rescue, executor
  <2>2. CASE JsCalls
    BY <2>2, <1>2 DEF JsCalls, rescue, executor
  <2>3. CASE CallDownload
    <3>1. PICK v \in Version : Enqueue([kind |-> "install", version |-> v])
      BY <2>3 DEF CallDownload
    <3>2. \A i \in 1..Len(queue') : \/ queue'[i] = [kind |-> "install", version |-> v]
                                    \/ i \in 1..Len(queue) /\ queue'[i] = queue[i]
      BY <1>1, <3>1, EnqueuedJobs, JobTypes
    <3>3. QED
      BY <2>3, <3>2 DEF CallDownload, rescue, JobsOfTheRound
  <2>4. QED
    BY <1>d, <2>1, <2>2, <2>3 DEF JsThread
<1>e. CASE SerialThread
  <2>1. round'.phase = round.phase /\ round'.version = round.version
    BY <1>e, <1>1 DEF SerialThread, VerifySwitchTarget, SwitchVersionCommit, ResolveReload,
       MarkSuccessCall, ResetToPackagedBundle, SetNativeConfig, Supersede, rescue, Round
  <2>2. UNCHANGED queue \/ \E kind \in {"cleanupAll", "cleanupOld"} : Enqueue(Cleanup(kind))
    BY <1>e DEF SerialThread, VerifySwitchTarget, SwitchVersionCommit, ResolveReload,
       MarkSuccessCall, ResetToPackagedBundle, SetNativeConfig, executor
  <2>3. QED
    BY <2>1, <2>2, <1>2, <1>4
<1>f. CASE RoundThread
  <2>1. CASE StartRound
    BY <2>1 DEF StartRound, executor, JobsOfTheRound
  <2>2. CASE RoundResponse
    <3>1. CASE UNCHANGED queue /\ round'.phase \in {"done", "commit", "verify"}
      BY <2>2, <3>1, <1>3 DEF RoundResponse
    <3>2. ASSUME NEW v \in Version, NEW activate \in BOOLEAN,
                 round' = [round EXCEPT !.phase = "waiting", !.version = v, !.activate = activate],
                 Enqueue([kind |-> "installForRound", version |-> v])
          PROVE  JobsOfTheRound'
      <4>1. round'.phase = "waiting" /\ round'.version = v
        BY <1>1, <3>2 DEF Round
      <4>2. \A i \in 1..Len(queue) : queue[i].kind # "installForRound"
        BY <2>2 DEF RoundResponse, JobsOfTheRound
      <4>3. \A i \in 1..Len(queue') : \/ queue'[i] = [kind |-> "installForRound", version |-> v]
                                      \/ i \in 1..Len(queue) /\ queue'[i] = queue[i]
        BY <1>1, <3>2, EnqueuedJobs, JobTypes
      <4>4. QED
        BY <4>1, <4>2, <4>3 DEF JobsOfTheRound
    <3>3. QED
      BY <2>2, <3>1, <3>2, <1>6, <1>7 DEF RoundResponse, executor
  <2>3. CASE RoundTimeout
    BY <2>3, <1>3, <1>7 DEF RoundTimeout, executor
  <2>4. CASE RoundVerify
    <3>1. round'.phase \in {"verified", "done"}
      BY <2>4, <1>1, <1>6 DEF RoundVerify, Round
    <3>2. QED
      BY <2>4, <3>1, <1>3 DEF RoundVerify, executor
  <2>5. CASE RoundCommit
    <3>1. round'.phase = "done"
      BY <2>5, <1>1, <1>6 DEF RoundCommit, Round
    <3>2. QED
      BY <2>5, <3>1, <1>3 DEF RoundCommit, executor
  <2>6. QED
    BY <1>f, <2>1, <2>2, <2>3, <2>4, <2>5 DEF RoundThread
<1>g. CASE HoldThread
  BY <1>g, <1>2 DEF HoldThread, HoldVerify, HoldActivate, executor
<1>h. CASE Executor
  <2>1. CASE RunInstall
    <3>1. round' = round \/ round'.phase \in {"verify", "commit"}
      BY <2>1, <1>1 DEF RunInstall, Ready, NothingToInstall, Round
    <3>2. QED
      BY <2>1, <3>1, <1>5 DEF RunInstall, Idle
  <2>2. CASE SelectKeepNames
    BY <2>2, <1>2 DEF SelectKeepNames, rescue
  <2>3. CASE DeleteVersions
    BY <2>3, <1>1, <1>5 DEF DeleteVersions, rescue, LocksHeld
  <2>4. QED
    BY <1>h, <2>1, <2>2, <2>3 DEF Executor
<1>i. QED
  BY <1>a, <1>b, <1>c, <1>d, <1>e, <1>f, <1>g, <1>h DEF Next

(* Nothing the mark is compared with takes the version it condemned.       *)
LEMMA MarkIsRespectedStep ==
    IInv /\ Quiet /\ JobsOfTheRound /\ MarkIsRespected /\ [Next]_vars => MarkIsRespected'
<1> SUFFICES ASSUME IInv, Quiet, JobsOfTheRound, MarkIsRespected, [Next]_vars
             PROVE  MarkIsRespected'
  OBVIOUS
<1>1. queue \in Seq(Job) /\ round \in Round /\ unactivated \in Unactivated /\ NotUpIsQuiet
      /\ LocksHeld
  BY DEF IInv, TypeOK, ThreadTypeOK, Quiet
<1>2. ASSUME UNCHANGED launchRolledBack, round'.version \in {round.version, NoVersion},
             unactivated'.version \in {round.version, unactivated.version, NoVersion}
      PROVE  MarkIsRespected'
  BY <1>2 DEF MarkIsRespected
<1>3. ASSUME UNCHANGED <<launchRolledBack, round, unactivated>>
      PROVE  MarkIsRespected'
  BY <1>2, <1>3
<1>4. ASSUME EndRound
      PROVE  round'.version = round.version
  BY <1>1, <1>4 DEF EndRound, Round
<1>5. /\ NothingToInstall.version = NoVersion
      /\ \A v \in Version : \A decided : Ready(v, decided).version = v
  BY <1>1 DEF NothingToInstall, Ready, Round
<1>6. ASSUME Supersede
      PROVE  round'.version = round.version /\ unactivated'.version = unactivated.version
  BY <1>1, <1>6 DEF Supersede, Round, Unactivated
<1>a. CASE UNCHANGED vars
  BY <1>a, <1>3 DEF vars, launch, rescue
<1>b. CASE Environment
  BY <1>b, <1>3 DEF Environment, UpgradeBinary, LoseFiles, FlushApply, Die, ProcessGone,
     launch, rescue, MarkIsRespected
<1>c. CASE MainThread
  <2>1. CASE Launch
    BY <2>1, <1>1 DEF Launch, NotUpIsQuiet, NoRound, NothingPending, MarkIsRespected
  <2>2. CASE Construct \/ Reload \/ JsCrash
    BY <2>2, <1>3 DEF Construct, Reload, JsCrash, launch, rescue
  <2>3. QED
    BY <1>c, <2>1, <2>2 DEF MainThread
<1>d. CASE JsThread
  BY <1>d, <1>3 DEF JsThread, ConsumeLaunchMarkers, JsCalls, CallDownload, launch, rescue
<1>e. CASE SerialThread
  BY <1>e, <1>2, <1>3, <1>6 DEF SerialThread, VerifySwitchTarget, SwitchVersionCommit,
     ResolveReload, MarkSuccessCall, ResetToPackagedBundle, SetNativeConfig, launch, rescue
<1>f. CASE RoundThread
  <2>1. CASE StartRound
    BY <2>1, <1>2 DEF StartRound, NoRound, launch
  <2>2. CASE RoundResponse
    <3>1. CASE EndRound \/ round' = NothingToInstall
      BY <2>2, <3>1, <1>2, <1>4, <1>5 DEF RoundResponse, launch
    <3>2. ASSUME NEW v \in Version, NEW activate \in BOOLEAN, Wanted(v),
                 \/ round' = Ready(v, activate)
                 \/ round' = [round EXCEPT !.phase = "waiting", !.version = v,
                                           !.activate = activate]
          PROVE  MarkIsRespected'
      <4>1. round'.version = v
        BY <3>2, <1>1, <1>5 DEF Round
      <4>2. v # launchRolledBack
        BY <3>2 DEF Wanted
      <4>3. QED
        BY <2>2, <4>1, <4>2 DEF RoundResponse, launch, MarkIsRespected
    <3>3. QED
      BY <2>2, <3>1, <3>2 DEF RoundResponse
  <2>3. CASE RoundTimeout
    BY <2>3, <1>2, <1>5 DEF RoundTimeout, launch
  <2>4. CASE RoundVerify
    <3>1. round'.version = round.version
      BY <2>4, <1>1, <1>4 DEF RoundVerify, Round
    <3>2. QED
      BY <2>4, <3>1, <1>2 DEF RoundVerify, launch
  <2>5. CASE RoundCommit
    <3>1. round'.version = round.version
      BY <2>5, <1>1, <1>4 DEF RoundCommit, Round
    <3>2. unactivated'.version \in {round.version, unactivated.version, NoVersion}
      BY <2>5 DEF RoundCommit, Unactivate, NothingPending
    <3>3. QED
      BY <2>5, <3>1, <3>2, <1>2 DEF RoundCommit
  <2>6. QED
    BY <1>f, <2>1, <2>2, <2>3, <2>4, <2>5 DEF RoundThread
<1>g. CASE HoldThread
  <2>1. UNCHANGED <<launchRolledBack, round>> /\ unactivated' \in {unactivated, NothingPending}
    BY <1>g DEF HoldThread, HoldVerify, HoldActivate, launch
  <2>2. QED
    BY <2>1, <1>2 DEF NothingPending
<1>h. CASE Executor
  <2>1. CASE RunInstall
    <3>1. queue # <<>> /\ Head(queue) = queue[1] /\ 1 \in 1..Len(queue)
      BY <2>1, <1>1 DEF RunInstall, Idle
    <3>2. Head(queue).kind = "installForRound" /\ round.phase = "waiting"
            => Head(queue).version = round.version /\ round.version \in Version
      BY <3>1 DEF JobsOfTheRound, IInv, RoundShape
    <3>3. round'.version \in {round.version, NoVersion}
      BY <2>1, <3>2, <1>5 DEF RunInstall
    <3>4. QED
      BY <2>1, <3>3, <1>2 DEF RunInstall, launch
  <2>2. CASE SelectKeepNames \/ DeleteVersions
    BY <2>2, <1>3 DEF SelectKeepNames, DeleteVersions, launch, rescue
  <2>3. QED
    BY <1>h, <2>1, <2>2 DEF Executor
<1>i. QED
  BY <1>a, <1>b, <1>c, <1>d, <1>e, <1>f, <1>g, <1>h DEF Next

(* So only a switch JS asks for brings it back.                            *)
LEMMA RolledBackStep ==
    ASSUME IInv, Quiet, Kept, MarkIsRespected, [Next]_vars,
           launchRolledBack # NoVersion, BecomesCurrent(launchRolledBack)
    PROVE  serial.step = "verified" /\ serial.arg = launchRolledBack
<1>1. GoodStores /\ GoodStore(mem) /\ mem \in Store /\ mem.st \in State
      /\ ignoreRollback \in BOOLEAN /\ round \in Round /\ dirs \subseteq Version
  BY GoodStoresDef DEF IInv, TypeOK, StoreTypeOK, DeviceTypeOK, ThreadTypeOK, GoodStores,
     GoodStore, Store
<1>2. process = "up"
  BY DEF Quiet, NotUpIsQuiet
<1>3. mem'.st.current # mem.st.current /\ mem'.st.current # NoVersion
  BY DEF BecomesCurrent
<1>4. launchRolledBack \notin {round.version, unactivated.version}
  BY DEF MarkIsRespected
<1>5. ASSUME NEW v \in Version, mem'.st = SwitchVersion(mem.st, v)
      PROVE  v = launchRolledBack
  BY <1>1, <1>5, SwitchedIs DEF BecomesCurrent
<1>6. ASSUME PersistLaunch
      PROVE  FALSE
  <2>1. /\ ignoreRollback \/ mem.st.firstTime \/ mem.st.firstTimeOk
        /\ mem.st.current \in dirs \cup {NoVersion}
    BY <1>2 DEF Kept, NoRollbackWhileUp
  <2>2. ~DidRollback(mem.st, ignoreRollback) /\ ~Missing(mem.st.current)
    BY <2>1, NoVersionAssumption DEF DidRollback, ShouldRollbackForBrokenFirstLoad, Missing
  <2>3. mem' = Launched
    BY <1>6, LaunchPersisted
  <2>4. Launched.st.current = mem.st.current
    BY <1>1, <2>2, LaunchedIs
  <2>5. QED
    BY <1>3, <2>3, <2>4
<1>7. ASSUME BestEffort([mem EXCEPT !.breadcrumb = FALSE])
      PROVE  mem'.st = mem.st
  BY <1>1, <1>7 DEF BestEffort, Commit, store, Store
<1>a. ~UNCHANGED vars
  BY <1>3 DEF vars, store
<1>b. ~Environment
  BY <1>3 DEF Environment, UpgradeBinary, LoseFiles, FlushApply, Die, ProcessGone, store,
     BecomesCurrent
<1>c. ~MainThread
  BY <1>2, <1>3 DEF MainThread, Construct, Launch, Reload, JsCrash, store
<1>d. ~JsThread
  BY <1>1, <1>3, MarkersConsumedIs DEF JsThread, JsCalls, CallDownload, store
<1>e. CASE SerialThread
  <2>1. CASE SwitchVersionCommit
    <3>1. serial.step = "verified" /\ serial.arg \in Version
      BY <2>1, <1>1 DEF SwitchVersionCommit, Calling, IInv, VerifiedTargetsIntact
    <3>2. mem'.st = SwitchVersion(mem.st, serial.arg)
      BY <2>1, <1>1 DEF SwitchVersionCommit, Commit, Store
    <3>3. QED
      BY <3>1, <3>2, <1>5
  <2>2. ~MarkSuccessCall
    <3>1. MarkSuccess(mem.st).current = mem.st.current
      BY <1>1 DEF MarkSuccess, State
    <3>2. QED
      BY <3>1, <1>1, <1>3 DEF MarkSuccessCall, Commit, Store
  <2>3. ~ResetToPackagedBundle
    <3>1. FreshState(binary).current = NoVersion
      BY DEF FreshState
    <3>2. QED
      BY <3>1, <1>1, <1>3 DEF ResetToPackagedBundle, Commit, store, Store
  <2>4. ~(VerifySwitchTarget \/ ResolveReload \/ SetNativeConfig)
    BY <1>1, <1>3, <1>6 DEF VerifySwitchTarget, ResolveReload, GetBundleUrl, SetNativeConfig,
       Commit, store, Store
  <2>5. QED
    BY <1>e, <2>1, <2>2, <2>3, <2>4 DEF SerialThread
<1>f. ~RoundThread
  <2>1. ~(StartRound \/ RoundResponse \/ RoundTimeout \/ RoundVerify)
    BY <1>1, <1>3, <1>7 DEF StartRound, RoundResponse, RoundTimeout, RoundVerify, EndRound, Commit,
       store, Store
  <2>2. ASSUME RoundCommit
        PROVE  FALSE
    <3>1. ~Superseded(round.generation) /\ round.activate
      BY <2>2, <1>1, <1>3, <1>7 DEF RoundCommit, EndRound, CommitSyncResult, Commit, Store
    <3>2. round.version \in Version
      BY <3>1 DEF IInv, RoundShape
    <3>3. mem'.st = SwitchVersion(mem.st, round.version)
      BY <2>2, <3>1, <1>1 DEF RoundCommit, CommitSyncResult, Commit, Store
    <3>4. QED
      BY <3>2, <3>3, <1>4, <1>5
  <2>3. QED
    BY <2>1, <2>2 DEF RoundThread
<1>g. ~HoldThread
  <2>1. ~HoldVerify
    BY <1>3 DEF HoldVerify, store
  <2>2. ASSUME HoldActivate
        PROVE  FALSE
    <3>1. unactivated.version \in Version
      BY <2>2, <1>1 DEF HoldActivate, IInv, VerifiedTargetsIntact
    <3>2. mem'.st = SwitchVersion(mem.st, unactivated.version)
      BY <2>2, <1>1, <1>3 DEF HoldActivate, CommitSyncResult, Commit, store, Store
    <3>3. QED
      BY <3>1, <3>2, <1>4, <1>5
  <2>3. QED
    BY <2>1, <2>2 DEF HoldThread
<1>h. ~Executor
  BY <1>3 DEF Executor, RunInstall, SelectKeepNames, DeleteVersions, store
<1>i. QED
  BY <1>a, <1>b, <1>c, <1>d, <1>e, <1>f, <1>g, <1>h DEF Next

(***************************************************************************)
(* The theorems about launches, rounds and deaths                          *)
(***************************************************************************)

(* What every process keeps, whichever faults are switched on.             *)
Running == Quiet /\ Kept /\ FreshIfCurrent /\ MarkOfTheRound /\ JobsOfTheRound /\ MarkIsRespected

(* It holds of a new installation, and every step preserves it.            *)
LEMMA RunningInvariance == Spec => []Running
<1>1. Init => Running
  BY DEF Init, NoJs, NoRound, NothingPending, NotCleaning, Running, Quiet, NotUpIsQuiet,
     CommitsWithoutSwitch, Kept, KeepsActive, LaunchVersionKept, NoRollbackWhileUp,
     FreshIfCurrent, MarkOfTheRound, JobsOfTheRound, MarkIsRespected
<1>2. IInv /\ Running /\ [Next]_vars => Running'
  BY QuietStep, KeptStep, FreshStep, MarkStep, JobsStep, MarkIsRespectedStep DEF Running
<1>3. QED
  BY <1>1, <1>2, Invariance, PTL DEF Spec

(* No cleanup and no failed install takes the version this process runs    *)
(* from away, whichever commits fail (CleanupKeepNames, versionFilesLock). *)
THEOREM LaunchVersionStays == Spec => []LaunchVersionKept
<1>1. Running => LaunchVersionKept
  BY DEF Running, Kept
<1>2. QED
  BY <1>1, RunningInvariance, PTL

(* What the launch rolled back becomes current again in this process only  *)
(* by a switch JS asks for, whichever commits fail                         *)
(* (sLaunchRolledBackVersion, decideDownload).                             *)
THEOREM RollbackIsRespected == Spec => RolledBackStaysOut
<1>1. IInv /\ Running /\ [Next]_vars
        => [launchRolledBack # NoVersion /\ BecomesCurrent(launchRolledBack)
              => serial.step = "verified" /\ serial.arg = launchRolledBack]_vars
  BY RolledBackStep DEF Running
<1>2. QED
  BY <1>1, Invariance, RunningInvariance, PTL DEF Spec, RolledBackStaysOut

(* Where commits to the cache reach the disk, the response JS may reuse    *)
(* was never obtained before the last reset, upgrade or configuration      *)
(* change (clearNativeCheckCache, commitSyncResult's generation).          *)
THEOREM CacheStaysFresh ==
    ASSUME ~CacheWritesMayFail
    PROVE  Spec => []CacheIsFresh
<1>1. Init => CacheKept
  BY DEF Init, CacheKept, CacheIsFresh
<1>2. IInv /\ Running /\ CacheKept /\ [Next]_vars => CacheKept'
  BY CacheStep DEF Running
<1>3. CacheKept => CacheIsFresh
  BY DEF CacheKept
<1>4. QED
  BY <1>1, <1>2, <1>3, Invariance, RunningInvariance, PTL DEF Spec

(* What the state says survives a death.                                   *)
LEMMA DiskInvariance ==
    ASSUME ~StateWritesMayFail
    PROVE  Spec => []MemIsOnDisk
<1>1. Init => MemIsOnDisk
  BY DEF Init, MemIsOnDisk
<1>2. IInv /\ MemIsOnDisk /\ [Next]_vars => MemIsOnDisk'
  BY DiskStep
<1>3. QED
  BY <1>1, <1>2, Invariance, PTL DEF Spec

(* Nor does a death make a state launchable that should not be.            *)
LEMMA LaunchableInvariance ==
    ASSUME ~StateWritesMayFail
    PROVE  Spec => []Launchable
<1>1. Init => Launchable
  <2>1. ASSUME Init
        PROVE  mem.st.current = NoVersion /\ mem.st.last = NoVersion
    BY <2>1 DEF Init, FreshState
  <2>2. QED
    BY <2>1 DEF Init, Launchable, SupersededStaysOut, ActiveKept, CandidateIsUnproven
<1>2. IInv /\ Running /\ MemIsOnDisk /\ Launchable /\ [Next]_vars => Launchable'
  BY LaunchableStep DEF Running
<1>3. QED
  BY <1>1, <1>2, Invariance, RunningInvariance, DiskInvariance, PTL DEF Spec

(* Where commits to the state reach the disk, the breadcrumb a restart     *)
(* would read says exactly whether a round was cut short (runOnce,         *)
(* commitSyncResultState).                                                 *)
THEOREM BreadcrumbIsExact ==
    ASSUME ~StateWritesMayFail
    PROVE  Spec => []BreadcrumbMeansInterrupted
<1>1. Running /\ MemIsOnDisk => BreadcrumbMeansInterrupted
  BY DEF Running, MarkOfTheRound, MemIsOnDisk, BreadcrumbMeansInterrupted
<1>2. QED
  BY <1>1, RunningInvariance, DiskInvariance, PTL

(* There, what a reset, an upgrade or a new configuration superseded       *)
(* neither becomes current nor the fallback, and is not brought back by a  *)
(* crash at any moment (resetGeneration).                                  *)
THEOREM SupersededStays ==
    ASSUME ~StateWritesMayFail
    PROVE  Spec => []SupersededStaysOut
<1>1. Launchable => SupersededStaysOut
  BY DEF Launchable
<1>2. QED
  BY <1>1, LaunchableInvariance, PTL

(* If bundles do not vanish by themselves either, the version to launch    *)
(* and its fallback are on disk, as this process and as the next sees them.*)
THEOREM ActiveVersionsStay ==
    ASSUME ~StateWritesMayFail, ~FilesMayVanish
    PROVE  Spec => []ActiveVersionsKept
<1>1. Launchable /\ MemIsOnDisk => ActiveVersionsKept
  BY DEF Launchable, ActiveKept, MemIsOnDisk, ActiveVersionsKept
<1>2. QED
  BY <1>1, LaunchableInvariance, DiskInvariance, PTL

(* And a version that used up its one first launch unconfirmed is not what *)
(* the next process loads: a crash loop ends after one crash.              *)
THEOREM CrashLoopEnds ==
    ASSUME ~StateWritesMayFail
    PROVE  Spec => CrashLoopBroken
<1>1. ASSUME IInv, Running, Launchable, [Next]_vars, process = "constructed", process' = "up"
      PROVE  js'.bundle = NoVersion \/ js'.bundle # candidate
  <2>1. Launch
    BY <1>1 DEF Next, Environment, UpgradeBinary, LoseFiles, Die, ProcessGone, FlushApply,
       MainThread, Construct, Reload, JsCrash, JsThread, ConsumeLaunchMarkers, JsCalls,
       CallDownload, SerialThread, VerifySwitchTarget, SwitchVersionCommit, ResolveReload,
       MarkSuccessCall, ResetToPackagedBundle, SetNativeConfig, RoundThread, StartRound,
       RoundResponse, RoundTimeout, RoundVerify, RoundCommit, HoldThread, HoldVerify,
       HoldActivate, Executor, RunInstall, SelectKeepNames, DeleteVersions, launch, vars
  <2>2. js'.bundle = Launched.st.current
    BY <2>1 DEF Launch, NoJs
  <2>3. GoodStores /\ ~ignoreRollback /\ ignoreRollback \in BOOLEAN
    BY <1>1 DEF IInv, TypeOK, DeviceTypeOK, GoodStores, Running, Quiet, NotUpIsQuiet
  <2>4. candidate # NoVersion =>
          mem.st.current = candidate /\ DidRollback(mem.st, ignoreRollback)
    BY <1>1, <2>3 DEF Launchable, CandidateIsUnproven, DidRollback,
       ShouldRollbackForBrokenFirstLoad
  <2>5. QED
    BY <2>2, <2>3, <2>4, RollbackLeaves
<1>2. IInv /\ Running /\ Launchable /\ [Next]_vars
        => [process = "constructed" /\ process' = "up"
              => js'.bundle = NoVersion \/ js'.bundle # candidate]_vars
  BY <1>1
<1>3. QED
  BY <1>2, Invariance, RunningInvariance, LaunchableInvariance, PTL DEF Spec, CrashLoopBroken
=============================================================================
