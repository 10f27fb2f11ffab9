----------------------------- MODULE ClientState ------------------------------
(***************************************************************************)
(* What the parts of the JS client share (clientState.ts).  The JS thread  *)
(* runs one continuation at a time; whatever happens between two awaits of *)
(* a call is one action of the module that models the call.                *)
(***************************************************************************)
EXTENDS Naturals, FiniteSets, Sequences

CONSTANTS
    Hash,     \* the versions a server offers
    NoHash,   \* undefined, where a hash may stand
    Caller,   \* business code that calls the client, each one call at a time
    NoCaller,
    MaxCalls  \* bound: calls the business code makes

ASSUME NoHashAssumption == NoHash \notin Hash
ASSUME NoCallerAssumption == NoCaller \notin Caller

VARIABLES
    downloadedHash,   \* the version switchVersion accepts
    downloadingTasks, \* per hash, the caller whose download is shared
    progressCallbacks,\* per hash, the callers its progress is told to
    apkStatus,
    marked,
    markingPromise,   \* the native markSuccess in flight, if any
    applyingUpdate,
    generation,       \* applyingUpdateGeneration
    reloadWatchdog,   \* reloadWatchdogTimer, named by the generation it is for
    installed,        \* native: the versions on disk
    named,            \* native: the versions whose hash info is stored
    callCount         \* counts what MaxCalls bounds

NoTimer == 0
MaybeHash == Hash \cup {NoHash}

sharedVars == <<downloadedHash, downloadingTasks, progressCallbacks, apkStatus,
                marked, markingPromise, applyingUpdate, generation, reloadWatchdog>>
nativeFiles == <<installed, named>>

ClientStateTypeOK ==
    /\ downloadedHash \in MaybeHash
    /\ downloadingTasks \in [Hash -> Caller \cup {NoCaller}]
    /\ progressCallbacks \in [Hash -> SUBSET Caller]
    /\ apkStatus \in {"none", "downloading", "downloaded"}
    /\ marked \in BOOLEAN
    /\ markingPromise \in {"none", "native", "settled"}
    /\ applyingUpdate \in BOOLEAN
    /\ generation \in Nat
    /\ reloadWatchdog \in Nat
    /\ installed \subseteq Hash
    /\ named \subseteq Hash
    /\ callCount \in Nat

(* createProcessState, when client.ts is evaluated in a new JS context.    *)
FreshShared ==
    /\ downloadedHash' = NoHash
    /\ downloadingTasks' = [h \in Hash |-> NoCaller]
    /\ progressCallbacks' = [h \in Hash |-> {}]
    /\ apkStatus' = "none"
    /\ marked' = FALSE
    /\ markingPromise' = "none"
    /\ applyingUpdate' = FALSE
    /\ generation' = 0
    /\ reloadWatchdog' = NoTimer

ClientStateInit ==
    /\ downloadedHash = NoHash
    /\ downloadingTasks = [h \in Hash |-> NoCaller]
    /\ progressCallbacks = [h \in Hash |-> {}]
    /\ apkStatus = "none"
    /\ marked = FALSE
    /\ markingPromise = "none"
    /\ applyingUpdate = FALSE
    /\ generation = 0
    /\ reloadWatchdog = NoTimer
    /\ installed \in {{}, Hash}
    /\ named = installed
    /\ callCount \in 0..MaxCalls

(* A call by the business code.                                            *)
Called == callCount < MaxCalls /\ callCount' = callCount + 1
=============================================================================
