-------------------------- MODULE NativeConfigSync ---------------------------
(***************************************************************************)
(* How the configuration of the native check follows the client's options  *)
(* (clientNativeConfig.ts): each setOptions records the wanted             *)
(* configuration, one bridge call at a time writes it on the native serial *)
(* thread (UpdateModule.syncNativeConfig), and the reply's continuations   *)
(* record it and send what is wanted by then.  A JS reload replaces the    *)
(* client while its call is still on its way; a host that owns the         *)
(* configuration writes it from its own thread (PushyRuntime.configure).   *)
(***************************************************************************)
EXTENDS Naturals, Sequences

CONSTANTS
    Config,        \* configurations, as the JSON text the client builds
    NoConfig,      \* options that describe none, and no configuration
    WritesMayFail, \* setNativeConfig may throw
    MaxChanges     \* bound: setOptions calls and reloads

ASSUME ConfigAssumption == NoConfig \notin Config /\ WritesMayFail \in BOOLEAN

VARIABLES
    options,  \* what the client's options say: a configuration, and its source
    pending,  \* pendingNativeConfigJson
    synced,   \* syncedNativeConfigJson
    writing,  \* the configuration in flight (nativeConfigSyncInFlight)
    calls,    \* the calls on the native serial thread; stale ones have no listener
    reply,    \* where the call's promise is
    stored,   \* the configuration native code reads
    changes,  \* counts what MaxChanges bounds
    \* History variables: no action's guard reads them.
    lastSent, \* the configuration of the last call
    failed,   \* that call failed
    crossed   \* the host wrote before that call's reply was seen

client == <<pending, synced, writing>>
last == <<lastSent, failed, crossed>>
vars == <<options, client, calls, reply, stored, changes, last>>

MaybeConfig == Config \cup {NoConfig}
Options == [config : MaybeConfig, source : {"javascript", "native"}]
WriteCall == [config : Config, stale : BOOLEAN]

TypeOK ==
    /\ options \in Options
    /\ pending \in MaybeConfig
    /\ synced \in MaybeConfig
    /\ writing \in MaybeConfig
    /\ calls \in Seq(WriteCall)
    /\ reply \in {"none", "resolved", "rejected", "settled"}
    /\ stored \in MaybeConfig
    /\ changes \in Nat
    /\ lastSent \in MaybeConfig
    /\ failed \in BOOLEAN
    /\ crossed \in BOOLEAN

Init ==
    /\ options = [config |-> NoConfig, source |-> "native"]
    /\ pending = NoConfig
    /\ synced = NoConfig
    /\ writing = NoConfig
    /\ calls = <<>>
    /\ reply = "none"
    /\ stored \in MaybeConfig
    /\ changes = 0
    /\ lastSent = NoConfig
    /\ failed = FALSE
    /\ crossed = FALSE

-----------------------------------------------------------------------------
(* Mutant: whatever is pending is sent.                                    *)
OnlyDedupe(wanted) == wanted = synced

NothingToWrite(wanted) == wanted \in {NoConfig, synced}

(* flushNativeConfig, with the wanted configuration and the one in flight. *)
Flush(wanted, inFlight) ==
    \/ /\ options'.source = "native"
       /\ pending' = NoConfig
       /\ synced' = NoConfig
       /\ writing' = inFlight
       /\ UNCHANGED <<calls, last>>
    \/ /\ options'.source = "javascript" /\ inFlight # NoConfig
       /\ pending' = wanted
       /\ writing' = inFlight
       /\ UNCHANGED <<synced, calls, last>>
    \/ /\ options'.source = "javascript" /\ inFlight = NoConfig
       /\ NothingToWrite(wanted)
       /\ pending' = NoConfig
       /\ writing' = NoConfig
       /\ UNCHANGED <<synced, calls, last>>
    \/ /\ options'.source = "javascript" /\ inFlight = NoConfig
       /\ ~NothingToWrite(wanted)
       /\ pending' = NoConfig
       /\ writing' = wanted
       /\ calls' = Append(calls, [config |-> wanted, stale |-> FALSE])
       /\ lastSent' = wanted
       /\ failed' = FALSE
       /\ crossed' = FALSE
       /\ UNCHANGED synced

(* Mutant: a configuration that was the last one written is not recorded.  *)
SyncUnlessSynced ==
    IF options'.source = "javascript" /\ options'.config \in {NoConfig, synced}
    THEN UNCHANGED <<client, calls, last>>
    ELSE Flush(options'.config, writing)

(* Options that describe no configuration leave everything as it is.       *)
SyncNativeConfig ==
    IF options'.source = "javascript" /\ options'.config = NoConfig
    THEN UNCHANGED <<client, calls, last>>
    ELSE Flush(options'.config, writing)

SetOptions ==
    /\ changes < MaxChanges
    /\ changes' = changes + 1
    /\ options' \in Options
    /\ SyncNativeConfig
    /\ UNCHANGED <<reply, stored>>

(* A reload: another client, which is given its options when it is made.   *)
(* What the old one sent is still carried out.                             *)
Reload ==
    /\ changes < MaxChanges
    /\ changes' = changes + 1
    /\ options' = [config |-> NoConfig, source |-> "native"]
    /\ pending' = NoConfig
    /\ synced' = NoConfig
    /\ writing' = NoConfig
    /\ reply' = "none"
    /\ calls' = [i \in DOMAIN calls |-> [calls[i] EXCEPT !.stale = TRUE]]
    /\ UNCHANGED <<stored, last>>

Settle(call, outcome) == reply' = IF call.stale THEN reply ELSE outcome

(* UpdateContext.setNativeConfig on the serial thread.  A write that does  *)
(* not reach the disk has changed the map in memory all the same; one that *)
(* fails on the response cache has changed nothing.                        *)
WriteSucceeds ==
    /\ calls # <<>>
    /\ calls' = Tail(calls)
    /\ stored' = Head(calls).config
    /\ Settle(Head(calls), "resolved")
    /\ UNCHANGED <<options, client, changes, last>>

WriteFails ==
    /\ WritesMayFail
    /\ calls # <<>>
    /\ calls' = Tail(calls)
    /\ stored' \in {stored, Head(calls).config}
    /\ Settle(Head(calls), "rejected")
    /\ failed' = (failed \/ ~Head(calls).stale)
    /\ UNCHANGED <<options, client, changes, lastSent, crossed>>

(* PushyRuntime.configure, while the host owns the configuration.          *)
HostConfigures ==
    /\ options.source = "native"
    /\ changes < MaxChanges
    /\ changes' = changes + 1
    /\ stored' \in Config
    /\ crossed' = (writing # NoConfig)
    /\ UNCHANGED <<options, client, calls, reply, lastSent, failed>>

OnWritten ==
    /\ reply = "resolved"
    /\ reply' = "settled"
    /\ synced' = IF options.source = "native" THEN synced ELSE writing
    /\ UNCHANGED <<options, pending, writing, calls, stored, changes, last>>

(* Mutant: the finally clause belongs to the success alone.                *)
ForgetRejected ==
    /\ reply = "rejected"
    /\ reply' = "none"
    /\ UNCHANGED <<options, client, calls, stored, changes, last>>

OnRejected ==
    /\ reply = "rejected"
    /\ reply' = "settled"
    /\ UNCHANGED <<options, client, calls, stored, changes, last>>

(* The finally clause: whatever came of the call, what is wanted by now is *)
(* sent.                                                                   *)
OnSettled ==
    /\ reply = "settled"
    /\ reply' = "none"
    /\ UNCHANGED <<options, stored, changes>>
    /\ Flush(pending, NoConfig)

Native == WriteSucceeds \/ WriteFails
Continue == OnWritten \/ OnRejected \/ OnSettled

Next == SetOptions \/ Reload \/ HostConfigures \/ Native \/ Continue

(* The serial thread takes its jobs and the promise's continuations run.   *)
Spec == Init /\ [][Next]_vars /\ WF_vars(Native) /\ WF_vars(Continue)

-----------------------------------------------------------------------------
(* Nothing is in flight, on its way or waiting, JS owns the configuration  *)
(* and its options describe one.                                           *)
Quiet ==
    /\ options.source = "javascript"
    /\ options.config # NoConfig
    /\ pending = NoConfig /\ writing = NoConfig
    /\ calls = <<>> /\ reply = "none"

(* When things are quiet, native code reads the configuration the options  *)
(* describe: no setOptions, revert, reload or change of owner is lost to   *)
(* the dedupe or to a call in flight (flushNativeConfig).  Left out are a  *)
(* failed call and a host that wrote between a call and its reply.         *)
QuietMeansStored == Quiet /\ ~failed /\ ~crossed => stored = options.config

(* syncNativeConfig's comment: the latest wanted value is recorded even    *)
(* when it equals the last completed write, for a revert must not leave    *)
(* native storage at what an in-flight write stored.  A failed write of    *)
(* the wanted configuration itself is no revert and is not retried.        *)
RevertIsStored ==
    Quiet /\ ~crossed => stored = options.config \/ (failed /\ lastSent = options.config)

(* syncNativeConfig's comment: a switch back to JS writes again instead of *)
(* deduping against a value native storage no longer holds.                *)
SwitchBackIsStored == Quiet /\ ~failed => stored = options.config

(* Every call is made and answered and nothing stays pending: a failure    *)
(* does not leave the flag up that lets no later call through.             *)
WritesRest == pending = NoConfig /\ writing = NoConfig /\ calls = <<>>
==============================================================================
