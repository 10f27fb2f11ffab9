------------------------------ MODULE Downloader ------------------------------
(***************************************************************************)
(* JS downloads (clientDownload.ts): concurrent calls for one version      *)
(* share a task; the task tries the strategies of its plan, each over its  *)
(* mirrors in ranked order, and all of them again after a pause; what the  *)
(* download left is a version once its metadata is stored.                 *)
(***************************************************************************)
EXTENDS ClientState, Selection

CONSTANTS
    Plan,     \* the plans a response leads to: sequences of [type, urls]
    Redirect, \* where the winner of a HEAD race may have been redirected to
    MaxRetries

VARIABLES
    task,     \* per caller, its downloadUpdate call
    apkCalls, \* the native APK downloads under way
    wiped,    \* the tasks whose native download, or its result, a native reset
              \* fell into: its cleanup is queued behind a transfer in flight
    tainted   \* history: downloadedHash was left by such a task

taskVars == <<task, apkCalls, wiped, tainted>>
downloaderVars == <<sharedVars, nativeFiles, callCount, taskVars>>

Type(plan) == {plan[i].type : i \in DOMAIN plan}
Urls == UNION {UNION {Contents(p[i].urls) : i \in DOMAIN p} : p \in Plan}
Candidate == Urls \cup {Redirect}

ASSUME PlanAssumption ==
    /\ MaxRetries \in Nat
    /\ \A plan \in Plan : plan \in Seq([type : {"diff", "pdiff", "full"}, urls : Seq(Urls)])

(* ranked: the order of the next attempt, per strategy, once raced;        *)
(* order: the rest of this attempt's list, the mirror being tried first;   *)
(* tried and spoiled are history: the mirrors tried in this attempt, and   *)
(* the strategies whose bytes did not apply.                               *)
NoTask == [at |-> "idle", hash |-> NoHash, plan |-> <<>>, attempt |-> 0, next |-> 1,
           ranked |-> <<>>, order |-> <<>>, exhausted |-> {}, tried |-> {}, spoiled |-> {},
           with |-> NoCaller]

TaskPlace == {"idle", "hook", "joined", "rank", "native", "backoff", "persist", "settled", "failed"}

DownloaderTypeOK ==
    /\ \A c \in Caller :
        /\ task[c].at \in TaskPlace
        /\ task[c].hash \in MaybeHash
        /\ task[c].attempt \in 0..MaxRetries
        /\ task[c].plan \in Plan \cup {<<>>}
        /\ \A i \in DOMAIN task[c].ranked : Contents(task[c].ranked[i]) \subseteq Candidate
        /\ Contents(task[c].order) \subseteq Candidate
        /\ task[c].exhausted \subseteq Type(task[c].plan)
        /\ task[c].with \in Caller \cup {NoCaller}
    /\ apkCalls \in Nat
    /\ wiped \subseteq Caller
    /\ tainted \in BOOLEAN

DownloaderInit ==
    /\ task = [c \in Caller |-> NoTask]
    /\ apkCalls = 0
    /\ wiped = {}
    /\ tainted = FALSE

UnchangedByDownload ==
    UNCHANGED <<apkStatus, marked, markingPromise, applyingUpdate, generation,
                reloadWatchdog, apkCalls>>
UnchangedByTask ==
    /\ UnchangedByDownload
    /\ UNCHANGED <<downloadedHash, nativeFiles, callCount, wiped, tainted>>

Running(c) == task[c].at \in {"rank", "native", "backoff", "persist"}
Exposed(c) == task[c].at \in {"native", "persist"}
Transferring(c) == task[c].at \in {"rank", "native", "backoff"}

-----------------------------------------------------------------------------
(* The task after a strategy was left: the next one that is not exhausted, *)
(* whose mirrors are raced the first time; after the last, another attempt *)
(* unless nothing is left that it could change.                            *)
Left(t) == {i \in DOMAIN t.plan : i >= t.next /\ t.plan[i].type \notin t.exhausted}
AllExhausted(t) == Type(t.plan) \subseteq t.exhausted

NextStrategy(t) ==
    IF Left(t) # {}
    THEN LET i == CHOOSE i \in Left(t) : \A j \in Left(t) : i <= j
         IN  IF t.ranked[i] = <<>>
             THEN [t EXCEPT !.at = "rank", !.next = i]
             ELSE [t EXCEPT !.at = "native", !.next = i, !.order = t.ranked[i]]
    ELSE IF AllExhausted(t) \/ t.attempt = MaxRetries
         THEN [t EXCEPT !.at = "failed"]
         ELSE [t EXCEPT !.at = "backoff"]

(* rankDownloadUrls: the winner of the race, or the first if none answers, *)
(* then the rest as configured.                                            *)
Ranked(urls, winner) == <<winner>> \o Those(urls, {i \in DOMAIN urls : urls[i] # winner})

-----------------------------------------------------------------------------
(* Mutant: a caller that joins brings no callback along.                   *)
JoinedSilently(c, h) == progressCallbacks[h]

JoinedBy(c, h) ==
    IF progressCallbacks[h] = {} THEN {} ELSE progressCallbacks[h] \cup {c}

(* downloadUpdate calls, and the hook it awaits first.                     *)
DownloadUpdate(c, h, plan) ==
    /\ task[c].at = "idle"
    /\ Called
    /\ task' = [task EXCEPT ![c] = [NoTask EXCEPT !.at = "hook", !.hash = h, !.plan = plan]]
    /\ wiped' = wiped \ {c}
    /\ UnchangedByDownload
    /\ UNCHANGED <<downloadedHash, downloadingTasks, progressCallbacks, nativeFiles, tainted>>

(* The hook declined, the decision is to download nothing, or the version  *)
(* is the one already downloaded.                                          *)
DownloadSkipped(c) ==
    /\ task[c].at = "hook"
    /\ task' = [task EXCEPT ![c] = NoTask]
    /\ UnchangedByTask
    /\ UNCHANGED <<downloadingTasks, progressCallbacks>>

(* performDownload, up to its first await: the caller's callback is the    *)
(* first of the set the native progress events of this version go to.      *)
PerformDownload(c, h) ==
    /\ task' = [task EXCEPT ![c] =
            NextStrategy([@ EXCEPT !.ranked = [i \in DOMAIN task[c].plan |-> <<>>]])]
    /\ progressCallbacks' = [progressCallbacks EXCEPT ![h] = {c}]

AfterDownloadHook(c) ==
    LET h == task[c].hash
        owner == downloadingTasks[h]
    IN  /\ task[c].at = "hook"
        /\ downloadedHash # h
        /\ IF owner # NoCaller
           THEN /\ task' = [task EXCEPT ![c] = [NoTask EXCEPT !.at = "joined", !.hash = h,
                                                              !.with = owner]]
                /\ progressCallbacks' = [progressCallbacks EXCEPT ![h] = JoinedBy(c, h)]
                /\ UNCHANGED downloadingTasks
           ELSE /\ PerformDownload(c, h)
                /\ downloadingTasks' = [downloadingTasks EXCEPT ![h] = c]
        /\ UnchangedByTask

(* Whatever ends the transfers drops the progress callbacks.               *)
Continues(c, next) ==
    \E t \in {next} :
        /\ task' = [task EXCEPT ![c] = t]
        /\ progressCallbacks' =
            [progressCallbacks EXCEPT ![t.hash] = IF t.at \in {"persist", "settled", "failed"} THEN {} ELSE @]
        /\ UNCHANGED downloadingTasks

(* The race of HEAD probes: the first that answers wins, under the address *)
(* its redirects ended at (never a plaintext one); if none does, the first *)
(* that is configured.                                                     *)
TestUrls(urls) == Contents(urls) \cup {Redirect}

RankDownloadUrls(c) ==
    /\ task[c].at = "rank"
    /\ \E urls \in {task[c].plan[task[c].next].urls} : \E winner \in TestUrls(urls) :
        LET order == Ranked(urls, winner)
        IN  Continues(c, [task[c] EXCEPT !.at = "native", !.order = order,
                                         !.ranked[task[c].next] = order])
    /\ UnchangedByTask

IsFirstChoice(t) == Len(t.order) = Len(t.ranked[t.next])

(* Mutant: the mirror demoted for the next attempt is left at once.        *)
DemotedNow(t) ==
    IF IsFirstChoice(t) /\ Len(t.order) > 1
    THEN [t EXCEPT !.ranked[t.next] = Tail(@)]
    ELSE t

(* A first choice that failed goes to the back for the next attempt.       *)
Demoted(t) ==
    IF IsFirstChoice(t) /\ Len(t.order) > 1
    THEN [t EXCEPT !.ranked[t.next] = Append(Tail(@), Head(@))]
    ELSE t

NextMirror(t) ==
    IF Len(t.order) > 1
    THEN [t EXCEPT !.order = Tail(@)]
    ELSE NextStrategy([t EXCEPT !.order = <<>>, !.next = @ + 1])

AfterFailure(t, code) ==
    IF code = "PATCH_FAILED"
    THEN NextStrategy([t EXCEPT !.order = <<>>, !.next = @ + 1,
                                !.exhausted = @ \cup {t.plan[t.next].type},
                                !.spoiled = @ \cup {t.plan[t.next].type}])
    ELSE NextMirror(t)

Tried(t) == [t EXCEPT !.tried = @ \cup {<<t.plan[t.next].type, t.order[1]>>}]

NativeDownloadFails(c) ==
    /\ task[c].at = "native"
    /\ \E code \in {"PATCH_FAILED", "DOWNLOAD_FAILED"}, failed \in {Demoted(Tried(task[c]))} :
        Continues(c, AfterFailure(failed, code))
    /\ wiped' = wiped \ {c}
    /\ UnchangedByDownload
    /\ UNCHANGED <<downloadedHash, nativeFiles, callCount, tainted>>

NativeDownloadSucceeds(c) ==
    /\ task[c].at = "native"
    /\ Continues(c, [Tried(task[c]) EXCEPT !.at = "persist", !.order = <<>>])
    /\ \/ installed' = installed \cup {task[c].hash}
       \/ c \in wiped /\ UNCHANGED installed
    /\ UnchangedByDownload
    /\ UNCHANGED <<downloadedHash, named, callCount, wiped, tainted>>

BackoffOver(c) ==
    /\ task[c].at = "backoff"
    /\ Continues(c, NextStrategy([task[c] EXCEPT !.attempt = @ + 1, !.next = 1, !.tried = {}]))
    /\ UnchangedByTask

(* setLocalHashInfo; only then is the version downloaded.                  *)
PersistHashInfo(c) ==
    /\ task[c].at = "persist"
    /\ Continues(c, [task[c] EXCEPT !.at = "settled"])
    /\ \/ /\ downloadedHash' = task[c].hash
          /\ named' = named \cup {task[c].hash}
          /\ tainted' = (c \in wiped)
       \/ UNCHANGED <<downloadedHash, named, tainted>>
    /\ UnchangedByDownload
    /\ UNCHANGED <<installed, callCount, wiped>>

(* Mutant: only the caller that started it sees how it ended.              *)
TaskReturnsAlone(c) == task' = [task EXCEPT ![c] = NoTask]

(* The promise is settled: the callers that share it return, and finally   *)
(* forgets the task.                                                       *)
TaskReturns(c) ==
    task' = [d \in Caller |-> IF d = c \/ task[d].with = c THEN NoTask ELSE task[d]]

DownloadSettles(c) ==
    /\ task[c].at \in {"settled", "failed"}
    /\ TaskReturns(c)
    /\ downloadingTasks' = [downloadingTasks EXCEPT ![task[c].hash] = NoCaller]
    /\ UnchangedByTask
    /\ UNCHANGED progressCallbacks

(* downloadAndInstallApk.                                                  *)
DownloadAndInstallApk ==
    /\ apkStatus = "none"
    /\ Called
    /\ apkStatus' = "downloading"
    /\ apkCalls' = apkCalls + 1
    /\ UNCHANGED <<downloadedHash, downloadingTasks, progressCallbacks, marked, markingPromise,
                   applyingUpdate, generation, reloadWatchdog, nativeFiles, task, wiped, tainted>>

ApkAnswers ==
    /\ apkCalls > 0
    /\ apkCalls' = apkCalls - 1
    /\ apkStatus' \in {"downloaded", "none"}
    /\ UNCHANGED <<downloadedHash, downloadingTasks, progressCallbacks, marked, markingPromise,
                   applyingUpdate, generation, reloadWatchdog, nativeFiles, callCount, task, wiped, tainted>>

(* The native side answers, timers fire, continuations run.                *)
DownloadProgresses(c) ==
    \/ RankDownloadUrls(c) \/ NativeDownloadFails(c) \/ NativeDownloadSucceeds(c)
    \/ BackoffOver(c) \/ PersistHashInfo(c) \/ DownloadSettles(c)

DownloadStep ==
    \/ \E c \in Caller :
        \/ \E h \in Hash, plan \in Plan : DownloadUpdate(c, h, plan)
        \/ DownloadSkipped(c) \/ AfterDownloadHook(c) \/ DownloadProgresses(c)
    \/ DownloadAndInstallApk \/ ApkAnswers

-----------------------------------------------------------------------------
(* However many callers ask, and whatever their hooks await, at most one   *)
(* download of a version runs; and while it transfers, every caller that   *)
(* waits on it hears its progress.                                         *)
DownloadsAreShared ==
    \A c, d \in Caller :
        /\ Running(c) /\ Running(d) /\ task[c].hash = task[d].hash => c = d
        /\ Transferring(c) /\ (d = c \/ (task[d].at = "joined" /\ task[d].with = c))
            => d \in progressCallbacks[task[c].hash]

(* An attempt is over only when each mirror of each strategy whose bytes   *)
(* did not spoil was really tried, whatever the HEAD race said and however *)
(* an earlier attempt demoted it.                                          *)
AttemptTriesEveryMirror ==
    \A c \in Caller :
        task[c].at \in {"backoff", "failed"} =>
            \A i \in DOMAIN task[c].plan :
                \/ task[c].plan[i].type \in task[c].spoiled
                \/ \A u \in Contents(task[c].plan[i].urls) : <<task[c].plan[i].type, u>> \in task[c].tried
=============================================================================
