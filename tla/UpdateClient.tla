---------------------------- MODULE UpdateClient -----------------------------
(***************************************************************************)
(* Activation and downloads over the state they share: a reset drops what  *)
(* a download left, a switch takes it, a reload replaces the context of    *)
(* both while native downloads go on.  markSuccess shares nothing with     *)
(* downloads and stays with Activation's own specification.                *)
(***************************************************************************)
EXTENDS Activation, Downloader

updateClientVars == <<sharedVars, nativeFiles, callCount, actVars, taskVars>>

UpdateClientTypeOK == ClientStateTypeOK /\ ActTypeOK /\ DownloaderTypeOK

UpdateClientInit == ClientStateInit /\ ActInit /\ DownloaderInit

NativeResetNow == \E c \in Caller : act[c].at = "resetCalled" /\ act'[c].at = "resetDone"

(* What native code was asked to download may still arrive.                *)
DownloadsOrphaned ==
    /\ task' = [c \in Caller |-> NoTask]
    /\ apkCalls' = 0
    /\ wiped' = {}
    /\ tainted' = FALSE

(* What a reset means for the downloads under way; one that asks native    *)
(* code later is queued behind the cleanup.                                *)
BesideDownloads ==
    /\ wiped' = wiped \cup (IF NativeResetNow THEN {c \in Caller : Exposed(c)} ELSE {})
    /\ UNCHANGED <<task, apkCalls, tainted>>

UpdateClientNext ==
    \/ ActStep /\ BesideDownloads
    \/ DownloadStep /\ UNCHANGED actVars
    \/ reloading /\ ContextReplaced /\ DownloadsOrphaned

(* Native calls are answered, timers fire and continuations run: what the  *)
(* bridge and the JS queue owe is delivered in the end.  The hooks of the  *)
(* business code may never answer.                                         *)
ClientDelivers ==
    \/ ActTimer /\ BesideDownloads
    \/ \E c \in Caller :
        \/ ActReply(c) /\ BesideDownloads
        \/ DownloadProgresses(c) /\ UNCHANGED actVars

UpdateClientSpec ==
    UpdateClientInit /\ [][UpdateClientNext]_updateClientVars /\ WF_updateClientVars(ClientDelivers)

-----------------------------------------------------------------------------
(* The version switchVersion accepts is on disk with its metadata, unless  *)
(* a native reset fell into the download that left it or is about to drop  *)
(* the hash.                                                               *)
DownloadedIsOnDisk ==
    (downloadedHash # NoHash /\ ~tainted /\ \A c \in Caller : act[c].at # "resetDone") =>
        downloadedHash \in installed \cap named

(* resetToPackagedBundle's comment: the downloaded versions are gone; drop *)
(* JS bookkeeping so a stale downloadedHash cannot be switched to.  With   *)
(* no download and no reset under way, the hash is of a version on disk.   *)
DownloadedIsNotStale ==
    (downloadedHash # NoHash /\ \A c \in Caller : task[c].at = "idle" /\ act[c].at # "resetDone")
        => downloadedHash \in installed

(* A download that runs comes to an end, and all who share it return:      *)
(* MaxCalls bounds them, so in the end none is left but in a hook.         *)
DownloadsRest == \A c \in Caller : task[c].at \in {"idle", "hook"}
DownloadsReturn == []<>DownloadsRest
=============================================================================
