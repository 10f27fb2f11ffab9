--------------------------- MODULE HarmonyDownload ---------------------------
(***************************************************************************)
(* The download and install of one version on Harmony: DownloadTask.ts,    *)
(* with the resume rules of cpp/patch_core/resume_plan.cpp, which every    *)
(* port shares.                                                            *)
(*                                                                         *)
(* The server holds the archive as Length blocks and may replace it; a     *)
(* block is named by the entity it belongs to, so a file that mixes two    *)
(* entities is a sequence of different names.  The sidecar says which URL  *)
(* and entity the partial file came from, and how long the whole is.  Each *)
(* await of the code ends an action, and the process may die at each.      *)
(***************************************************************************)
EXTENDS Naturals, Sequences

CONSTANTS
    Url,          \* the mirrors
    Length,       \* blocks of an archive
    MaxEntity,    \* bound: replacements of the archive on the server
    MaxRuns       \* bound: tasks

ASSUME LengthAssumption == Length \in Nat \ {0}
ASSUME UrlAssumption == "none" \notin Url     \* what stands for no URL
ASSUME DownloadBounds == MaxEntity \in Nat \ {0} /\ MaxRuns \in Nat

VARIABLES
    server,     \* the entity served now: it never returns to an earlier one
    archive,    \* the blocks on disk; a missing file has none
    sidecar,    \* the .resume file
    staging,    \* what the staging directory holds
    version,    \* what the version directory holds
    at,         \* what the task awaits
    request,    \* the request under way and what the server answers
    wire,       \* chunks received that are not on disk
    ended,      \* dataEnd was seen
    runs,
    \* History variables.
    received,   \* blocks written for the archive being collected
    clean,      \* neither the server nor a disk made a block worthless
    torn,       \* the process died while the sidecar was being rewritten
    blind       \* a range was asked for without a validator

files == <<archive, sidecar, staging, version>>
transfer == <<request, wire, ended>>
history == <<received, clean, torn, blind>>
downloadVars == <<server, files, at, transfer, runs, history>>

Entity == 1 .. MaxEntity
NoEntity == 0       \* no validator
Junk == 0           \* a piece of the body of an error
NoTotal == 0        \* no total
Blocks(S) == UNION {[1 .. k -> S] : k \in 0 .. Length}
Archive == Blocks(Entity \cup {Junk})

NoSidecar == [url |-> "none", validator |-> NoEntity, total |-> NoTotal]
Sidecar == {NoSidecar} \cup
           [url : Url, validator : Entity \cup {NoEntity}, total : 0 .. Length]

(* What the server answers: the rest of the archive (206), all of it       *)
(* (200), that the range is not good (416, a 206 that does not fit), or    *)
(* an error.                                                               *)
Answer == {"none", "range", "whole", "stale", "error"}
NoRequest == [url |-> "none", offset |-> 0, ifRange |-> NoEntity, retry |-> FALSE,
              answer |-> "none", serving |-> NoEntity, total |-> NoTotal, encoded |-> FALSE]
Request == [url : Url \cup {"none"}, offset : 0 .. Length, ifRange : Entity \cup {NoEntity},
            retry : BOOLEAN, answer : Answer, serving : Entity \cup {NoEntity},
            total : 0 .. Length, encoded : BOOLEAN]

(* A directory of the version: absent, incomplete, or made of an archive.  *)
Absent == [kind |-> "absent", from |-> <<>>]
Incomplete == [kind |-> "incomplete", from |-> <<>>]
MadeOf(a) == [kind |-> "version", from |-> a]
Directory == {Absent, Incomplete} \cup {MadeOf(a) : a \in Archive}

TransferPhase == {"clearing", "requested", "answered", "opened", "persisting", "streaming",
                  "finishing"}
InstallPhase == {"downloaded", "patching", "copying", "rebuilt", "consuming", "consumed",
                 "sealed", "replacing"}
Phase == {"idle", "poisoned"} \cup TransferPhase \cup InstallPhase

DownloadTypeOK ==
    /\ server \in Entity /\ archive \in Archive /\ sidecar \in Sidecar
    /\ at \in Phase /\ request \in Request /\ runs \in 0 .. MaxRuns
    /\ wire \in Archive /\ {ended, clean, torn, blind} \subseteq BOOLEAN
    /\ received \in Nat
    /\ staging \in Directory /\ version \in Directory

DownloadInit ==
    /\ server = 1 /\ archive = <<>> /\ sidecar = NoSidecar
    /\ staging = Absent /\ version \in {Absent, Incomplete}
    /\ at = "idle" /\ request = NoRequest /\ wire = <<>> /\ ended = FALSE
    /\ runs = 0 /\ received = 0 /\ clean = TRUE /\ torn = FALSE /\ blind = FALSE

Whole(a) == Len(a) = Length
OneEntity(a) == \A i, j \in DOMAIN a : a[i] = a[j]

-----------------------------------------------------------------------------
(***************************************************************************)
(* The plan of a request (PlanRequestJson)                                 *)
(***************************************************************************)
Trusted(url) == sidecar.url = url /\ archive # <<>>
AlreadyComplete(url) == Trusted(url) /\ sidecar.total = Len(archive)
Resumes(url) ==
    Trusted(url) /\ (sidecar.total = NoTotal \/ Len(archive) < sidecar.total)

Asks(url, retry) == [NoRequest EXCEPT !.url = url, !.retry = retry]

StartsDownload(url) ==
    /\ at = "idle" /\ runs < MaxRuns /\ runs' = runs + 1
    /\ version \in {Absent, Incomplete}
    /\ \/ /\ AlreadyComplete(url)
          /\ at' = "downloaded"
          /\ UNCHANGED <<archive, request, clean, blind>>
       \/ /\ Resumes(url) /\ ~AlreadyComplete(url)
          /\ at' = "requested"
          /\ request' = [Asks(url, FALSE) EXCEPT !.offset = Len(archive),
                                                 !.ifRange = sidecar.validator]
          /\ blind' = (blind \/ sidecar.validator = NoEntity)
          /\ UNCHANGED <<archive, clean>>
       \/ /\ ~Resumes(url) /\ ~AlreadyComplete(url)
          /\ at' = "clearing" /\ request' = Asks(url, FALSE)
          /\ archive' = <<>> /\ blind' = FALSE
          /\ clean' = (clean /\ (archive = <<>> \/ sidecar = NoSidecar))
    /\ UNCHANGED <<server, sidecar, staging, version, wire, ended, received, torn>>

(* deleteResumeSidecar logs a failure and goes on: the old one may stay.   *)
SidecarGoes == sidecar' \in {NoSidecar, sidecar}

SidecarCleared ==
    /\ at = "clearing" /\ at' = "requested" /\ SidecarGoes
    /\ UNCHANGED <<server, archive, staging, version, transfer, runs, history>>

-----------------------------------------------------------------------------
(***************************************************************************)
(* The server and the network                                              *)
(***************************************************************************)
NetworkUnchanged == UNCHANGED <<server, files, runs, history>>

(* What If-Range allows; a range may also be answered with the whole.      *)
Answers(answer, total, encoded) ==
    /\ at = "requested" /\ at' = "answered"
    /\ answer \in {"range", "stale"} => request.offset > 0
    /\ answer = "range" => request.ifRange \in {NoEntity, server}
    /\ encoded => answer = "whole"
    /\ request' = [request EXCEPT
          !.answer = answer, !.encoded = encoded,
          !.serving = IF answer \in {"range", "whole"} THEN server ELSE Junk,
          !.total = IF encoded \/ answer \in {"stale", "error"} THEN NoTotal ELSE total,
          !.offset = IF answer = "whole" THEN 0 ELSE @]
    /\ UNCHANGED <<wire, ended>> /\ NetworkUnchanged

(* dataReceive: nothing the status has not authorised goes to disk.        *)
Left == Length - Len(wire) -
        (IF request.answer = "whole" /\ at = "answered" THEN 0 ELSE Len(archive))

DataComes ==
    /\ at \in {"answered", "opened", "streaming"} /\ ~ended /\ Left > 0
    /\ wire' = Append(wire, request.serving)
    /\ UNCHANGED <<at, request, ended>> /\ NetworkUnchanged

(* dataEnd, which a broken connection may bring early; it may come before  *)
(* the status does.                                                        *)
DataEnds ==
    /\ at \in {"answered", "opened", "streaming"} /\ ~ended /\ ended' = TRUE
    /\ UNCHANGED <<at, request, wire>> /\ NetworkUnchanged

ServerReplaces ==
    /\ server < MaxEntity /\ server' = server + 1
    /\ clean' = FALSE
    /\ UNCHANGED <<files, at, transfer, runs, received, torn, blind>>

-----------------------------------------------------------------------------
(***************************************************************************)
(* The response (ClassifyResponseJson)                                     *)
(***************************************************************************)
NoTransfer == request' = NoRequest /\ wire' = <<>> /\ ended' = FALSE

(* staleRange: the body is discarded, the partial and its sidecar are      *)
(* deleted and the request is made again from zero, once.                  *)
Restarts ==
    /\ at = "answered" /\ request.answer = "stale" /\ ~request.retry
    /\ archive' = <<>> /\ at' = "clearing" /\ request' = Asks(request.url, TRUE)
    /\ wire' = <<>> /\ ended' = FALSE
    /\ clean' = FALSE
    /\ SidecarGoes
    /\ UNCHANGED <<server, staging, version, runs, received, torn, blind>>

(* The partial resists both attempts to delete it: the transfer fails.     *)
RestartFails ==
    /\ at = "answered" /\ request.answer = "stale" /\ ~request.retry /\ at' = "idle"
    /\ SidecarGoes /\ staging' = Absent /\ clean' = FALSE /\ NoTransfer
    /\ UNCHANGED <<server, archive, version, runs, received, torn, blind>>

(* The file is opened: at its end for a range, from zero for the whole.    *)
Opens ==
    /\ at = "answered" /\ request.answer \in {"range", "whole"} /\ at' = "opened"
    /\ IF request.answer = "range"
       THEN UNCHANGED <<archive, clean, blind>>
       ELSE /\ archive' = <<>> /\ blind' = FALSE
            /\ clean' = (clean /\ archive = <<>> /\ ~request.encoded)
    /\ UNCHANGED <<server, sidecar, staging, version, transfer, runs, received, torn>>

LengthFits == request.total # NoTotal => Len(archive) = request.total

(* The sidecar goes to disk before the first byte does: the old one is     *)
(* unlinked, the new one written.  Headers may come after the request      *)
(* resolves, or name no validator: then the one the request knew stays.    *)
(* So a transfer may be found encoded at its end only.                     *)
SidecarFor(headers, total) ==
    [url |-> request.url, total |-> total,
     validator |-> IF headers THEN request.serving ELSE request.ifRange]

UnlinksSidecar ==
    /\ \/ at = "opened" /\ at' = "persisting"
       \/ at = "opened" /\ request.encoded /\ at' = "streaming"
       \/ /\ at = "streaming" /\ ended /\ wire = <<>>
          /\ request.encoded \/ LengthFits
          /\ at' = "finishing"
    /\ SidecarGoes
    /\ UNCHANGED <<server, archive, staging, version, transfer, runs, history>>

(* Mutant: the sidecar is written with the last byte only.                 *)
PersistsLater(headers) == NoSidecar
Persists(headers) == SidecarFor(headers, request.total)

(* A write that fails is not fatal; without the unlink there is none.      *)
Written(text) ==
    \/ sidecar = NoSidecar /\ sidecar' = text /\ UNCHANGED clean
    \/ sidecar' = sidecar /\ clean' = FALSE

WritesSidecar(headers) ==
    /\ at = "persisting" /\ at' = "streaming"
    /\ Written(Persists(headers))
    /\ UNCHANGED <<server, archive, staging, version, transfer, runs, received, torn, blind>>

(* Mutant: what is received goes to disk whatever the status will say.     *)
AuthorizedAtOnce == at \in {"answered", "opened", "streaming"}
Authorized == at = "streaming"

(* The queue writes the chunks in the order they came.                     *)
Writes ==
    /\ Authorized /\ wire # <<>> /\ Len(archive) < Length
    /\ archive' = Append(archive, Head(wire)) /\ wire' = Tail(wire)
    /\ received' = received + 1
    /\ UNCHANGED <<server, sidecar, staging, version, at, request, ended, runs, clean, torn, blind>>

StreamEnds(headers) ==
    /\ at = "finishing" /\ at' = "downloaded"
    /\ IF request.encoded THEN UNCHANGED sidecar /\ clean' = FALSE
       ELSE Written(SidecarFor(headers, Len(archive)))
    /\ NoTransfer
    /\ UNCHANGED <<server, archive, staging, version, runs, received, torn, blind>>

(* An error status, a second stale range, a stall, the deadline, a full    *)
(* disk, a length that does not fit: all before the download is complete.  *)
(* The partial and its sidecar stay: they are what a retry resumes.        *)
Fails == UNCHANGED <<archive, sidecar>>

TransferFails ==
    /\ at \in TransferPhase \ {"persisting", "finishing"} /\ at' = "idle"
    /\ Fails /\ staging' = Absent /\ NoTransfer
    /\ UNCHANGED <<server, version, runs, history>>

-----------------------------------------------------------------------------
(***************************************************************************)
(* The install (downloadAndExtract, the patches, promoteStaging)           *)
(***************************************************************************)
InstallUnchanged == UNCHANGED <<server, transfer, runs, history>>

(* A truncated archive has no central directory.  A full package is the    *)
(* version; a patch is rebuilt from the bundle it is a difference to.      *)
Extracts ==
    /\ at = "downloaded" /\ Whole(archive)
    /\ \/ at' = "rebuilt" /\ staging' = MadeOf(archive)
       \/ at' = "patching" /\ staging' = Incomplete
    /\ UNCHANGED <<archive, sidecar, version>> /\ InstallUnchanged

(* The patch is against another version, or against the package, whose     *)
(* resources are then copied and their checksums compared.                 *)
Patches ==
    /\ at = "patching"
    /\ \/ at' = "rebuilt" /\ staging' = MadeOf(archive)
       \/ at' = "copying" /\ UNCHANGED staging
    /\ UNCHANGED <<archive, sidecar, version>> /\ InstallUnchanged

CopiesResources ==
    /\ at = "copying" /\ at' = "rebuilt" /\ staging' = MadeOf(archive)
    /\ UNCHANGED <<archive, sidecar, version>> /\ InstallUnchanged

(* The archive goes, then its sidecar: the next one is collected anew.     *)
(* Either may resist, and then only costs the next task its resume.        *)
ArchiveGoes ==
    \/ archive' = <<>> /\ received' = 0 /\ clean' = TRUE /\ torn' = FALSE
    \/ clean' = FALSE /\ UNCHANGED <<archive, received, torn>>

Consumes ==
    /\ at = "rebuilt" /\ at' = "consuming" /\ ArchiveGoes
    /\ UNCHANGED <<server, sidecar, staging, version, transfer, runs, blind>>

DropsSidecar ==
    /\ at = "consuming" /\ at' = "consumed" /\ SidecarGoes
    /\ UNCHANGED <<archive, staging, version>> /\ InstallUnchanged

Seals ==
    /\ at = "consumed" /\ at' = "sealed"
    /\ UNCHANGED <<files>> /\ InstallUnchanged

RemovesOld ==
    /\ at = "sealed" /\ at' = "replacing" /\ version' = Absent
    /\ UNCHANGED <<archive, sidecar, staging>> /\ InstallUnchanged

Promotes ==
    /\ at = "replacing" /\ at' = "idle"
    /\ version' = staging /\ staging' = Absent
    /\ UNCHANGED <<archive, sidecar>> /\ InstallUnchanged

(* Any failure once the archive is complete: the archive is poison.        *)
InstallFails ==
    /\ at \in InstallPhase /\ at' = "poisoned"
    /\ staging' \in {staging, Incomplete}
    /\ UNCHANGED <<archive, sidecar, version>> /\ InstallUnchanged

(* A cleanup that cannot remove staging leaves the archive: the retry      *)
(* meets the same failure, and cleans up again.                            *)
ThrowsOut == staging' = Absent /\ ArchiveGoes /\ SidecarGoes /\ UNCHANGED blind

CleansUp ==
    /\ at = "poisoned" /\ at' = "idle"
    /\ ThrowsOut \/ UNCHANGED <<archive, sidecar, staging, history>>
    /\ UNCHANGED <<server, version, transfer, runs>>

-----------------------------------------------------------------------------
(* The process dies; what is half written stays half written.              *)
DownloadDies ==
    /\ at # "idle" /\ at' = "idle" /\ NoTransfer
    /\ staging' \in {staging, IF staging = Absent THEN Absent ELSE Incomplete}
    /\ torn' = (torn \/ at \in {"persisting", "finishing"})
    /\ UNCHANGED <<server, archive, sidecar, version, runs, received, clean, blind>>

NetworkSteps ==
    \/ \E answer \in Answer \ {"none"}, total \in {NoTotal, Length}, encoded \in BOOLEAN :
          Answers(answer, total, encoded)
    \/ DataComes \/ DataEnds \/ ServerReplaces

TransferSteps ==
    \/ SidecarCleared \/ Restarts \/ RestartFails \/ Opens \/ UnlinksSidecar \/ Writes \/ TransferFails
    \/ \E headers \in BOOLEAN : WritesSidecar(headers) \/ StreamEnds(headers)

InstallSteps ==
    \/ Extracts \/ Patches \/ CopiesResources \/ Consumes \/ DropsSidecar \/ Seals \/ RemovesOld \/ Promotes
    \/ InstallFails \/ CleansUp

DownloadNext ==
    \/ \E url \in Url : StartsDownload(url)
    \/ NetworkSteps \/ TransferSteps \/ InstallSteps
    \/ DownloadDies

DownloadSpec == DownloadInit /\ [][DownloadNext]_downloadVars

-----------------------------------------------------------------------------
(***************************************************************************)
(* Properties                                                              *)
(***************************************************************************)
(* Whatever order the body, its end and the status come in, and however    *)
(* the resumes, deaths and replacements on the server fall, the body of an *)
(* error is never part of the partial that is resumed, and a version was   *)
(* made from one whole archive, of one entity unless a range was asked for *)
(* without a validator; anything else in its directory is what it was.     *)
NothingForeignIsInstalled ==
    /\ \A i \in DOMAIN archive : archive[i] # Junk
    /\ version.kind = "version" =>
          Whole(version.from) /\ (~blind => OneEntity(version.from))

(* Every block counts once: as long as the server served one archive and   *)
(* honoured ranges, and the process did not die while the sidecar was      *)
(* being rewritten, no block is written twice before the archive is        *)
(* consumed, however often the process dies or a transfer fails.           *)
BlocksCountOnce == clean /\ ~torn => received <= Length

(* What the comment of downloadFile says: every byte received counts after *)
(* the death of the process, whenever that is.  It does not hold: one in   *)
(* the rewrite of the sidecar leaves a partial that nothing vouches for.   *)
EveryBlockCounts == clean => received <= Length
=============================================================================
