--------------------------- MODULE UpdateDecisions ----------------------------
(***************************************************************************)
(* The pure decisions of the JS client (updateFlowCore.ts, telemetry.ts):  *)
(* which request a device sends, which release of a response is for it,    *)
(* which downloads that leads to, and what the server is told came of it.  *)
(* An absent or empty string is "".                                        *)
(***************************************************************************)
EXTENDS Selection, FiniteSetsExt

(***************************************************************************)
(* Endpoints and URLs.  An endpoint is [base, slash]: its name without and *)
(* with trailing slashes.                                                  *)
(***************************************************************************)
DedupeEndpoints(endpoints) ==
    LET First(i) == endpoints[i] # "" /\ \A j \in 1..(i - 1) : endpoints[j] # endpoints[i]
    IN  Those(endpoints, {i \in DOMAIN endpoints : First(i)})

(* Math.floor(randomSample * n), clamped; samples are tenths here.         *)
Pick(sample, n) == 1 + Min({(sample * n) \div 10, n - 1})

OrderEndpointCandidates(endpoints, sample) ==
    LET deduped == DedupeEndpoints(endpoints)
        first == Pick(sample, Len(deduped))
    IN  IF Len(deduped) < 2 THEN deduped
        ELSE <<deduped[first]>> \o SubSeq(deduped, 1, first - 1)
                                \o SubSeq(deduped, first + 1, Len(deduped))

(* joinUrls: no file, no URLs; without a scheme a path is taken as https.  *)
JoinUrls(paths, file) ==
    IF file = "" THEN <<>>
    ELSE [i \in DOMAIN paths |-> [scheme |-> IF paths[i].scheme = "" THEN "https"
                                             ELSE paths[i].scheme,
                                  host |-> paths[i].host, file |-> file]]

CanonicalUrlList(urls) == DedupeEndpoints([i \in DOMAIN urls |-> urls[i].base])

(* A persisted configuration, absent keys taking the natives' defaults.    *)
ConfigDefaults == [disabled |-> FALSE, queryUrls |-> <<>>, afterDownload |-> "none"]

CanonicalizeNativeConfig(configRecord) ==
    [k \in DOMAIN configRecord \cup DOMAIN ConfigDefaults |->
        LET value == IF k \in DOMAIN configRecord THEN configRecord[k] ELSE ConfigDefaults[k]
        IN  IF k \in {"endpoints", "queryUrls"} THEN CanonicalUrlList(value) ELSE value]

(* jsonDeepEqual on these records: key order never shows.                  *)
NativeConfigsEquivalent(left, right) ==
    CanonicalizeNativeConfig(left) = CanonicalizeNativeConfig(right)

(***************************************************************************)
(* The request: the caller's extra fields first, then the SDK's own.       *)
(***************************************************************************)
With(f, g) == [k \in DOMAIN f \cup DOMAIN g |-> IF k \in DOMAIN g THEN g[k] ELSE f[k]]
Without(f, keys) == [k \in DOMAIN f \ keys |-> f[k]]

BuildCheckRequestBody(device, extra) ==
    LET spread == With(extra, [packageVersion |-> device.packageVersion,
                               hash |-> device.currentVersion,
                               buildTime |-> device.buildTime,
                               bundleHash |-> device.bundleHash])
        dropped == (IF device.bundleHash = "" THEN {"bundleHash"} ELSE {})
                   \cup (IF device.isDev THEN {"buildTime"} ELSE {})
        nested == IF extra = <<>> \/ DOMAIN extra = {} THEN <<>> ELSE [extra |-> extra]
    IN  With(Without(spread, dropped), nested)

BuildCheckFingerprint(appKey, endpoints, queryUrls, body) ==
    <<appKey, endpoints, queryUrls, body>>

(***************************************************************************)
(* The response                                                            *)
(***************************************************************************)
NoRelease == [update |-> FALSE, hash |-> "", diff |-> "", pdiff |-> "", full |-> ""]
UpToDate == NoRelease

IsValidCheckResult(verdictFields) == verdictFields # {}

(* The bucket is the device's murmurhash of its uuid, modulo 100.          *)
IsInRollout(rollout, bucket) == bucket < rollout

(* Mutant: the candidate the device already runs is offered to it again.   *)
ResolveReinstalling(info, device) ==
    IF info.root.update /\ info.candidate.hash # "" /\ info.rollout # 101
       /\ IsInRollout(info.rollout, device.bucket)
    THEN [info.candidate EXCEPT !.update = TRUE]
    ELSE info.root

(* A rollout of 101 stands for a response that names none for this binary. *)
ResolveCheckResult(info, device) ==
    LET gray == info.root.update /\ info.candidate # NoRelease /\ info.rollout # 101
                /\ IsInRollout(info.rollout, device.bucket)
        chosen == IF gray THEN [info.candidate EXCEPT !.update = TRUE] ELSE info.root
    IN  IF chosen.update /\ chosen.hash # "" /\ chosen.hash = device.currentVersion
        THEN UpToDate ELSE chosen

ShouldActivateAfterDownload(forceBoot, afterDownload) ==
    afterDownload = "setNeedUpdate" \/ forceBoot

IsMirrorRetryableCode(code) == code # "PATCH_FAILED"

None(reason) == [action |-> "none", reason |-> reason, attempts |-> <<>>, devNoop |-> FALSE]

DecideDownload(release, paths, device) ==
    LET Attempt(type, file) ==
            IF JoinUrls(paths, file) = <<>> THEN <<>>
            ELSE <<[type |-> type, urls |-> JoinUrls(paths, file)]>>
        full == Attempt("full", release.full)
        attempts == IF device.isDev THEN full
                    ELSE Attempt("diff", release.diff) \o Attempt("pdiff", release.pdiff) \o full
        devNoop == device.isDev /\ full = <<>>
    IN  IF ~release.update \/ release.hash = "" THEN None("noUpdate")
        ELSE IF release.hash = device.currentVersion THEN None("alreadyCurrent")
        ELSE IF release.hash = device.rolledBackVersion THEN None("rolledBack")
        ELSE IF attempts = <<>> /\ ~devNoop THEN None("noArtifact")
        ELSE [action |-> "download", reason |-> "", attempts |-> attempts, devNoop |-> devNoop]

(***************************************************************************)
(* Telemetry: the aggregate an event counts towards, "" for none, and the  *)
(* version it is about.                                                    *)
(***************************************************************************)
ResolveServerEventType(type, code) ==
    CASE type = "downloadSuccess" -> "download_success"
      [] type = "errorUpdate" -> IF code = "PATCH_FAILED" THEN "patch_fail" ELSE "download_fail"
      [] type = "errorSwitchVersion" ->
            IF code \in {"USER_HOOK_ERROR", "RESTART_FAILED"} THEN "" ELSE "patch_fail"
      [] type = "markSuccess" -> "mark_success"
      [] type = "rollback" -> "rollback"
      [] type = "downloadFallback" -> IF code = "PATCH_FAILED" THEN "patch_fail" ELSE ""
      [] OTHER -> ""

ResolveServerEventHash(serverType, data, currentVersion) ==
    IF serverType = "rollback" THEN data.rolledBackVersion
    ELSE IF serverType = "mark_success" /\ data.newVersion = "" THEN currentVersion
    ELSE data.newVersion
=============================================================================
