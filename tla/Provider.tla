------------------------------- MODULE Provider -------------------------------
(***************************************************************************)
(* The UpdateProvider component (provider.tsx): when it checks, what it    *)
(* shows of a response, what it does by itself under the silent            *)
(* strategies, and what the buttons of its alerts do later.                *)
(***************************************************************************)
EXTENDS Naturals, FiniteSets

CONSTANTS
    Release,      \* versions a server may offer
    NoVersionYet, \* no version, and no information
    Usable,       \* those decideDownload finds an artifact for
    MaxEvents     \* bound: mounts, options, foregrounds, checks and presses

(* A release is told from the other answers.                               *)
ASSUME ReleaseAssumption == Release \cap {NoVersionYet, "upToDate", "expired"} = {}

Strategies == {"alert", "silentAndNow", "silentAndLater"}
Checks == {"both", "onAppStart", "onAppResume", "none"}

VARIABLES
    mounted, strategy, checkStrategy,
    startCheckDone,
    linkHandled,  \* initialUrlHandled
    checks,       \* the checks in flight
    updateInfo,   \* updateInfoRef
    downloads,    \* the downloads in flight
    downloadedVersion, \* getDownloadedHash
    alerts,       \* on the screen: what each is about
    markTimer,    \* the automatic markSuccess is armed
    events,
    \* History variables: no action's guard reads them.
    startChecks,  \* start checks since the mount
    launchLinks,  \* how often it took the launch URL since
    consented,    \* versions the user, or a silent strategy, said yes to
    switches      \* versions a switch, now or later, was asked for

uiVars == <<updateInfo, downloads, downloadedVersion, alerts, consented, switches>>
linkVars == <<linkHandled, launchLinks>>
lifeVars == <<mounted, strategy, checkStrategy, startCheckDone, markTimer, startChecks, linkVars>>
providerVars == <<lifeVars, uiVars, checks, events>>

NoAlert == [about |-> "none", version |-> NoVersionYet]

ProviderTypeOK ==
    /\ mounted \in BOOLEAN /\ strategy \in Strategies /\ checkStrategy \in Checks
    /\ {startCheckDone, linkHandled} \subseteq BOOLEAN
    /\ checks \in Nat
    /\ updateInfo \in Release \cup {NoVersionYet, "upToDate", "expired"}
    /\ downloads \subseteq Release
    /\ downloadedVersion \in Release \cup {NoVersionYet}
    /\ alerts \subseteq [about : {"found", "ready", "expired"}, version : Release \cup {NoVersionYet}]
    /\ markTimer \in BOOLEAN

ProviderInit ==
    /\ mounted = FALSE
    /\ strategy \in Strategies /\ checkStrategy \in Checks
    /\ startCheckDone = FALSE /\ linkHandled = FALSE /\ launchLinks = 0
    /\ checks = 0
    /\ updateInfo = NoVersionYet
    /\ downloads = {} /\ downloadedVersion = NoVersionYet /\ alerts = {}
    /\ markTimer = FALSE
    /\ events = 0 /\ startChecks = 0 /\ consented = {} /\ switches = {}

Event == events < MaxEvents /\ events' = events + 1

-----------------------------------------------------------------------------
(* Mutant: every render that sees the strategy checks.                     *)
StartsCheckAgain(done, cs) == cs \in {"both", "onAppStart"}

StartsCheck(done, cs) == ~done /\ cs \in {"both", "onAppStart"}

(* The effect of the start-of-life check, run when the strategy in force   *)
(* is new to it, beside the checks the launch URL asks for.                *)
StartCheckEffect(done, cs, linkChecks) ==
    IF StartsCheck(done, cs)
    THEN /\ startCheckDone' = TRUE /\ startChecks' = startChecks + 1
         /\ checks' = checks + 1 + linkChecks
    ELSE /\ startCheckDone' = done /\ checks' = checks + linkChecks
         /\ UNCHANGED startChecks

(* parseLinking: the launch URL is taken once; when it is a test link of   *)
(* the channel the options allow it asks for a check.                      *)
LaunchLinkEffect(handled, linkChecks) ==
    /\ linkHandled' = TRUE
    /\ launchLinks' = IF handled THEN launchLinks ELSE launchLinks + 1
    /\ linkChecks \in IF handled THEN {0} ELSE {0, 1}

(* claimProviderMount: one provider at a time.  updateInfo is one instance's*)
(* own; a new instance while checks or alerts of the last one linger, which *)
(* keep to that one's, is left out.                                        *)
Mount ==
    /\ ~mounted /\ checks = 0 /\ alerts = {}
    /\ Event
    /\ mounted' = TRUE
    /\ \E linkChecks \in {0, 1} :
        /\ LaunchLinkEffect(FALSE, linkChecks)
        /\ StartCheckEffect(FALSE, checkStrategy, linkChecks)
    /\ updateInfo' = NoVersionYet
    /\ markTimer' = TRUE
    /\ UNCHANGED <<strategy, checkStrategy, downloads, downloadedVersion, alerts, consented, switches>>

(* React (StrictMode) cleans up and runs the effects of one instance again: *)
(* its refs remember what was done.                                        *)
EffectsRerun ==
    /\ mounted
    /\ Event
    /\ LaunchLinkEffect(linkHandled, 0)
    /\ StartCheckEffect(startCheckDone, checkStrategy, 0)
    /\ markTimer' = TRUE
    /\ UNCHANGED <<mounted, strategy, checkStrategy, uiVars>>

Unmount ==
    /\ mounted
    /\ Event
    /\ mounted' = FALSE /\ startCheckDone' = FALSE /\ startChecks' = 0
    /\ linkHandled' = FALSE /\ launchLinks' = 0
    /\ markTimer' = FALSE
    /\ UNCHANGED <<strategy, checkStrategy, uiVars, checks>>

(* setOptions bumps the version; effects run for the options they read.    *)
SetStrategies(s, cs) ==
    /\ Event
    /\ strategy' = s /\ checkStrategy' = cs
    /\ IF mounted /\ cs # checkStrategy
       THEN StartCheckEffect(startCheckDone, cs, 0)
       ELSE UNCHANGED <<startCheckDone, checks, startChecks>>
    /\ UNCHANGED <<mounted, markTimer, linkVars, uiVars>>

(* parseTestPayload: a scanned code, or a link while the app runs, asks    *)
(* what the test version is; updateInfo and the alerts follow as ever.     *)
ParseTestPayload(testChannel) ==
    /\ mounted /\ testChannel
    /\ Event
    /\ checks' = checks + 1
    /\ UNCHANGED <<lifeVars, uiVars>>

Foreground ==
    /\ mounted /\ checkStrategy \in {"both", "onAppResume"}
    /\ Event
    /\ checks' = checks + 1
    /\ UNCHANGED <<lifeVars, uiVars>>

-----------------------------------------------------------------------------
Silent == strategy # "alert"

(* Mutant: any update the server offers is shown.                          *)
ShownAnyUpdate(answer) == answer

(* A release nothing can be downloaded for is presented as no update.      *)
Shown(answer) == IF answer \in Release \ Usable THEN "upToDate" ELSE answer

(* A check that failed or was skipped leaves everything as it is.  The     *)
(* download a silent strategy asks for of a release without an artifact is *)
(* refused before it begins (decideDownload): it only reports the release. *)
CheckReturns ==
    /\ checks > 0
    /\ checks' = checks - 1
    /\ \/ UNCHANGED uiVars
       \/ \E answer \in Release \cup {"upToDate", "expired"} :
            LET info == Shown(answer) IN
            /\ updateInfo' = info
            /\ \/ /\ info \in Release /\ Silent
                  /\ downloads' = downloads \cup {info}
                  /\ consented' = consented \cup {info}
                  /\ UNCHANGED alerts
               \/ /\ info \in Release /\ ~Silent
                  /\ alerts' = alerts \cup {[about |-> "found", version |-> info]}
                  /\ UNCHANGED <<downloads, consented>>
               \/ /\ info = "expired" /\ ~Silent
                  /\ alerts' = alerts \cup {[about |-> "expired", version |-> NoVersionYet]}
                  /\ UNCHANGED <<downloads, consented>>
               \/ /\ info = "upToDate" \/ (info = "expired" /\ Silent)
                  /\ UNCHANGED <<alerts, downloads, consented>>
            /\ UNCHANGED <<downloadedVersion, switches>>
    /\ UNCHANGED <<lifeVars, events>>

(* downloadUpdate's continuation: the strategy is read again.              *)
DownloadReturns(v) ==
    /\ v \in downloads
    /\ downloads' = downloads \ {v}
    /\ \/ UNCHANGED <<downloadedVersion, alerts, consented, switches>>
       \/ /\ downloadedVersion' = v
          /\ IF Silent
             THEN /\ switches' = switches \cup {v} /\ consented' = consented \cup {v}
                  /\ UNCHANGED alerts
             ELSE /\ alerts' = alerts \cup {[about |-> "ready", version |-> v]}
                  /\ UNCHANGED <<switches, consented>>
    /\ UNCHANGED <<lifeVars, updateInfo, checks, events>>

Dismissed(alert) == alerts' = alerts \ {alert}

(* "Update": what is downloaded is what the last check found by now.       *)
ConfirmFound(alert) ==
    /\ alert \in alerts /\ alert.about = "found"
    /\ Event
    /\ Dismissed(alert)
    /\ IF updateInfo \in Release
       THEN downloads' = downloads \cup {updateInfo} /\ consented' = consented \cup {updateInfo}
       ELSE UNCHANGED <<downloads, consented>>
    /\ UNCHANGED <<lifeVars, updateInfo, downloadedVersion, switches, checks>>

(* "Now" or "next time": refused unless it is the version downloaded last. *)
ConfirmReady(alert) ==
    /\ alert \in alerts /\ alert.about = "ready"
    /\ Event
    /\ Dismissed(alert)
    /\ consented' = consented \cup {alert.version}
    /\ switches' = IF alert.version = downloadedVersion
                   THEN switches \cup {alert.version} ELSE switches
    /\ UNCHANGED <<lifeVars, updateInfo, downloads, downloadedVersion, checks>>

(* openExpiredDownload, or any alert's other button.                       *)
Decline(alert) ==
    /\ alert \in alerts
    /\ Event
    /\ Dismissed(alert)
    /\ UNCHANGED <<lifeVars, updateInfo, downloads, downloadedVersion, consented, switches, checks>>

(* The health check is read when the timer fires; as it answers, the       *)
(* client's markSuccess (Activation) is called or not.                     *)
MarkSuccessTimer ==
    /\ markTimer /\ markTimer' = FALSE
    /\ UNCHANGED <<mounted, strategy, checkStrategy, startCheckDone, startChecks, linkVars,
                   uiVars, checks, events>>

ProviderNext ==
    \/ Mount \/ EffectsRerun \/ Unmount \/ Foreground
    \/ \E testChannel \in BOOLEAN : ParseTestPayload(testChannel)
    \/ \E s \in Strategies, cs \in Checks : SetStrategies(s, cs)
    \/ CheckReturns
    \/ \E v \in downloads : DownloadReturns(v)
    \/ \E alert \in alerts : ConfirmFound(alert) \/ ConfirmReady(alert) \/ Decline(alert)
    \/ MarkSuccessTimer

-----------------------------------------------------------------------------
(* However checks overlap, options change and alerts wait: no alert and no *)
(* silent download is about a release nothing can be downloaded for, a     *)
(* switch is asked for only where the user or a silent strategy said yes,  *)
(* and the start check and the launch URL are handled once per mount, not  *)
(* once per setOptions or rerun of the effects.                            *)
ProviderActsOnUsableOnce ==
    /\ \A alert \in alerts : alert.about # "expired" => alert.version \in Usable
    /\ downloads \subseteq Usable
    /\ switches \subseteq consented
    /\ startChecks <= 1 /\ launchLinks <= 1
=============================================================================
