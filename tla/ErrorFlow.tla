------------------------------- MODULE ErrorFlow -------------------------------
(***************************************************************************)
(* How an error reaches the app (clientReporter.ts, provider.tsx): the     *)
(* client emits its own errors to the logger and to its subscribers and    *)
(* may throw them too, hooks of the app throw errors that never entered    *)
(* the client, callers that joined one piece of work catch one error, and  *)
(* the provider decides in its catches which ones are still to be shown.   *)
(***************************************************************************)
EXTENDS Naturals

CONSTANTS
    ProviderCall, \* calls of the provider that may overlap
    MaxErrors     \* bound: errors ever made

ASSUME ErrorBound == MaxErrors \in Nat

VARIABLES
    subscribed,  \* the provider is mounted: its onError listener is in place
    throwError,  \* the option
    calling,     \* per call, where it is, the error it threw, and whether the
                 \* provider that made it is still mounted
    errors,      \* errors made; each is its number
    coded,       \* those that carry a known code
    emitted,     \* emittedErrors
    logger,      \* a logger has been configured
    waiting,     \* reports waiting for one
    \* History variables: no action's guard reads them.
    surfaced,    \* per error, how often lastError was set to it
    missed,      \* errors a call of the mounted provider caught and nobody showed
    logged,      \* per error, how often the logger was given it
    givenUp      \* reports whose ten seconds passed without a logger

surfaceVars == <<subscribed, surfaced, missed>>
reportVars == <<logger, waiting, logged, givenUp>>
errorVars == <<errors, coded, emitted>>
errorFlowVars == <<surfaceVars, throwError, calling, errorVars, reportVars>>

Places == {"idle", "beforeCheck", "checking", "downloading", "afterDownload", "threw"}
Hooks == {"beforeCheck", "afterDownload"}
NoCall == [at |-> "idle", error |-> 0, here |-> FALSE]

ErrorFlowTypeOK ==
    /\ {subscribed, throwError, logger} \subseteq BOOLEAN
    /\ calling \in [ProviderCall -> [at : Places, error : 0..MaxErrors, here : BOOLEAN]]
    /\ errors \in 0..MaxErrors
    /\ coded \subseteq 1..errors /\ emitted \subseteq coded /\ waiting \subseteq emitted

ErrorFlowInit ==
    /\ subscribed = FALSE
    /\ throwError = FALSE
    /\ calling = [c \in ProviderCall |-> NoCall]
    /\ errors = 0 /\ coded = {} /\ emitted = {}
    /\ logger = FALSE /\ waiting = {}
    /\ surfaced = [e \in 1..MaxErrors |-> 0] /\ missed = {}
    /\ logged = [e \in 1..MaxErrors |-> 0] /\ givenUp = {}

-----------------------------------------------------------------------------
New == errors + 1

(* fail and emitError of a new error: it keeps its identity, gets a code,  *)
(* is reported, and every subscriber hears of it before anyone rethrows it. *)
Emit ==
    /\ errors < MaxErrors
    /\ errors' = New
    /\ coded' = coded \cup {New}
    /\ emitted' = emitted \cup {New}
    /\ surfaced' = IF subscribed THEN [surfaced EXCEPT ![New] = @ + 1] ELSE surfaced
    /\ IF logger
       THEN logged' = [logged EXCEPT ![New] = @ + 1] /\ UNCHANGED waiting
       ELSE waiting' = waiting \cup {New} /\ UNCHANGED logged
    /\ UNCHANGED <<subscribed, missed, logger, givenUp>>

(* checkUpdate and downloadUpdate of the context, or the provider's own.   *)
CallProvider(c, place) ==
    /\ subscribed /\ calling[c].at = "idle"
    /\ calling' = [calling EXCEPT ![c] = [at |-> place, error |-> 0, here |-> TRUE]]
    /\ UNCHANGED <<surfaceVars, throwError, errorVars, reportVars>>

Moves(c, place) ==
    calling' = [calling EXCEPT ![c] = IF place = "idle" THEN NoCall ELSE [@ EXCEPT !.at = place]]

HookReturns(c) ==
    /\ \/ calling[c].at = "beforeCheck" /\ \E place \in {"checking", "idle"} : Moves(c, place)
       \/ calling[c].at = "afterDownload" /\ Moves(c, "idle")
    /\ UNCHANGED <<surfaceVars, throwError, errorVars, reportVars>>

ThrownTo(callers, e) ==
    calling' = [c \in ProviderCall |->
        IF c \in callers THEN [calling[c] EXCEPT !.at = "threw", !.error = e] ELSE calling[c]]

(* A hook throws an error of its own, with a code or without, or one that  *)
(* a client call it made has just emitted.                                 *)
HookThrows(c) ==
    /\ calling[c].at \in Hooks
    /\ ThrownTo({c}, New)
    /\ \/ Emit
       \/ /\ errors < MaxErrors
          /\ errors' = New
          /\ coded' \in {coded, coded \cup {New}}
          /\ UNCHANGED <<emitted, surfaceVars, reportVars>>
    /\ UNCHANGED throwError

Sharing(work) == {c \in ProviderCall : calling[c].at = work}

WorkSucceeds(work) ==
    /\ Sharing(work) # {}
    /\ calling' = [c \in ProviderCall |->
        IF c \notin Sharing(work) THEN calling[c]
        ELSE IF work = "downloading" THEN [calling[c] EXCEPT !.at = "afterDownload"]
        ELSE NoCall]
    /\ UNCHANGED <<surfaceVars, throwError, errorVars, reportVars>>

(* The call that began the work emits the error, before any caller that    *)
(* joined it resumes.  A download throws it in any case, a check only when *)
(* the option says so, to each caller of its own.                          *)
WorkFails(work) ==
    /\ Sharing(work) # {}
    /\ Emit
    /\ IF work = "downloading" \/ throwError
       THEN ThrownTo(Sharing(work), New)
       ELSE calling' = [c \in ProviderCall |-> IF c \in Sharing(work) THEN NoCall ELSE calling[c]]
    /\ UNCHANGED throwError

(* A silent switch or markSuccess: its rejection is swallowed.             *)
SilentCallFails ==
    /\ Emit
    /\ UNCHANGED <<throwError, calling>>

(* Mutant: an error with a code is taken for one of the client's.          *)
StillToShowUncoded(e) == e \notin coded

(* wasEmitted, not the code, tells what the subscription has shown.        *)
StillToShow(e) == e \notin emitted

(* surfaceCaughtError; what it rethrows under throwError is the caller's.  *)
Catches(c) ==
    LET e == calling[c].error IN
    /\ calling[c].at = "threw"
    /\ surfaced' = IF calling[c].here /\ StillToShow(e)
                   THEN [surfaced EXCEPT ![e] = @ + 1] ELSE surfaced
    /\ missed' = IF calling[c].here /\ surfaced'[e] = 0 THEN missed \cup {e} ELSE missed
    /\ Moves(c, "idle")
    /\ UNCHANGED <<subscribed, throwError, errorVars, reportVars>>

ProviderComesAndGoes ==
    /\ subscribed' = ~subscribed
    /\ calling' = [c \in ProviderCall |-> [calling[c] EXCEPT !.here = FALSE]]
    /\ UNCHANGED <<surfaced, missed, throwError, errorVars, reportVars>>

SetThrowError ==
    /\ throwError' = ~throwError
    /\ UNCHANGED <<surfaceVars, calling, errorVars, reportVars>>

-----------------------------------------------------------------------------
(* setOptions with a logger resolves loggerPromise.                        *)
SetLogger ==
    /\ ~logger /\ logger' = TRUE
    /\ UNCHANGED <<waiting, logged, givenUp, surfaceVars, throwError, calling, errorVars>>

(* report's race; whichever ends it, the logger is read once more.         *)
ReportResumes(e) ==
    /\ e \in waiting
    /\ waiting' = waiting \ {e}
    /\ IF logger
       THEN logged' = [logged EXCEPT ![e] = @ + 1] /\ UNCHANGED givenUp
       ELSE givenUp' = givenUp \cup {e} /\ UNCHANGED logged
    /\ UNCHANGED <<logger, surfaceVars, throwError, calling, errorVars>>

ErrorFlowNext ==
    \/ \E c \in ProviderCall :
        \/ CallProvider(c, "beforeCheck") \/ CallProvider(c, "downloading")
        \/ HookReturns(c) \/ HookThrows(c) \/ Catches(c)
    \/ \E work \in {"checking", "downloading"} : WorkSucceeds(work) \/ WorkFails(work)
    \/ SilentCallFails \/ ProviderComesAndGoes \/ SetThrowError
    \/ SetLogger
    \/ \E e \in waiting : ReportResumes(e)

ErrorFlowSpec == ErrorFlowInit /\ [][ErrorFlowNext]_errorFlowVars

-----------------------------------------------------------------------------
(* Whoever threw an error, however many callers caught it and whatever     *)
(* throwError was meanwhile: no error is shown twice, none that a call of  *)
(* the mounted provider caught goes unseen, and each one emitted reaches   *)
(* the logger once unless none was there for as long as it waited          *)
(* (provider.tsx: client pipeline errors were already surfaced via the     *)
(* onError subscription; errors thrown by hooks are surfaced here).        *)
ErrorsSurfaceOnce ==
    \A e \in 1..errors :
        /\ surfaced[e] <= 1
        /\ e \notin missed
        /\ logged[e] = IF e \in emitted \ (waiting \cup givenUp) THEN 1 ELSE 0
=============================================================================
