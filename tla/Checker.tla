------------------------------- MODULE Checker --------------------------------
(***************************************************************************)
(* checkUpdate (clientCheck.ts): checks of one question asked within five  *)
(* seconds share an answer, the native check's cached response may be the  *)
(* answer, and a check that got one tells the native round so.             *)
(*                                                                         *)
(* The options are the client's; what setOptions does with them is         *)
(* NativeConfigSync's business, and how an endpoint is found               *)
(* JsEndpointQuery's.                                                      *)
(***************************************************************************)
EXTENDS Naturals, FiniteSets

CONSTANTS
    Asker,     \* callers of checkUpdate
    Question,  \* what a fingerprint stands for
    CheckConfig,   \* configurations the options may describe
    NoCheckConfig, \* options that describe none
    MaxChecks, \* bound: checks asked for
    MaxOptions \* bound: changes of the options

ASSUME CheckBounds == {MaxChecks, MaxOptions} \subseteq Nat

NoPromise == 0
MaybeCheckConfig == CheckConfig \cup {NoCheckConfig}

VARIABLES
    check,       \* per caller, where its call is
    promises,    \* the answers asked for, by number; 0 when not yet
    slot,        \* lastRespJson, as its number
    slotQuestion,\* lastCheckFingerprint
    slotRecent,  \* lastChecking is less than five seconds ago
    exhausted,   \* nativeCheckCacheExhausted
    cache,       \* the native check's response on disk
    config,      \* getNativeConfigJson: what the options describe now
    acknowledged,\* jsCheckCompletedConfigJson
    marks,       \* markJsCheckCompleted calls on their way to native code
    jsRound,     \* native: the configuration JS said it checked with
    optionChanges, checksMade,
    \* History: the configurations the options described while some check
    \* that succeeded was under way.
    checkedWith

slotVars == <<slot, slotQuestion, slotRecent>>
markVars == <<acknowledged, marks, jsRound, checkedWith>>
checkerVars == <<check, promises, slotVars, exhausted, cache, config, markVars,
                 optionChanges, checksMade>>

CachedResponse == [question : Question, config : CheckConfig]
NoCache == [question |-> NoPromise, config |-> NoCheckConfig]

NotChecking == [at |-> "idle", question |-> NoPromise, promise |-> NoPromise, during |-> {}]

CheckerTypeOK ==
    /\ \A c \in Asker :
        /\ check[c].at \in {"idle", "hook", "joined", "cache", "fetch", "answered"}
        /\ check[c].promise \in 0..MaxChecks
        /\ check[c].during \subseteq MaybeCheckConfig
    /\ \A p \in DOMAIN promises : promises[p].state \in {"pending", "answered", "failed"}
    /\ slot \in 0..MaxChecks
    /\ slotQuestion \in Question \cup {NoPromise}
    /\ slotRecent \in BOOLEAN /\ exhausted \in BOOLEAN
    /\ cache \in CachedResponse \cup {NoCache}
    /\ {config, acknowledged, jsRound} \subseteq MaybeCheckConfig
    /\ marks \subseteq CheckConfig

CheckerInit ==
    /\ check = [c \in Asker |-> NotChecking]
    /\ promises = [p \in {} |-> NoPromise]
    /\ slot = NoPromise /\ slotQuestion = NoPromise /\ slotRecent = FALSE
    /\ exhausted = FALSE
    /\ cache \in CachedResponse \cup {NoCache}
    /\ config \in MaybeCheckConfig
    /\ acknowledged = NoCheckConfig /\ marks = {} /\ jsRound = NoCheckConfig
    /\ checkedWith = {}
    /\ optionChanges = 0 /\ checksMade = 0

-----------------------------------------------------------------------------
CheckUpdate(c, question) ==
    /\ check[c].at = "idle" /\ checksMade < MaxChecks
    /\ checksMade' = checksMade + 1
    /\ check' = [check EXCEPT ![c] = [NotChecking EXCEPT !.at = "hook", !.question = question]]
    /\ UNCHANGED <<promises, slotVars, exhausted, cache, config, markVars, optionChanges>>

(* beforeCheckUpdate declined.                                             *)
CheckSkipped(c) ==
    /\ check[c].at = "hook"
    /\ check' = [check EXCEPT ![c] = NotChecking]
    /\ UNCHANGED <<promises, slotVars, exhausted, cache, config, markVars,
                   optionChanges, checksMade>>

(* Mutant: any recent answer is shared.                                    *)
SharesAnyRecent(question) == slot # NoPromise /\ slotRecent

Shares(question) == slot # NoPromise /\ slotQuestion = question /\ slotRecent

(* From here to where the promise is in the slot nothing awaits.           *)
AfterCheckHook(c) ==
    LET p == Cardinality(DOMAIN promises) + 1 IN
    /\ check[c].at = "hook"
    /\ IF Shares(check[c].question)
       THEN /\ check' = [check EXCEPT ![c].at = "joined", ![c].promise = slot]
            /\ UNCHANGED <<promises, slotVars>>
       ELSE /\ check' = [check EXCEPT ![c].at = IF exhausted THEN "fetch" ELSE "cache",
                                      ![c].promise = p, ![c].during = {config}]
            /\ promises' = [i \in DOMAIN promises \cup {p} |->
                IF i = p THEN [question |-> check[c].question, state |-> "pending"]
                ELSE promises[i]]
            /\ slot' = p
            /\ slotQuestion' = check[c].question
            /\ slotRecent' = TRUE
    /\ UNCHANGED <<exhausted, cache, config, markVars, optionChanges, checksMade>>

CheckSettles(c, state) ==
    /\ promises' = [promises EXCEPT ![check[c].promise].state = state]
    /\ check' = [check EXCEPT ![c].at = "answered"]

(* A fresh entry answers the question it was asked with, under the         *)
(* configuration it was asked for.                                         *)
CacheAnswers(question) ==
    cache # NoCache /\ cache.question = question /\ cache.config = config

(* readNativeCheckCache: only an absent or expired entry ends the reading. *)
ReadNativeCheckCache(c) ==
    /\ check[c].at = "cache"
    /\ IF CacheAnswers(check[c].question)
       THEN CheckSettles(c, "answered")
       ELSE check' = [check EXCEPT ![c].at = "fetch"] /\ UNCHANGED promises
    /\ exhausted' = (exhausted \/ cache = NoCache)
    /\ UNCHANGED <<slotVars, cache, config, markVars, optionChanges, checksMade>>

FetchCheckResult(c) ==
    /\ check[c].at = "fetch"
    /\ \E state \in {"answered", "failed"} : CheckSettles(c, state)
    /\ UNCHANGED <<exhausted, slotVars, cache, config, markVars, optionChanges, checksMade>>

(* Mutant: a failure clears whatever is in the slot.                       *)
ClearsSlot(c) == TRUE

OwnsSlot(c) == slot = check[c].promise

(* Mutant: the mark is made as soon as the answer is asked for.            *)
MarkAnyway(state) == TRUE

MarksCheck(state) == state = "answered"

(* markJsCheckCompleted describes the options as they are now.             *)
MarkJsCheckCompleted ==
    marks' = IF config \in {NoCheckConfig, acknowledged} THEN marks ELSE marks \cup {config}

(* The owner's continuation: afterCheckUpdate, and what the answer means   *)
(* for the slot and the native round.                                      *)
OwnCheckEnds(c) ==
    LET state == promises[check[c].promise].state IN
    /\ check[c].at = "answered"
    /\ check' = [check EXCEPT ![c] = NotChecking]
    /\ IF state = "failed" /\ OwnsSlot(c)
       THEN slot' = NoPromise /\ slotQuestion' = NoPromise
       ELSE UNCHANGED <<slot, slotQuestion>>
    /\ IF MarksCheck(state) THEN MarkJsCheckCompleted ELSE UNCHANGED marks
    /\ checkedWith' = IF state = "answered" THEN checkedWith \cup check[c].during ELSE checkedWith
    /\ UNCHANGED <<promises, slotRecent, exhausted, cache, config, acknowledged, jsRound,
                   optionChanges, checksMade>>

(* The others hear how it ended, and report nothing twice.                 *)
JoinedCheckEnds(c) ==
    /\ check[c].at = "joined"
    /\ promises[check[c].promise].state # "pending"
    /\ check' = [check EXCEPT ![c] = NotChecking]
    /\ UNCHANGED <<promises, slotVars, exhausted, cache, config, markVars,
                   optionChanges, checksMade>>

NativeRecordsJsRound(m) ==
    /\ m \in marks
    /\ marks' = marks \ {m}
    /\ \/ jsRound' = m /\ acknowledged' = m
       \/ UNCHANGED <<jsRound, acknowledged>>
    /\ UNCHANGED <<check, promises, slotVars, exhausted, cache, config, checkedWith,
                   optionChanges, checksMade>>

FiveSecondsPass ==
    /\ slotRecent
    /\ slotRecent' = FALSE
    /\ UNCHANGED <<check, promises, slot, slotQuestion, exhausted, cache, config, markVars,
                   optionChanges, checksMade>>

OptionsChange ==
    /\ optionChanges < MaxOptions
    /\ optionChanges' = optionChanges + 1
    /\ config' \in MaybeCheckConfig
    /\ check' = [c \in Asker |-> IF check[c].at \in {"cache", "fetch", "answered"}
                                 THEN [check[c] EXCEPT !.during = @ \cup {config'}]
                                 ELSE check[c]]
    /\ UNCHANGED <<promises, slotVars, exhausted, cache, markVars, checksMade>>

CheckProgresses(c) ==
    \/ ReadNativeCheckCache(c) \/ FetchCheckResult(c)
    \/ OwnCheckEnds(c) \/ JoinedCheckEnds(c)

CheckerNext ==
    \/ \E c \in Asker :
        \/ \E question \in Question : CheckUpdate(c, question)
        \/ CheckSkipped(c) \/ AfterCheckHook(c) \/ CheckProgresses(c)
    \/ \E m \in marks : NativeRecordsJsRound(m)
    \/ FiveSecondsPass \/ OptionsChange

(* Requests have a timeout, bridge calls are answered, continuations run.  *)
CheckerFairness == \A c \in Asker : WF_checkerVars(CheckProgresses(c))

CheckerSpec == CheckerInit /\ [][CheckerNext]_checkerVars /\ CheckerFairness

-----------------------------------------------------------------------------
(* Whoever shares an answer asked the question it answers, and a check     *)
(* that failed is shared no more once its owner has seen the failure.      *)
SharedAnswerFits ==
    /\ \A c \in Asker :
        check[c].promise # NoPromise =>
            promises[check[c].promise].question = check[c].question
    /\ slot # NoPromise /\ promises[slot].state = "failed" =>
        \E c \in Asker : check[c].at = "answered" /\ check[c].promise = slot

(* The failure of an older check does not take the slot from a newer one   *)
(* that may still answer.                                                  *)
FailureFreesOnlyItsSlot ==
    [][slot # NoPromise /\ slot' = NoPromise => promises[slot].state = "failed"]_checkerVars

(* The native round is told to skip only a configuration the options       *)
(* described while a check that got its answer was under way.              *)
MarkedWasChecked == marks \cup {jsRound} \subseteq checkedWith \cup {NoCheckConfig}

(* Each check that is not waiting for the business code returns: MaxChecks *)
(* bounds them, so in the end no other is left.                            *)
ChecksRest == \A c \in Asker : check[c].at \in {"idle", "hook"}
ChecksReturn == []<>ChecksRest
=============================================================================
