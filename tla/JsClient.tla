------------------------------- MODULE JsClient -------------------------------
(***************************************************************************)
(* The JS client.  Parts that share state are composed: resets and         *)
(* switches with downloads (UpdateClient).  Parts that share none would    *)
(* only multiply each other's states, so each behaviour runs one of them   *)
(* and the others stay where they start.                                   *)
(***************************************************************************)
EXTENDS UpdateClient, Checker, NativeConfigSync, JsEndpointQuery, DecisionCases,
        Reporter, Provider, ErrorFlow

VARIABLE part

Part == {"updates", "switches", "checks", "config", "query", "decisions", "errors", "provider", "surface"}

NoSample == [root |-> NoRelease, candidate |-> NoRelease, rollout |-> 101,
             device |-> CHOOSE d \in Device : TRUE, paths |-> <<>>]

NothingAsked ==
    /\ stage = "done" /\ candidates = <<>> /\ asked = <<>> /\ excluded = {}
    /\ nextIndex = 0 /\ inFlight = {} /\ failures = {} /\ hedge = FALSE /\ winner = ""

(* A part that does not run starts where nothing is chosen.                *)
Rests(p) == part # p

JsInit ==
    /\ part \in Part
    /\ UpdateClientInit /\ CheckerInit /\ Init /\ ReporterInit /\ ErrorFlowInit /\ ProviderInit
    /\ IF Rests("query") THEN NothingAsked ELSE JsQueryInit
    /\ IF Rests("decisions") THEN sample = NoSample ELSE DecisionsInit

PartsRest ==
    /\ UNCHANGED <<part, sample>>
    /\ IF part \in {"updates", "switches"} THEN TRUE ELSE UNCHANGED updateClientVars
    /\ IF part = "checks" THEN TRUE ELSE UNCHANGED checkerVars
    /\ IF part = "config" THEN TRUE ELSE UNCHANGED vars
    /\ IF part = "query" THEN TRUE ELSE UNCHANGED queryVars
    /\ IF part = "errors" THEN TRUE ELSE UNCHANGED reporterVars
    /\ IF part = "provider" THEN TRUE ELSE UNCHANGED providerVars
    /\ IF part = "surface" THEN TRUE ELSE UNCHANGED errorFlowVars

JsNext ==
    /\ PartsRest
    /\ \/ part = "updates" /\ UpdateClientNext
       \/ part = "switches" /\ ActNext /\ UNCHANGED taskVars
       \/ part = "checks" /\ CheckerNext
       \/ part = "config" /\ Next
       \/ part = "query" /\ JsQueryAnswers
       \/ part = "errors" /\ ReporterNext
       \/ part = "provider" /\ ProviderNext
       \/ part = "surface" /\ ErrorFlowNext

jsVars == <<part, sample, updateClientVars, checkerVars, vars, queryVars, reporterVars,
            providerVars, errorFlowVars>>

(* Whatever native code, the network, a timer or the JS queue owes is      *)
(* delivered in the end: one fairness for all of it is less than each part *)
(* assumes of its own, and enough where the bounds end every exchange.     *)
JsDelivers ==
    /\ PartsRest
    /\ \/ part = "updates" /\ ClientDelivers
       \/ part = "switches" /\ (ActTimer \/ \E c \in Caller : ActReply(c)) /\ UNCHANGED taskVars
       \/ part = "checks" /\ \E c \in Asker : CheckProgresses(c)
       \/ part = "config" /\ (Native \/ Continue)

JsSpec == JsInit /\ [][JsNext]_jsVars /\ WF_jsVars(JsDelivers)

-----------------------------------------------------------------------------
(* Every variable of the client has its type.                              *)
JsTypeOK ==
    /\ UpdateClientTypeOK /\ CheckerTypeOK /\ TypeOK /\ JsQueryTypeOK
    /\ ReporterTypeOK /\ ProviderTypeOK /\ ErrorFlowTypeOK

(* Callers that share work share it rightly: one transfer of a version,    *)
(* whose progress each caller that waits hears, and that leaves a version  *)
(* on disk that switchVersion may accept.                                  *)
DownloadsAreSound == DownloadsAreShared /\ DownloadedIsOnDisk

(* An answer, and the mark that tells native code to skip its own round,   *)
(* are of the configuration and the question they are used for.            *)
ChecksFitTheirQuestion == SharedAnswerFits /\ MarkedWasChecked

(* What one caller or the client gives up is its own: an older check does  *)
(* not take the slot from a newer one, nor the client the place of another *)
(* integration's error handler (the parts run apart).                      *)
OthersAreLeftAlone == FailureFreesOnlyItsSlot /\ HandlersOfOthersStay

(* Every download, every check and every write of the configuration that   *)
(* native code or the network has to answer returns to whoever waits for   *)
(* it, joined callers included (the parts run apart, so one recurrence     *)
(* states all three).                                                      *)
CallsReturn == []<>(DownloadsRest /\ ChecksRest /\ WritesRest)
=============================================================================
