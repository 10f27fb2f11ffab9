---------------------------- MODULE JsEndpointQuery ----------------------------
(***************************************************************************)
(* How JS finds an endpoint that answers (endpoint.ts): one endpoint is    *)
(* asked first; when it fails, a hedged race over the others and over what *)
(* the query URLs list starts one request after another, each sooner when  *)
(* the one before it failed.                                               *)
(***************************************************************************)
EXTENDS UpdateDecisions

CONSTANTS
    Configured,   \* the endpoint lists a client may be configured with
    Listed,       \* the lists a query URL may serve; <<>> when none could be had
    IsHttps(_),
    MaxRequests   \* MAX_ENDPOINT_REQUESTS

ASSUME QueryAssumption ==
    /\ MaxRequests \in Nat
    /\ \A list \in Configured \cup Listed : list \in Seq(Contents(list))

VARIABLES
    stage,        \* first, lists, race, done
    candidates,   \* those of the round, in order
    excluded,     \* the endpoints that failed in an earlier round
    nextIndex,    \* how many of the candidates were started
    inFlight,     \* those not answered
    failures,     \* those that failed, in this round
    hedge,        \* a hedge timer runs
    winner,       \* the endpoint that served, "" for none
    asked         \* history: the requests, in order

queryVars == <<stage, candidates, excluded, nextIndex, inFlight, failures, hedge, winner, asked>>

JsQueryTypeOK ==
    /\ stage \in {"first", "lists", "race", "done"}
    /\ nextIndex \in 0..MaxRequests
    /\ inFlight \subseteq Contents(candidates)
    /\ failures \subseteq Contents(candidates)
    /\ hedge \in BOOLEAN

JsQueryInit ==
    /\ \E list \in Configured, random \in 0..9 :
        candidates = OrderEndpointCandidates(list, random)
    /\ stage = IF candidates = <<>> \/ MaxRequests < 1 THEN "done" ELSE "first"
    /\ asked = IF stage = "done" THEN <<>> ELSE <<candidates[1]>>
    /\ excluded = {} /\ nextIndex = 0 /\ inFlight = {} /\ failures = {}
    /\ hedge = FALSE /\ winner = ""

-----------------------------------------------------------------------------
(* executeEndpointFallback asks the sampled endpoint.                      *)
FirstAnswers ==
    /\ stage = "first"
    /\ \/ /\ stage' = "done" /\ winner' = candidates[1]
          /\ UNCHANGED excluded
       \/ /\ stage' = "lists" /\ excluded' = {candidates[1]}
          /\ UNCHANGED winner
    /\ UNCHANGED <<candidates, nextIndex, inFlight, failures, hedge, asked>>

(* promiseAny over the query URLs: one of the lists served, if any was.    *)
RemoteEndpoints(list) ==
    LET all == DedupeEndpoints(list) IN Those(all, {i \in DOMAIN all : IsHttps(all[i])})

(* Mutant: what failed before is raced again.                              *)
CandidatesAgain(list) ==
    LET all == DedupeEndpoints(candidates \o RemoteEndpoints(list))
    IN  SubSeq(all, 1, Min({Len(all), MaxRequests - Cardinality(excluded)}))

NextCandidates(list) ==
    LET all == DedupeEndpoints(candidates \o RemoteEndpoints(list))
        fresh == Those(all, {i \in DOMAIN all : all[i] \notin excluded})
    IN  SubSeq(fresh, 1, Min({Len(fresh), MaxRequests - Cardinality(excluded)}))

(* The next round's candidates; the first of them is started at once.      *)
GetRemoteEndpoints ==
    /\ stage = "lists"
    /\ IF Cardinality(excluded) >= MaxRequests
       THEN /\ stage' = "done"
            /\ UNCHANGED <<candidates, nextIndex, inFlight, failures, hedge, asked>>
       ELSE \E list \in Listed :
            /\ candidates' = NextCandidates(list)
            /\ failures' = {}
            /\ IF candidates' = <<>>
               THEN /\ stage' = "done"
                    /\ UNCHANGED <<nextIndex, inFlight, hedge, asked>>
               ELSE /\ stage' = "race"
                    /\ nextIndex' = 1
                    /\ inFlight' = {candidates'[1]}
                    /\ hedge' = (Len(candidates') > 1)
                    /\ asked' = Append(asked, candidates'[1])
    /\ UNCHANGED <<excluded, winner>>

(* launchNext, with those in flight beside it.                             *)
LaunchNext(others) ==
    IF nextIndex < Len(candidates)
    THEN /\ nextIndex' = nextIndex + 1
         /\ inFlight' = others \cup {candidates[nextIndex + 1]}
         /\ hedge' = (nextIndex + 1 < Len(candidates))
         /\ asked' = Append(asked, candidates[nextIndex + 1])
    ELSE /\ inFlight' = others
         /\ UNCHANGED <<nextIndex, hedge, asked>>

HedgeDelayOver ==
    /\ stage = "race" /\ hedge
    /\ LaunchNext(inFlight)
    /\ UNCHANGED <<stage, candidates, excluded, failures, winner>>

(* The first success wins; the requests still in flight are aborted.       *)
Succeeds(e) ==
    /\ stage = "race" /\ e \in inFlight
    /\ stage' = "done" /\ winner' = e
    /\ inFlight' = {} /\ hedge' = FALSE
    /\ UNCHANGED <<candidates, excluded, nextIndex, failures, asked>>

(* Mutant: the race is over when the last candidate fails, whoever runs.   *)
NobodyLeftToStart(others) == nextIndex = Len(candidates)

RaceLost(others) == nextIndex = Len(candidates) /\ others = {}

Fails(e) ==
    /\ stage = "race" /\ e \in inFlight
    /\ failures' = failures \cup {e}
    /\ IF RaceLost(inFlight \ {e})
       THEN /\ stage' = "lists"
            /\ excluded' = excluded \cup failures'
            /\ inFlight' = {} /\ hedge' = FALSE
            /\ UNCHANGED <<nextIndex, asked>>
       ELSE LaunchNext(inFlight \ {e}) /\ UNCHANGED <<stage, excluded>>
    /\ UNCHANGED <<candidates, winner>>

JsQueryAnswers ==
    \/ FirstAnswers \/ GetRemoteEndpoints \/ HedgeDelayOver
    \/ \E e \in inFlight : Succeeds(e) \/ Fails(e)

JsQuerySpec == JsQueryInit /\ [][JsQueryAnswers]_queryVars /\ WF_queryVars(JsQueryAnswers)

-----------------------------------------------------------------------------
(* A query asks each endpoint at most once and no more than the budget in  *)
(* all, whatever lists the mirrors serve and however the race goes; when   *)
(* it gives up, every configured endpoint within the budget has answered   *)
(* that it cannot serve, and none is still in flight.                      *)
QueryAsksEachOnce ==
    /\ Len(asked) <= MaxRequests
    /\ \A i, j \in DOMAIN asked : asked[i] = asked[j] => i = j
    /\ stage = "race" => inFlight # {}
    /\ stage = "done" /\ winner = "" => Contents(asked) = excluded
=============================================================================
