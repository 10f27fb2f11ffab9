----------------------------- MODULE RoundEngine -----------------------------
(***************************************************************************)
(* The driver of one cold-start round (round_engine.cpp) with the platform *)
(* adapter that runs its commands one at a time on the calling thread      *)
(* (SyncCoordinator.runOnce), and what may happen around it: the clock     *)
(* advances, a crash is held, JS resets to the packaged bundle or replaces *)
(* the configuration.                                                      *)
(*                                                                         *)
(* Each event handler of the engine is one action; the command it emits is *)
(* the only one outstanding until the next event answers it.               *)
(***************************************************************************)
EXTENDS EndpointQuery, Integers

CONSTANTS
    NativeConfig,  \* [runnable, endpoints, queryUrls]
    Response,      \* what a server may answer: [action, attempts, activate]
    RemoteList,    \* the endpoint lists a queryUrl may serve
    Deadline,      \* the deadlines a crash hold may set
    QueryIdle,     \* kQueryIdleTimeoutMs
    QueryCall,     \* kQueryCallTimeoutMs
    DownloadPhase, \* kDownloadPhaseMs
    MaxClock,      \* bound: the latest time an event is read at
    MaxGeneration  \* bound: resets and config changes around the round

NoDeadline == 0

ASSUME TimeAssumption ==
    /\ {QueryIdle, QueryCall, DownloadPhase, MaxClock} \subseteq Nat \ {0}
    /\ Deadline \subseteq Nat \ {NoDeadline}
    /\ MaxGeneration \in Nat

VARIABLES
    clock,             \* the time the last event carried
    stored,            \* the persisted configuration
    resetGeneration,   \* UpdateContext's generations
    configGeneration,
    crashHold,         \* a crash is being held: JS is dead
    phase,             \* the event the round waits for
    round,             \* what it started with
    query,             \* the endpoint query
    decision,          \* the version the response offers
    cursor,            \* the next download, and the phases' deadlines
    command,           \* the command being run
    finish,            \* the finish command
    \* History variables: no action's guard reads them.
    issued,            \* the requests and downloads asked for, in order
    spoiled,           \* strategies that timed out or whose bytes did not apply
    installed,         \* a complete install of the version was reported
    moved              \* a reset or a new configuration since the round began

world == <<stored, resetGeneration, configGeneration, crashHold>>
engine == <<phase, round, query, decision, cursor, command, finish>>
vars == <<clock, world, engine, issued, spoiled, installed, moved>>

-----------------------------------------------------------------------------
Strategy == {"diff", "pdiff", "full"}
Attempt == [type : Strategy, urls : List]

NoRound == [config |-> CHOOSE c \in NativeConfig : TRUE, resetGeneration |-> 0,
            configGeneration |-> 0, deadline |-> NoDeadline,
            origin |-> FALSE, crashHold |-> FALSE]
Round == [config : NativeConfig, resetGeneration : Nat, configGeneration : Nat,
          deadline : Deadline \cup {NoDeadline}, origin : BOOLEAN, crashHold : BOOLEAN]

(* What is stored, served and answered, once parsed.  A response names a   *)
(* full package once at most (DecideDownload).                             *)
ASSUME RoundAssumption ==
    /\ NativeConfig \subseteq [runnable : BOOLEAN, endpoints : List, queryUrls : List]
    /\ RemoteList \subseteq List
    /\ Response \subseteq [action : {"none", "unsafe", "download"},
                           attempts : Seq(Attempt), activate : BOOLEAN]
    /\ \A r \in Response : \A i, j \in DOMAIN r.attempts :
          r.attempts[i].type = "full" /\ r.attempts[j].type = "full" => i = j

NoDecision == [attempts |-> <<>>, activate |-> FALSE]
Decision == [attempts : Seq(Attempt), activate : BOOLEAN]

(* Mutant: the cursor counts from zero.                                    *)
StartAtZero == [attempt |-> 0, url |-> 1, incremental |-> 0, full |-> 0]

FirstAttempt == [attempt |-> 1, url |-> 1, incremental |-> 0, full |-> 0]
Cursor == [attempt : Nat \ {0}, url : Nat \ {0}, incremental : Nat, full : Nat]

(* at: when the command was given; until: when the adapter gives it up, 0  *)
(* for the commands that have no bound.                                    *)
Command == [type : {"none", "collectEnv", "http", "checkInstalled", "download", "commit"},
            url : Url \cup {NoUrl}, attempt : Nat, at : Nat, until : Nat,
            content : {"none", "response", "version"}, activate : BOOLEAN,
            reason : {"none", "download_failed", "downloaded"}]
NoCommand == [type |-> "none", url |-> NoUrl, attempt |-> 0, at |-> 0, until |-> 0,
              content |-> "none", activate |-> FALSE, reason |-> "none"]

Reason == {"rejected", "check_failed", "invalid_response", "internal_error",
           "commit_failed", "config_changed", "reset",
           "none", "download_failed", "downloaded"}
NotFinished == [reason |-> "unfinished", activated |-> FALSE]
Finish == [reason : Reason, activated : BOOLEAN]

Phase == {"idle", "sampled", "env", "http", "installed", "download", "committed", "done"}

TypeOK ==
    /\ clock \in Nat
    /\ stored \in NativeConfig
    /\ resetGeneration \in Nat
    /\ configGeneration \in Nat
    /\ crashHold \in BOOLEAN
    /\ phase \in Phase
    /\ round \in Round
    /\ query \in Query
    /\ decision \in Decision
    /\ cursor \in Cursor
    /\ command \in Command
    /\ finish \in Finish \cup {NotFinished}
    /\ issued \in Seq([type : {"get", "post", "download"}, url : Url, attempt : Nat])
    /\ spoiled \subseteq Nat
    /\ installed \in BOOLEAN
    /\ moved \in BOOLEAN

Init ==
    /\ clock = 1
    /\ stored \in NativeConfig
    /\ resetGeneration = 0
    /\ configGeneration = 0
    /\ crashHold = FALSE
    /\ phase = "idle"
    /\ round = NoRound
    /\ query = NoQuery
    /\ decision = NoDecision
    /\ cursor = FirstAttempt
    /\ command = NoCommand
    /\ finish = NotFinished
    /\ issued = <<>>
    /\ spoiled = {}
    /\ installed = FALSE
    /\ moved = FALSE

-----------------------------------------------------------------------------
(***************************************************************************)
(* What an action does to the round.  now is the time its event carries.   *)
(***************************************************************************)
Await(p, c) ==
    /\ phase' = p
    /\ command' = c
    /\ UNCHANGED finish

End(reason, activated) ==
    /\ phase' = "done"
    /\ command' = NoCommand
    /\ finish' = [reason |-> reason, activated |-> activated]

(* Once a crash is held it stays so.                                       *)
Held == round.crashHold \/ crashHold

Within(now, limit) ==
    IF round.deadline = NoDeadline THEN limit ELSE Min({limit, round.deadline - now})

(* Mutant: the round's deadline is forgotten.                              *)
DeadlineUncapped(now, span) == now + span

DeadlineIn(now, span) ==
    IF round.deadline = NoDeadline THEN now + span ELSE Min({now + span, round.deadline})

Commit(now, content, activate, reason) ==
    Await("committed", [NoCommand EXCEPT !.type = "commit", !.at = now,
                                         !.content = content,
                                         !.activate = activate,
                                         !.reason = reason])

(* The version, its activation and the response in one commit.  JS is not  *)
(* there to activate it once a crash is held.                              *)
CommitVersion(now) == Commit(now, "version", decision.activate \/ Held, "downloaded")

QueryNext(now, at) ==
    \E q \in {at} : \E next \in {NextRequest(q)} :
      IF next.url = NoUrl \/ Within(now, QueryIdle) <= 0
      THEN /\ End("check_failed", FALSE)
           /\ UNCHANGED <<query, issued>>
      ELSE /\ Await("http", [NoCommand EXCEPT !.type = "http", !.url = next.url, !.at = now,
                                              !.until = now + Within(now, QueryCall)])
           /\ query' = next
           /\ issued' = Append(issued, [type |-> IF Post(next) THEN "post" ELSE "get",
                                        url |-> next.url, attempt |-> 0])

(* diff needs a running version to patch; a configuration that is all      *)
(* https downloads nothing in clear.                                       *)
PlanAttempts(attempts) ==
    LET UsableUrl(u) == u # NoUrl /\ ~(IsHttpsOnly(round.config.endpoints) /\ u \in Cleartext)
        kept == [a \in DOMAIN attempts |->
                   [attempts[a] EXCEPT !.urls = Those(@, {i \in DOMAIN @ : UsableUrl(@[i])})]]
        UsableAttempt(a) == a.urls # <<>> /\ (a.type = "diff" => round.origin)
    IN  Those(kept, {a \in DOMAIN kept : UsableAttempt(kept[a])})

(* Mutant: one window for all the strategies.                              *)
OneWindow(now, c) == c.incremental

(* The full strategy, the last one, opens its own window when it is first  *)
(* reached.                                                                *)
FullWindow(now, c) == IF c.full = 0 THEN DeadlineIn(now, DownloadPhase) ELSE c.full

(* The next mirror of the cursor's strategy, or the first mirror of a      *)
(* later one, that still has time.                                         *)
IsFull(a) == decision.attempts[a].type = "full"

Limit(now, c, a) == IF IsFull(a) THEN FullWindow(now, c) ELSE c.incremental

Mirror(c, a) == IF a = c.attempt THEN c.url ELSE 1

Open(now, c) ==
    {a \in c.attempt..Len(decision.attempts) :
       Mirror(c, a) <= Len(decision.attempts[a].urls) /\ Limit(now, c, a) > now}

Download(now, c, next) ==
    \E url \in {decision.attempts[next].urls[Mirror(c, next)]} :
      /\ Await("download", [NoCommand EXCEPT !.type = "download", !.url = url,
                                             !.attempt = next, !.at = now,
                                             !.until = Limit(now, c, next)])
      /\ cursor' = [c EXCEPT !.attempt = next, !.url = Mirror(c, next),
                             !.full = IF IsFull(next) THEN FullWindow(now, c) ELSE @]
      /\ issued' = Append(issued, [type |-> "download", attempt |-> next, url |-> url])

NextAttempt(now, c) ==
    \/ \E open \in {Open(now, c)} : open # {} /\ Download(now, c, Min(open))
    \/ /\ Open(now, c) = {}
       /\ Commit(now, "response", FALSE, "download_failed")
       /\ cursor' = FirstAttempt
       /\ UNCHANGED issued

-----------------------------------------------------------------------------
(***************************************************************************)
(* The adapter's first steps, in the order it takes them: the generations, *)
(* then the configuration.  A round the delayed thread starts has no       *)
(* deadline, even when a crash is held meanwhile.                          *)
(***************************************************************************)
Sample ==
    /\ phase = "idle"
    /\ phase' = "sampled"
    /\ \E deadline \in {NoDeadline} \cup (IF crashHold THEN Deadline ELSE {}) :
         round' = [round EXCEPT !.resetGeneration = resetGeneration,
                                !.configGeneration = configGeneration,
                                !.deadline = deadline]
    /\ UNCHANGED <<clock, world, query, decision, cursor, command, finish, issued,
                   spoiled, installed, moved>>

Start(now) ==
    /\ phase = "sampled"
    /\ round' = [round EXCEPT !.config = stored, !.crashHold = crashHold]
    /\ IF stored.runnable
       THEN Await("env", [NoCommand EXCEPT !.type = "collectEnv", !.at = now])
       ELSE End("rejected", FALSE)
    /\ UNCHANGED <<query, decision, cursor, issued, spoiled, installed>>

(* The native library is missing, or collecting the launch's facts threw.  *)
Abort(now) ==
    /\ phase \in {"sampled", "env"}
    /\ End("internal_error", FALSE)
    /\ UNCHANGED <<round, query, decision, cursor, issued, spoiled, installed>>

OnEnv(now, origin) ==
    /\ phase = "env"
    /\ round' = [round EXCEPT !.origin = origin, !.crashHold = Held]
    /\ \E endpoints \in OrderEndpointCandidates(round.config.endpoints) :
         QueryNext(now, FirstQuery(round.config, endpoints))
    /\ UNCHANGED <<decision, cursor, spoiled, installed>>

Failed == [kind |-> "failed"]
Answers == {[kind |-> "response", response |-> r] : r \in Response}
Listings == {[kind |-> "list", list |-> l] : l \in RemoteList}

Respond(now, response) ==
    /\ \/ /\ response.action = "none"
          /\ Commit(now, "response", FALSE, "none")
          /\ UNCHANGED decision
       \/ /\ response.action = "unsafe"
          /\ End("invalid_response", FALSE)
          /\ UNCHANGED decision
       \/ /\ response.action = "download"
          /\ decision' = [attempts |-> PlanAttempts(response.attempts),
                          activate |-> response.activate]
          /\ Await("installed", [NoCommand EXCEPT !.type = "checkInstalled", !.at = now])
    /\ query' = NoQuery
    /\ UNCHANGED issued

OnHttp(now, reply) ==
    /\ phase = "http"
    /\ round' = [round EXCEPT !.crashHold = Held]
    /\ IF Found(query, reply) THEN Respond(now, reply.response)
       ELSE QueryNext(now, Answered(query, reply)) /\ UNCHANGED decision
    /\ UNCHANGED <<cursor, spoiled, installed>>

(* Mutant: the version directory is there, so the version is installed.    *)
TrustDirectory(now, complete) ==
    /\ phase = "installed"
    /\ round' = [round EXCEPT !.crashHold = Held]
    /\ installed' = complete
    /\ CommitVersion(now)
    /\ UNCHANGED <<query, decision, cursor, issued, spoiled>>

OnInstalled(now, complete) ==
    /\ phase = "installed"
    /\ round' = [round EXCEPT !.crashHold = Held]
    /\ installed' = complete
    /\ IF complete
       THEN CommitVersion(now) /\ UNCHANGED <<cursor, issued>>
       ELSE NextAttempt(now, [FirstAttempt EXCEPT !.incremental = DeadlineIn(now, DownloadPhase)])
    /\ UNCHANGED <<query, decision, spoiled>>

(* Mutant: whatever went wrong, the next mirror may do better.             *)
NextMirror(outcome) == [cursor EXCEPT !.url = @ + 1]

(* Where a failed download leaves the cursor.  Bytes that arrived but do   *)
(* not apply are the same on every mirror; a full download that used up    *)
(* its window leaves time for nothing.                                     *)
AfterFailure(outcome) ==
    CASE outcome = "timedOut" /\ decision.attempts[cursor.attempt].type = "full"
           -> [cursor EXCEPT !.attempt = Len(decision.attempts) + 1]
      [] outcome = "timedOut" /\ decision.attempts[cursor.attempt].type # "full"
           -> [cursor EXCEPT !.attempt = @ + 1, !.url = 1]
      [] outcome = "notApplied" -> [cursor EXCEPT !.attempt = @ + 1, !.url = 1]
      [] outcome = "unreachable" -> [cursor EXCEPT !.url = @ + 1]

OnDownload(now, outcome) ==
    /\ phase = "download"
    /\ outcome = "timedOut" => now >= command.until
    /\ round' = [round EXCEPT !.crashHold = Held]
    /\ installed' = (outcome = "ok")
    /\ spoiled' = IF outcome \in {"timedOut", "notApplied"} THEN spoiled \cup {cursor.attempt}
                  ELSE spoiled
    /\ IF outcome = "ok"
       THEN CommitVersion(now) /\ cursor' = FirstAttempt /\ UNCHANGED issued
       ELSE NextAttempt(now, AfterFailure(outcome))
    /\ UNCHANGED <<query, decision>>

(* Mutant: only a new configuration cancels a round.                       *)
SameConfig == configGeneration = round.configGeneration

(* commitSyncResult compares the reset generation, which a new             *)
(* configuration moves too; the adapter then names which one it was.       *)
Current == resetGeneration = round.resetGeneration

OnCommitted(now, error) ==
    /\ phase = "committed"
    /\ round' = [round EXCEPT !.crashHold = Held]
    /\ \/ error /\ End("commit_failed", FALSE)
       \/ /\ ~error /\ ~Current
          /\ End(IF configGeneration # round.configGeneration THEN "config_changed"
                 ELSE "reset", FALSE)
       \/ ~error /\ Current /\ End(command.reason, command.activate)
    /\ UNCHANGED <<query, decision, cursor, issued, spoiled, installed>>

Event(now) ==
    \/ Start(now)
    \/ Abort(now)
    \/ \E origin \in BOOLEAN : OnEnv(now, origin)
    \/ \E reply \in {Failed} \cup Answers \cup Listings : OnHttp(now, reply)
    \/ \E complete \in BOOLEAN : OnInstalled(now, complete)
    \/ \E outcome \in {"ok", "unreachable", "notApplied", "timedOut"} : OnDownload(now, outcome)
    \/ \E error \in BOOLEAN : OnCommitted(now, error)

Step ==
    /\ \E now \in clock..MaxClock : clock' = now /\ Event(now)
    /\ UNCHANGED <<world, moved>>

-----------------------------------------------------------------------------
(***************************************************************************)
(* What happens around a round.                                            *)
(***************************************************************************)
HoldCrash ==
    /\ phase # "done" /\ ~crashHold
    /\ crashHold' = TRUE
    /\ UNCHANGED <<stored, resetGeneration, configGeneration, moved>>

Reset ==
    /\ phase # "done" /\ resetGeneration < MaxGeneration
    /\ resetGeneration' = resetGeneration + 1
    /\ moved' = (phase # "idle")
    /\ UNCHANGED <<stored, configGeneration, crashHold>>

SetNativeConfig ==
    /\ phase # "done" /\ resetGeneration < MaxGeneration
    /\ stored' \in NativeConfig \ {stored}
    /\ resetGeneration' = resetGeneration + 1
    /\ configGeneration' = configGeneration + 1
    /\ moved' = (phase # "idle")
    /\ UNCHANGED crashHold

World ==
    /\ HoldCrash \/ Reset \/ SetNativeConfig
    /\ UNCHANGED <<clock, engine, issued, spoiled, installed>>

Next == Sample \/ Step \/ World

(* The thread that claimed the round runs it to its end: every command it  *)
(* performs returns, the requests and downloads within their bounds.       *)
Spec == Init /\ [][Next]_vars /\ WF_vars(Sample) /\ WF_vars(Step)

-----------------------------------------------------------------------------
(***************************************************************************)
(* Properties                                                              *)
(***************************************************************************)
Asked(type) == {i \in DOMAIN issued : issued[i].type = type}

(* The query stays bounded whatever the lists hold: no endpoint is asked   *)
(* twice, however it is written and whichever list names it, and the whole *)
(* query costs at most MaxQueryRequests requests (NextQueryStep).          *)
QueryStaysBounded ==
    /\ Cardinality(Asked("get") \cup Asked("post")) <= MaxQueryRequests
    /\ \A i, j \in Asked("post") : issued[i].url = issued[j].url => i = j

(* Under a configuration whose endpoints are all https, no endpoint a      *)
(* fetched list names and no artifact the response names is reached in     *)
(* clear (NextQueryStep, PlanAttempts).                                    *)
StaysOnHttps ==
    IsHttpsOnly(round.config.endpoints) =>
        \A i \in Asked("post") \cup Asked("download") : issued[i].url \notin Cleartext

(* Nothing a round with a deadline starts can outlive the deadline: a      *)
(* crash is let go no later than the hold promised (Within, DeadlineIn).   *)
NothingOutlivesDeadline ==
    round.deadline # NoDeadline /\ command.type \in {"http", "download"} =>
        command.at < command.until /\ command.until <= round.deadline

Tried(a) == {i \in Asked("download") : issued[i].attempt = a}

Full == {a \in DOMAIN decision.attempts : decision.attempts[a].type = "full"}

(* The last resort is not starved by what came before it: without a        *)
(* deadline, a round that gives up on a version has asked for its full     *)
(* package, and the first full download had a whole window.                *)
FullDownloadHasItsWindow ==
    round.deadline = NoDeadline =>
        /\ command.reason = "download_failed" => \A a \in Full : Tried(a) # {}
        /\ command.type = "download" /\ command.attempt \in Full
             /\ Cardinality(Tried(command.attempt)) = 1 =>
               command.until = command.at + DownloadPhase

(* A strategy whose bytes did not apply, or that timed out, is left for    *)
(* good: no other mirror of it is tried, and no mirror twice (OnDownload). *)
SpoiledStrategyIsLeft ==
    command.type = "download" => command.attempt \notin spoiled

(* The three bounds of a round in one: its query, its deadline and the     *)
(* window of its last resort.                                              *)
RoundIsBounded == QueryStaysBounded /\ NothingOutlivesDeadline /\ FullDownloadHasItsWindow

(* What lands belongs to the world it lands in: no reset and no other      *)
(* configuration came between the round's first step and its commit, and   *)
(* the round ran with the configuration that is stored (runOnce samples    *)
(* the generations before it reads the configuration).                     *)
LandsInItsOwnWorld ==
    [][finish' # finish /\ finish'.reason \in {"none", "download_failed", "downloaded"} =>
           ~moved /\ round.config = stored]_vars

Promise == INSTANCE RoundPromise WITH
    stage <- CASE phase = "committed" -> "committing"
               [] phase = "done" -> "over"
               [] OTHER -> "deciding",
    ready <- installed,
    content <- command.content,
    report <- CASE finish.reason = "downloaded" -> "version"
                [] finish.reason \in {"none", "download_failed"} -> "response"
                [] OTHER -> "none"

(* The round keeps its promise: it commits once at most, a version only    *)
(* when a complete install of it was reported, and always ends, telling    *)
(* the host what landed.                                                   *)
KeepsItsPromise == Promise!Spec

==============================================================================
