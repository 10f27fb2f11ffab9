---------------------------- MODULE EndpointQuery ----------------------------
(***************************************************************************)
(* Where a cold-start check is sent (native_round.cpp, NextQueryStep): the *)
(* configured endpoints, then the URLs that serve a list of endpoints,     *)
(* then the endpoints of the first list one of them returned.              *)
(***************************************************************************)
EXTENDS Selection, FiniteSetsExt

CONSTANTS
    Url,        \* entries of the lists
    NoUrl,      \* an entry that is empty or not a string, and no target
    Base,       \* an entry without its trailing slashes
    Cleartext,  \* the entries that are not https
    MaxQueryRequests  \* kMaxQueryRequests

ASSUME UrlAssumption ==
    /\ NoUrl \notin Url
    /\ Cleartext \subseteq Url
    /\ Base \in [Url \cup {NoUrl} -> Url \cup {NoUrl}]
    /\ Base[NoUrl] = NoUrl
    /\ \A u \in Url : Base[u] \in Url => (Base[u] \in Cleartext <=> u \in Cleartext)
    /\ MaxQueryRequests \in Nat

List == Seq(Url \cup {NoUrl})

NoQuery == [list |-> "over", next |-> 0, tried |-> {}, spent |-> 0, url |-> NoUrl,
            endpoints |-> <<>>, queryUrls |-> <<>>, remote |-> <<>>, httpsOnly |-> FALSE]

Query == [list : {"endpoints", "queryUrls", "remote", "over"}, next : Nat,
          tried : SUBSET Url, spent : Nat, url : Url \cup {NoUrl},
          endpoints : List, queryUrls : List, remote : List, httpsOnly : BOOLEAN]

IsHttpsOnly(endpoints) ==
    /\ endpoints # <<>>
    /\ \A i \in DOMAIN endpoints : endpoints[i] \in Url \ Cleartext

(* One endpoint, picked at random, goes first; the others keep their       *)
(* order.  Empty entries and repetitions are gone.                         *)
Candidates(endpoints) ==
    {i \in DOMAIN endpoints : /\ endpoints[i] # NoUrl
                              /\ \A j \in 1..i - 1 : endpoints[j] # endpoints[i]}

StartingWith(endpoints, first) ==
    <<endpoints[first]>> \o Those(endpoints, Candidates(endpoints) \ {first})

OrderEndpointCandidates(endpoints) ==
    IF Candidates(endpoints) = {} THEN {<<>>}
    ELSE {StartingWith(endpoints, first) : first \in Candidates(endpoints)}

FirstQuery(config, endpoints) ==
    [NoQuery EXCEPT !.list = "endpoints",
                    !.endpoints = endpoints,
                    !.queryUrls = config.queryUrls,
                    !.httpsOnly = IsHttpsOnly(config.endpoints)]

Post(q) == q.list # "queryUrls"

Entries(q) == CASE q.list = "endpoints" -> q.endpoints
                [] q.list = "queryUrls" -> q.queryUrls
                [] q.list = "remote" -> q.remote

Target(q, i) == IF Post(q) THEN Base[Entries(q)[i]] ELSE Entries(q)[i]

(* A list's own URL may be fetched whatever it is; an endpoint is asked    *)
(* once, and a fetched one must not leave https.                           *)
Usable(q, target) ==
    /\ target # NoUrl
    /\ Post(q) => target \notin q.tried
    /\ q.list = "remote" /\ q.httpsOnly => target \notin Cleartext

(* Mutant: endpoints are compared as they are written.                     *)
UsableAsWritten(q, i) ==
    LET entry == Entries(q)[i] IN
    /\ Target(q, i) # NoUrl
    /\ Post(q) => entry \notin q.tried
    /\ q.list = "remote" /\ q.httpsOnly => entry \notin Cleartext

(* Mutant: a fetched list may name any endpoint.                           *)
UsableInClear(q, i) ==
    /\ Target(q, i) # NoUrl
    /\ Post(q) => Target(q, i) \notin q.tried

UsableAt(q, i) == Usable(q, Target(q, i))

Left(q) == {i \in q.next + 1..Len(Entries(q)) : UsableAt(q, i)}

(* The configured endpoints are followed by the lists; a fetched list is   *)
(* the last.                                                               *)
Ahead(q) == {q} \cup (IF q.list = "endpoints"
                      THEN {[q EXCEPT !.list = "queryUrls", !.next = 0]} ELSE {})

Ask(q, i) ==
    [q EXCEPT !.next = i,
              !.url = Target(q, i),
              !.tried = IF Post(q) THEN @ \cup {Target(q, i)} ELSE @,
              !.spent = @ + 1]

Over(q) == [q EXCEPT !.list = "over", !.url = NoUrl]

(* The first usable entry of the current list, or else of the next one.    *)
NextRequest(q) ==
    LET asks == {Ask(p, Min(Left(p))) : p \in {p \in Ahead(q) : Left(p) # {}}}
        here == {ask \in asks : ask.list = q.list}
    IN  IF asks = {} \/ q.spent >= MaxQueryRequests THEN Over(q)
        ELSE CHOOSE ask \in asks : here # {} => ask \in here

(* What a reply does to the query: only a list changes where it goes on.   *)
Answered(q, reply) ==
    IF ~Post(q) /\ reply.kind = "list"
    THEN [q EXCEPT !.url = NoUrl, !.list = "remote", !.remote = reply.list, !.next = 0]
    ELSE [q EXCEPT !.url = NoUrl]

Found(q, reply) == Post(q) /\ reply.kind = "response"

==============================================================================
