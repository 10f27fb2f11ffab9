---------------------------- MODULE MCRoundEngine ----------------------------
(***************************************************************************)
(* Two configurations that run, one of them https only, and one that does  *)
(* not; lists that repeat an endpoint under another spelling, or name one  *)
(* in clear; responses with one, two or three strategies.                  *)
(***************************************************************************)
EXTENDS RoundEngine, TLC

CONSTANTS a, aSlash, b, c

MCBase == [u \in {a, b, c, NoUrl} |-> u] @@ (aSlash :> a)

MCNativeConfig ==
    {[runnable |-> TRUE, endpoints |-> <<a, aSlash>>, queryUrls |-> <<b, NoUrl, a>>],
     [runnable |-> TRUE, endpoints |-> <<c>>, queryUrls |-> <<>>],
     [runnable |-> FALSE, endpoints |-> <<a>>, queryUrls |-> <<>>]}

MCRemoteList == {<<aSlash, c, b>>, <<>>}

Strategies(types) ==
    LET all == <<[type |-> "diff", urls |-> <<a, b>>],
                 [type |-> "pdiff", urls |-> <<c, b>>],
                 [type |-> "full", urls |-> <<b, a>>]>>
    IN  SelectSeq(all, LAMBDA s : s.type \in types)

MCResponse ==
    {[action |-> "none", attempts |-> <<>>, activate |-> FALSE],
     [action |-> "unsafe", attempts |-> <<>>, activate |-> TRUE],
     [action |-> "download", attempts |-> Strategies({"full"}), activate |-> TRUE],
     [action |-> "download", attempts |-> Strategies({"diff", "full"}), activate |-> FALSE],
     [action |-> "download", attempts |-> Strategies({"diff", "pdiff", "full"}),
      activate |-> FALSE]}
==============================================================================
