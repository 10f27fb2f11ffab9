------------------------------ MODULE MCJsClient ------------------------------
(***************************************************************************)
(* The JS client in one run: what its lists and plans are, and where a     *)
(* part that does not run starts.  updates spends two calls, switches all  *)
(* of MaxCalls.                                                            *)
(***************************************************************************)
EXTENDS JsClient

CONSTANTS m, n, x

MCPlan == {<<[type |-> "diff", urls |-> <<m, n>>], [type |-> "full", urls |-> <<m>>]>>}
MCConfigured == {<<>>, <<"a">>, <<"a", "b", "a", "c">>}
MCListed == {<<>>, <<"d", "c", "x", "e">>, <<"f">>}
MCIsHttps(e) == e # "x"

MCOffer == [update : BOOLEAN, hash : {"", "v1", "v2"}, diff : {"", "d"}, pdiff : {""},
            full : {"", "f"}]
MCPartialOffer == {r \in MCOffer : r.update /\ r.hash # "" /\ r.diff # ""}
MCDevice == [packageVersion : {"1.0"}, currentVersion : {"", "v1"}, buildTime : {"1"},
             bundleHash : {"", "b"}, isDev : BOOLEAN, rolledBackVersion : {"", "v2"},
             bucket : {49, 50}]
MCPaths == {<<[scheme |-> "", host |-> "cdn"], [scheme |-> "http", host |-> "own"]>>}
MCExtra == {<<>>, [toHash |-> "v9"], [hash |-> "v9", packageVersion |-> "9.0"],
            [bundleHash |-> "b9", buildTime |-> "9"]}

(* The parts that rest have one start each: what can be chosen is chosen   *)
(* before the parts' own initial predicates are evaluated.                 *)
MCInit ==
    /\ part \in Part
    /\ callCount = IF part = "updates" THEN MaxCalls - 2 ELSE 0
    /\ installed \in IF part \in {"updates", "switches"} THEN {{}, Hash} ELSE {{}}
    /\ config = NoCheckConfig
    /\ cache \in IF Rests("checks") THEN {NoCache}
                 ELSE {r \in CachedResponse : r.question = x} \cup {NoCache}
    /\ stored \in IF Rests("config") THEN {NoConfig} ELSE MaybeConfig
    /\ strategy \in IF Rests("provider") THEN {"alert"} ELSE Strategies
    /\ checkStrategy \in IF Rests("provider") THEN {"none"} ELSE Checks
    /\ release \in IF Rests("errors") THEN {TRUE} ELSE BOOLEAN
    /\ JsInit

MCSpec == MCInit /\ [][JsNext]_jsVars /\ WF_jsVars(JsDelivers)
=============================================================================
