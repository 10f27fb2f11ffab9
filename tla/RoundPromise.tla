---------------------------- MODULE RoundPromise -----------------------------
(***************************************************************************)
(* What one cold-start round promises its host: it decides, commits at     *)
(* most once, carries a version only when a complete install of it is      *)
(* known, always ends, and reports exactly what its commit did.            *)
(***************************************************************************)
VARIABLES
    stage,    \* deciding, committing or over
    ready,    \* a complete install of the version is known to be there
    content,  \* what the commit in progress carries: nothing, the response, or a version
    report    \* what the host is told landed

vars == <<stage, ready, content, report>>

Content == {"none", "response", "version"}

Init ==
    /\ stage = "deciding"
    /\ ready = FALSE
    /\ content = "none"
    /\ report = "none"

(* The install completes or is found, possibly while the round asks for    *)
(* the commit.                                                             *)
Prepare ==
    /\ stage = "deciding"
    /\ ready' = TRUE
    /\ UNCHANGED <<stage, content, report>>

AskToCommit ==
    /\ stage = "deciding"
    /\ stage' = "committing"
    /\ ready' \in {ready, TRUE}
    /\ content' \in Content \ {"none"}
    /\ content' = "version" => ready'
    /\ UNCHANGED report

(* Nothing to commit: the round ends with a failure or a refusal.          *)
GiveUp ==
    /\ stage = "deciding"
    /\ stage' = "over"
    /\ UNCHANGED <<ready, content, report>>

Land ==
    /\ stage = "committing"
    /\ stage' = "over"
    /\ report' = content
    /\ content' = "none"
    /\ UNCHANGED ready

(* A reset or another configuration came first, or the write failed.       *)
Refuse ==
    /\ stage = "committing"
    /\ stage' = "over"
    /\ content' = "none"
    /\ UNCHANGED <<ready, report>>

Next == Prepare \/ AskToCommit \/ GiveUp \/ Land \/ Refuse

(* A round that was asked for ends.                                        *)
Ends == <>(stage = "over")

Spec == Init /\ [][Next]_vars /\ Ends

==============================================================================
