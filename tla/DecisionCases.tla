---------------------------- MODULE DecisionCases ----------------------------
(***************************************************************************)
(* The decisions of UpdateDecisions on every combination of a device and a *)
(* response: each combination is an initial state.                         *)
(***************************************************************************)
EXTENDS UpdateDecisions

CONSTANTS
    Offer,         \* the releases a response may name
    PartialOffer,  \* those it may name for a part of the devices
    Rollout,       \* the part, of a hundred; 101 stands for none
    Device,        \* what a device knows of itself
    Paths,         \* the lists of mirrors of a response
    Extra          \* the fields a caller adds to a request

Announced(r) == DOMAIN r = DOMAIN NoRelease /\ r.update \in BOOLEAN

ASSUME DecisionAssumption ==
    /\ \A r \in Offer \cup PartialOffer : Announced(r)
    /\ Rollout \subseteq 0..101
    /\ Device # {}
    /\ \A device \in Device : device.isDev \in BOOLEAN /\ device.bucket \in 0..99
    /\ \A extra \in Extra : DOMAIN extra = {} => extra = <<>>

VARIABLE sample
decisionVars == sample

DecisionsInit ==
    sample \in [root : Offer, candidate : {NoRelease} \cup PartialOffer, rollout : Rollout,
               device : Device, paths : Paths]

Chosen == ResolveCheckResult([root |-> sample.root, candidate |-> sample.candidate,
                              rollout |-> sample.rollout], sample.device)
Decided == DecideDownload(Chosen, sample.paths, sample.device)

(* Whatever the server answers: the running and the rolled-back version    *)
(* are not downloaded, a device outside the rollout never gets the         *)
(* candidate, a plan has an artifact with mirrors and ends with the full   *)
(* one if there is one, dev builds get no incremental one, and deciding    *)
(* again changes nothing, as resolveForThisDevice's comment says.          *)
PlanFitsDevice ==
    LET again == ResolveCheckResult([root |-> Chosen, candidate |-> NoRelease,
                                     rollout |-> 101], sample.device)
        types == [i \in DOMAIN Decided.attempts |-> Decided.attempts[i].type]
    IN  /\ Decided.action = "download" =>
            /\ Chosen.hash \notin {"", sample.device.currentVersion,
                                   sample.device.rolledBackVersion}
            /\ \/ Chosen.hash = sample.root.hash
               \/ sample.device.bucket < sample.rollout /\ sample.rollout \in 1..100
            /\ Decided.attempts # <<>> \/ sample.device.isDev
            /\ \A i \in DOMAIN types :
                /\ Decided.attempts[i].urls # <<>>
                /\ types[i] = "full" => i = Len(types)
                /\ sample.device.isDev => types[i] = "full"
        /\ again = Chosen
        /\ Chosen.update => Chosen.hash # sample.device.currentVersion \/ Chosen.hash = ""

(* The server keys its decision on what the SDK says of the binary: no     *)
(* field a caller adds replaces one of those or stands in for one that is  *)
(* not known, and the caller's fields arrive nested whatever they are.     *)
RequestIsTheDevices ==
    \A extra \in Extra :
        LET body == BuildCheckRequestBody(sample.device, extra) IN
        /\ body.packageVersion = sample.device.packageVersion
        /\ body.hash = sample.device.currentVersion
        /\ "bundleHash" \in DOMAIN body <=> sample.device.bundleHash # ""
        /\ "buildTime" \in DOMAIN body <=> ~sample.device.isDev
        /\ extra # <<>> => body.extra = extra

(* What the client asks and what it makes of the answer are both about the *)
(* device it runs on.                                                      *)
DecisionFitsDevice == RequestIsTheDevices /\ PlanFitsDevice
=============================================================================
