------------------------------- MODULE Reporter -------------------------------
(***************************************************************************)
(* Error reporting beside other integrations (clientReporter.ts,           *)
(* errorReporting.ts): React Native has one global error handler; each     *)
(* integration wraps the one it finds, and takes its own out again only    *)
(* while nobody has wrapped it.                                            *)
(***************************************************************************)
EXTENDS Naturals, FiniteSets, Sequences

CONSTANTS
    Thrown,      \* exceptions that are objects; others are not remembered
    MaxInstalls, \* bound: handlers ever installed
    MaxThrows    \* bound: exceptions thrown

ASSUME ReporterBounds == MaxInstalls \in Nat

VARIABLES
    next,      \* per handler installed, the one it chains; 0 is the app's own
    owner,     \* per handler, whose it is
    top,       \* the global handler
    wrapper,   \* globalErrorCleanup: the handler it would take out, 0 for none
    reporting, \* neither telemetry nor error reporting is disabled
    release,   \* the process runs an OTA version, in a release build
    reported,  \* reportedExceptions
    throws,
    \* History variables: no action's guard reads them.
    posted,    \* the reports sent, in order
    reached    \* how often the app's own handler was called

reporterVars == <<next, owner, top, wrapper, reporting, release, reported, throws, posted, reached>>

Handler == 1..MaxInstalls
Installed == Len(next)

ReporterTypeOK ==
    /\ next \in Seq(0..MaxInstalls)
    /\ owner \in Seq({"client", "other"}) /\ Len(owner) = Len(next)
    /\ top \in 0..Installed
    /\ wrapper \in 0..Installed
    /\ reporting \in BOOLEAN /\ release \in BOOLEAN
    /\ reported \subseteq Thrown

ReporterInit ==
    /\ next = <<>> /\ owner = <<>> /\ top = 0
    /\ wrapper = 0
    /\ reporting = FALSE /\ release \in BOOLEAN
    /\ reported = {}
    /\ throws = 0
    /\ posted = <<>> /\ reached = 0

-----------------------------------------------------------------------------
(* The handlers an exception passes: the global one, and after each the    *)
(* one it chains.                                                          *)
Passed(hs) == top \in hs /\ \A h \in hs \ {0} : next[h] \in hs
Chain == {h \in 0..Installed : \A hs \in SUBSET (0..Installed) : Passed(hs) => h \in hs}
ChainOf(who) == {h \in Chain \ {0} : owner[h] = who}

Wraps(who) ==
    /\ Installed < MaxInstalls
    /\ next' = Append(next, top)
    /\ owner' = Append(owner, who)
    /\ top' = Installed + 1

(* Mutant: the handler found at install time is put back in any case.      *)
TakeOutAlways(h) == top' = next[h]

TakeOut(h) == top' = IF top = h THEN next[h] ELSE top

(* syncAutomaticErrorReporting after setOptions; the cleanup runs once.    *)
SetReporting(on) ==
    /\ reporting' = on
    /\ IF on
       THEN IF wrapper = 0
            THEN Wraps("client") /\ wrapper' = Installed + 1
            ELSE UNCHANGED <<next, owner, top, wrapper>>
       ELSE /\ IF wrapper = 0 THEN UNCHANGED top ELSE TakeOut(wrapper)
            /\ wrapper' = 0
            /\ UNCHANGED <<next, owner>>
    /\ UNCHANGED <<reported, throws, posted, reached>>

(* The cleanup enableErrorReporting handed out, called by the app.         *)
CleanUp ==
    /\ wrapper # 0
    /\ TakeOut(wrapper)
    /\ wrapper' = 0
    /\ UNCHANGED <<next, owner, reporting, reported, throws, posted, reached>>

OtherInstalls ==
    /\ Wraps("other")
    /\ UNCHANGED <<wrapper, reporting, reported, throws, posted, reached>>

OtherLeaves ==
    /\ top # 0 /\ owner[top] = "other"
    /\ top' = next[top]
    /\ UNCHANGED <<next, owner, wrapper, reporting, reported, throws, posted, reached>>

(* captureException, by each wrapper of the client that is passed: one of  *)
(* them reports, when there is a release to report about.                  *)
Throw(e) ==
    /\ throws < MaxThrows
    /\ throws' = throws + 1
    /\ IF release /\ reporting /\ ChainOf("client") # {} /\ e \notin reported
       THEN reported' = reported \cup {e} /\ posted' = Append(posted, e)
       ELSE UNCHANGED <<reported, posted>>
    /\ reached' = reached + 1
    /\ UNCHANGED <<next, owner, top, wrapper, reporting>>

ReporterNext ==
    /\ UNCHANGED release
    /\ \/ \E on \in BOOLEAN : SetReporting(on)
       \/ CleanUp \/ OtherInstalls \/ OtherLeaves
       \/ \E e \in Thrown : Throw(e)

-----------------------------------------------------------------------------
(* Whatever the client does about its own handler, those of the other      *)
(* integrations stay in the chain and still come before the app's own      *)
(* (installGlobalErrorHandler: without taking ownership away from a        *)
(* handler installed later).                                               *)
HandlersOfOthersStay ==
    [][(\E on \in BOOLEAN : SetReporting(on)) \/ CleanUp =>
        ChainOf("other")' = ChainOf("other")]_reporterVars
=============================================================================
