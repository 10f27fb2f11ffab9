------------------------------- MODULE Harmony -------------------------------
(***************************************************************************)
(* The Harmony port as a whole.  Its parts talk through calls that each    *)
(* part's module already offers in every order, and share no variable, so  *)
(* each behaviour runs one of them and the others stay where they start.   *)
(***************************************************************************)
EXTENDS HarmonyContext, HarmonyDownload, HarmonyCoordinator, StoreMigration, HarmonyHandles

VARIABLE part

Part == {"context", "download", "coordinator", "migration", "handles"}

HarmonyInit ==
    /\ part \in Part
    /\ ContextInit /\ DownloadInit /\ CoordinatorInit /\ MigrationInit /\ HandlesInit

PartsRest ==
    /\ UNCHANGED part
    /\ IF part = "context" THEN TRUE ELSE UNCHANGED contextVars
    /\ IF part = "download" THEN TRUE ELSE UNCHANGED downloadVars
    /\ IF part = "coordinator" THEN TRUE ELSE UNCHANGED coordinatorVars
    /\ IF part = "migration" THEN TRUE ELSE UNCHANGED migrationVars
    /\ IF part = "handles" THEN TRUE ELSE UNCHANGED handleVars

HarmonyNext ==
    /\ PartsRest
    /\ \/ part = "context" /\ ContextNext
       \/ part = "download" /\ DownloadNext
       \/ part = "coordinator" /\ CoordinatorNext
       \/ part = "migration" /\ MigrationNext
       \/ part = "handles" /\ HandlesNext

harmonyVars == <<part, contextVars, downloadVars, coordinatorVars, migrationVars, handleVars>>

(* The awaits of a round are bounded by the deadlines of the engine, a     *)
(* download by that of its attempt; a settled promise is delivered.        *)
HarmonyFairness ==
    WF_<<round, host>>(part = "coordinator" /\ (RoundAnswers \/ \E h \in Host : HostReturns(h)))

HarmonySpec == HarmonyInit /\ [][HarmonyNext]_harmonyVars

-----------------------------------------------------------------------------
(* Every variable of the port has its type.                                *)
HarmonyTypeOK ==
    /\ ContextTypeOK /\ DownloadTypeOK /\ CoordinatorTypeOK
    /\ MigrationTypeOK /\ HandlesTypeOK

(* A host that waits for the round is told, whatever hangs in a download.  *)
HostsReturn == []<>NobodyWaits
=============================================================================
