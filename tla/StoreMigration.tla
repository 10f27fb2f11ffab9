--------------------------- MODULE StoreMigration ---------------------------
(***************************************************************************)
(* The one-time move of an install into the state store, as the Harmony    *)
(* port performs it (StoreSchema.migrateStore, called by the constructor   *)
(* of UpdateContext.ts) by the plan of cpp/patch_core/stored_items.cpp,    *)
(* which every port shares.                                                *)
(*                                                                         *)
(* An item of a store holds nothing, what the SDK before wrote ("legacy"), *)
(* what this one wrote ("ours"), or what a later one did ("later"), before *)
(* the user went back to this binary.  The binary that carries this SDK is *)
(* another build than the one that wrote the items it finds.               *)
(***************************************************************************)
EXTENDS Naturals

CONSTANT MaxBoots   \* bound: launches in a behaviour

ASSUME BootsAssumption == MaxBoots \in Nat \ {0}

Carried == {"uuid", "binary", "config"}   \* items the plan moves; the update state is dropped
Empty == "empty"
Value == {Empty, "legacy", "ours", "later"}
Items == [Carried \cup {"schema"} -> Value]
LegacyItems == [Carried -> {Empty, "legacy"}]

VARIABLES
    state, stateFile,    \* the state store in memory and on disk
    legacy, legacyFile,  \* the legacy store
    up,                  \* whether the process runs
    step,                \* what migrateStore awaits
    dirty,               \* whether another flush of the state store is under way
    boots,
    unread               \* history: a launch could not open the legacy store

migrationVars == <<state, stateFile, legacy, legacyFile, up, step, dirty, boots, unread>>

MigrationTypeOK ==
    /\ {state, stateFile} \subseteq Items
    /\ {legacy, legacyFile} \subseteq LegacyItems
    /\ up \in BOOLEAN /\ dirty \in BOOLEAN /\ unread \in BOOLEAN
    /\ step \in {"none", "flushing", "removing"}
    /\ boots \in 0 .. MaxBoots

(* The first launch of the new binary: an install that has a uuid and may  *)
(* have a native configuration.  If a later SDK owns the store, what the   *)
(* legacy store holds is what an older binary left there since, if any.    *)
MigrationInit ==
    /\ \E c \in {Empty, "legacy"} :
          \/ /\ state = [i \in Carried \cup {"schema"} |-> Empty]
             /\ legacy = [i \in Carried |-> IF i = "config" THEN c ELSE "legacy"]
          \/ /\ state = [i \in Carried \cup {"schema"} |-> "later"]
             /\ legacy = [i \in Carried |-> c]
    /\ legacyFile = legacy /\ stateFile = state
    /\ up = FALSE /\ step = "none" /\ dirty = FALSE /\ boots = 0 /\ unread = FALSE

-----------------------------------------------------------------------------
(***************************************************************************)
(* The plan (MigrateStoredItems)                                           *)
(***************************************************************************)
Planned(s) == s["schema"] = Empty
LaterOwns(s) == s["schema"] = "later"

(* Mutant: the legacy value wins.                                          *)
PutsOverwriting(s, l) ==
    [i \in DOMAIN s |-> IF i = "schema" THEN "ours"
                        ELSE IF l[i] # Empty THEN l[i] ELSE s[i]]

Puts(s, l) ==
    [i \in DOMAIN s |-> IF i = "schema" THEN "ours"
                        ELSE IF s[i] = Empty THEN l[i] ELSE s[i]]

CarryUuid(s, l) == [s EXCEPT !["uuid"] = IF @ = Empty THEN l["uuid"] ELSE @]

(* syncStateWithBinaryVersion, on what the migration left in memory.       *)
SyncBinary(s) ==
    [s EXCEPT !["binary"] = "ours"]

Removed == [i \in Carried |-> Empty]

(***************************************************************************)
(* Launches                                                                *)
(***************************************************************************)
Starts(s, l, next, failed) ==
    /\ ~up /\ up' = TRUE
    /\ boots < MaxBoots /\ boots' = boots + 1
    /\ state' = SyncBinary(s)
    /\ legacy' = l
    /\ step' = next
    /\ dirty' = (state' # stateFile /\ next # "flushing")
    /\ unread' = (unread \/ failed)
    /\ UNCHANGED <<stateFile, legacyFile>>

(* migrateLegacyStore, and the part of migrateStore before its first await. *)
LegacyUnreadable == Starts(stateFile, legacyFile, "none", TRUE)

PlanFails == Starts(CarryUuid(stateFile, legacyFile), legacyFile, "none", FALSE)

Migrates ==
    /\ Planned(stateFile)
    /\ Starts(Puts(stateFile, legacyFile), legacyFile, "flushing", FALSE)

AlreadyMigrated ==
    /\ ~Planned(stateFile) /\ ~LaterOwns(stateFile)
    /\ Starts(stateFile, Removed, IF legacyFile = Removed THEN "none" ELSE "removing", FALSE)

(* What a later SDK owns is read; nothing is moved and nothing removed.    *)
LeftToLater ==
    /\ LaterOwns(stateFile)
    /\ Starts(stateFile, legacyFile, "none", FALSE)

(* The legacy keys go once the state store's flush succeeded.              *)
(* Mutant: they go whether or not it did.                                  *)
RemovesAnyway(ok) == legacy' = Removed /\ step' = "removing"
Removes(ok) ==
    IF ok THEN legacy' = Removed /\ step' = "removing"
    ELSE legacy' = legacy /\ step' = "none"

MigrationFlushEnds(ok) ==
    /\ step = "flushing"
    /\ stateFile' = IF ok THEN state ELSE stateFile
    /\ Removes(ok)
    /\ UNCHANGED <<state, legacyFile, up, dirty, boots, unread>>

LegacyFlushEnds ==
    /\ step = "removing" /\ step' = "none"
    /\ legacyFile' \in {legacy, legacyFile}
    /\ UNCHANGED <<state, stateFile, legacy, up, dirty, boots, unread>>

FlushEndsLater ==
    /\ dirty /\ dirty' = FALSE
    /\ stateFile' \in {state, stateFile}
    /\ UNCHANGED <<state, legacy, legacyFile, up, step, boots, unread>>

(***************************************************************************)
(* The app: JS draws a uuid when it finds none, and writes configurations, *)
(* for which native code draws one when there is none.                     *)
(***************************************************************************)
Drawn(s) == [s EXCEPT !["uuid"] = IF @ = Empty THEN "ours" ELSE @]

DrawsUuid ==
    /\ up /\ state["uuid"] = Empty
    /\ state' = Drawn(state) /\ dirty' = TRUE
    /\ UNCHANGED <<stateFile, legacy, legacyFile, up, step, boots, unread>>

WritesConfig ==
    /\ up /\ state["config"] # "ours"
    /\ state' = [Drawn(state) EXCEPT !["config"] = "ours"] /\ dirty' = TRUE
    /\ UNCHANGED <<stateFile, legacy, legacyFile, up, step, boots, unread>>

Killed ==
    /\ up /\ up' = FALSE
    /\ step' = "none" /\ dirty' = FALSE
    /\ state' = stateFile /\ legacy' = legacyFile
    /\ UNCHANGED <<stateFile, legacyFile, boots, unread>>

MigrationAnswers ==
    \/ \E ok \in BOOLEAN : MigrationFlushEnds(ok)
    \/ LegacyFlushEnds \/ FlushEndsLater

MigrationNext ==
    \/ LegacyUnreadable \/ PlanFails \/ Migrates \/ AlreadyMigrated \/ LeftToLater
    \/ MigrationAnswers \/ DrawsUuid \/ WritesConfig \/ Killed

MigrationSpec == MigrationInit /\ [][MigrationNext]_migrationVars

-----------------------------------------------------------------------------
(***************************************************************************)
(* Properties                                                              *)
(***************************************************************************)
(* What the install is known by: the uuid a later SDK stored, or the one   *)
(* of the SDK before.                                                      *)
Identity == IF LaterOwns(stateFile) THEN "later" ELSE "legacy"

(* The identity of the install survives the move, wherever the process     *)
(* dies and whichever flush or plan fails: it is always in one of the two  *)
(* files, and a process that could read them runs with it.  Whatever could *)
(* not be read, one of the files holds a uuid, and once that of the state  *)
(* store does, every process runs with that one: a legacy store that opens *)
(* again does not win it back.                                             *)
UuidSurvives ==
    /\ ~unread =>
          /\ Identity \in {stateFile["uuid"], legacyFile["uuid"]}
          /\ up => state["uuid"] = Identity
    /\ {stateFile["uuid"], legacyFile["uuid"]} # {Empty}
    /\ up /\ stateFile["uuid"] # Empty => state["uuid"] = stateFile["uuid"]

(* What the comment of migrateLegacyStore says: when the move fails, the   *)
(* launch is that of a fresh install, but the install keeps its uuid.  It  *)
(* does not hold of a legacy store that cannot be opened.                  *)
IdentityIsKept == Identity \in {stateFile["uuid"], legacyFile["uuid"]}

(* A configuration this SDK stored is not replaced by the one it migrates, *)
(* a migration that runs again after a failure included.                   *)
StoreWins == [][stateFile["config"] = "ours" => stateFile'["config"] = "ours"]_migrationVars
=============================================================================
