------------------------------ MODULE StateCore ------------------------------
(***************************************************************************)
(* The shared state core, cpp/patch_core/state_core.cpp: the pure          *)
(* operations every platform applies to the persisted update state.  A     *)
(* state says which binary it belongs to, which version the next launch    *)
(* loads (current), which one it falls back to (last), how far the         *)
(* first-launch protocol of current has got, and which version was rolled  *)
(* back.                                                                   *)
(*                                                                         *)
(* An empty string of the code is NoVersion here.  packageVersion and      *)
(* buildTime are only ever compared and replaced together, so they are one *)
(* value, the binary.                                                      *)
(*                                                                         *)
(*   firstTime  firstTimeOk   meaning                                      *)
(*   TRUE       FALSE         activated, not launched yet                  *)
(*   FALSE      FALSE         launched once, not confirmed by markSuccess  *)
(*   FALSE      TRUE          confirmed, or nothing to confirm             *)
(***************************************************************************)

CONSTANTS
    Version,    \* the hashes of the published versions
    NoVersion,  \* no version: as a version to load, the packaged bundle
    Binary      \* the builds of the app a store may install

ASSUME NoVersionAssumption == NoVersion \notin Version
ASSUME BinaryAssumption == Binary # {}

MaybeVersion == Version \cup {NoVersion}

State == [binary : Binary,
          current : MaybeVersion,
          last : MaybeVersion,
          firstTime : BOOLEAN,
          firstTimeOk : BOOLEAN,
          rolledBack : MaybeVersion]

(* What a fresh install, an upgrade and a reset all leave behind.          *)
FreshState(b) == [binary |-> b,
                  current |-> NoVersion,
                  last |-> NoVersion,
                  firstTime |-> FALSE,
                  firstTimeOk |-> TRUE,
                  rolledBack |-> NoVersion]

(***************************************************************************)
(* The operations                                                          *)
(***************************************************************************)

SyncBinaryVersion(s, b) == IF s.binary = b THEN s ELSE FreshState(b)

(* Mutant: switching to the current version makes it its own fallback.     *)
SwitchVersionKeepingSelf(s, v) ==
    [s EXCEPT !.last = IF s.current # NoVersion THEN s.current ELSE @,
              !.current = v,
              !.firstTime = TRUE,
              !.firstTimeOk = FALSE,
              !.rolledBack = NoVersion]

SwitchVersion(s, v) ==
    [s EXCEPT !.last = IF s.current \notin {NoVersion, v} THEN s.current ELSE @,
              !.current = v,
              !.firstTime = TRUE,
              !.firstTimeOk = FALSE,
              !.rolledBack = NoVersion]

(* The version markSuccess gives up: its info and its files are now stale. *)
StaleVersion(s) == IF s.last # s.current THEN s.last ELSE NoVersion

MarkSuccess(s) ==
    [s EXCEPT !.firstTime = FALSE,
              !.firstTimeOk = TRUE,
              !.last = IF StaleVersion(s) # NoVersion THEN NoVersion ELSE @]

ClearRollbackMark(s) == [s EXCEPT !.rolledBack = NoVersion]

Rollback(s) ==
    [s EXCEPT !.current = s.last,
              !.last = NoVersion,
              !.firstTime = FALSE,
              !.firstTimeOk = TRUE,
              !.rolledBack = s.current]

ShouldRollbackForBrokenFirstLoad(s) == ~s.firstTime /\ ~s.firstTimeOk

(* Mutant: only a rollback to another version counts.                      *)
DidRollbackToVersion(s, ignoreRollback) ==
    /\ s.last # NoVersion
    /\ ~ignoreRollback
    /\ ShouldRollbackForBrokenFirstLoad(s)

(***************************************************************************)
(* ResolveLaunchState, with consume_first_time_on_launch = true as the     *)
(* Android port calls it: the decision is the state to persist and which   *)
(* of the two launch events, if any, took place.                           *)
(***************************************************************************)
DidRollback(s, ignoreRollback) ==
    /\ s.current # NoVersion
    /\ ~ignoreRollback
    /\ ShouldRollbackForBrokenFirstLoad(s)

ConsumedFirstTime(s, ignoreRollback) ==
    /\ s.current # NoVersion
    /\ ~ignoreRollback
    /\ s.firstTime

ResolveLaunchState(s, ignoreRollback) ==
    IF DidRollback(s, ignoreRollback) THEN Rollback(s)
    ELSE IF ConsumedFirstTime(s, ignoreRollback) THEN [s EXCEPT !.firstTime = FALSE]
    ELSE s

(***************************************************************************)
(* What every reachable state looks like.  A fallback exists only beside a *)
(* current version and is another version; the rolled-back version is not  *)
(* the one the next launch loads; a version waiting for its first launch   *)
(* is not confirmed; and only a version can be unconfirmed.                *)
(***************************************************************************)
Coherent(s) ==
    /\ s.last # NoVersion => s.current \notin {NoVersion, s.last}
    /\ s.rolledBack # NoVersion => s.current # s.rolledBack
    /\ s.firstTime => ~s.firstTimeOk
    /\ ~s.firstTimeOk => s.current # NoVersion
=============================================================================
