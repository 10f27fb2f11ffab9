--------------------------- MODULE StateCoreProofs ---------------------------
(***************************************************************************)
(* What each operation of the state core preserves, for every state it may *)
(* be given: the result is a state, and a coherent one if the argument is. *)
(***************************************************************************)
EXTENDS StateCore, TLAPS

(* A fresh install, an upgrade and a reset leave a coherent state.         *)
LEMMA FreshStateCoherent ==
    ASSUME NEW b \in Binary
    PROVE  FreshState(b) \in State /\ Coherent(FreshState(b))
BY NoVersionAssumption DEF FreshState, State, MaybeVersion, Coherent

(* SyncBinaryVersion keeps the state of this binary and drops any other.   *)
LEMMA SyncBinaryVersionCoherent ==
    ASSUME NEW s \in State, NEW b \in Binary, Coherent(s)
    PROVE  SyncBinaryVersion(s, b) \in State /\ Coherent(SyncBinaryVersion(s, b))
BY FreshStateCoherent DEF SyncBinaryVersion

(* SwitchVersion: the version switched away from becomes the fallback,     *)
(* unless it is the same one or none.                                      *)
LEMMA SwitchVersionCoherent ==
    ASSUME NEW s \in State, NEW v \in Version, Coherent(s)
    PROVE  SwitchVersion(s, v) \in State /\ Coherent(SwitchVersion(s, v))
BY NoVersionAssumption DEF SwitchVersion, State, MaybeVersion, Coherent

(* MarkSuccess confirms current and drops the fallback.                    *)
LEMMA MarkSuccessCoherent ==
    ASSUME NEW s \in State, Coherent(s)
    PROVE  MarkSuccess(s) \in State /\ Coherent(MarkSuccess(s))
BY DEF MarkSuccess, StaleVersion, State, MaybeVersion, Coherent

(* ClearRollbackMark forgets the condemned version and nothing else.        *)
LEMMA ClearRollbackMarkCoherent ==
    ASSUME NEW s \in State, Coherent(s)
    PROVE  ClearRollbackMark(s) \in State /\ Coherent(ClearRollbackMark(s))
BY DEF ClearRollbackMark, State, MaybeVersion, Coherent

(* Rollback: the condemned version is not the one it falls back to.        *)
LEMMA RollbackCoherent ==
    ASSUME NEW s \in State, Coherent(s)
    PROVE  Rollback(s) \in State /\ Coherent(Rollback(s))
BY NoVersionAssumption DEF Rollback, State, MaybeVersion, Coherent

(* ResolveLaunchState either rolls back, starts the first load or changes  *)
(* nothing.                                                                *)
LEMMA ResolveLaunchStateCoherent ==
    ASSUME NEW s \in State, NEW i \in BOOLEAN, Coherent(s)
    PROVE  ResolveLaunchState(s, i) \in State /\ Coherent(ResolveLaunchState(s, i))
<1>1. CASE DidRollback(s, i)
  BY <1>1, RollbackCoherent DEF ResolveLaunchState
<1>2. CASE ~DidRollback(s, i) /\ ConsumedFirstTime(s, i)
  <2>1. ResolveLaunchState(s, i) = [s EXCEPT !.firstTime = FALSE]
    BY <1>2 DEF ResolveLaunchState
  <2>2. QED
    BY <1>2, <2>1 DEF ConsumedFirstTime, State, MaybeVersion, Coherent
<1>3. CASE ~DidRollback(s, i) /\ ~ConsumedFirstTime(s, i)
  BY <1>3 DEF ResolveLaunchState
<1>4. QED
  BY <1>1, <1>2, <1>3
=============================================================================
