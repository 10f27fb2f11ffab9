----------------------------- MODULE MCRollback -----------------------------
(***************************************************************************)
(* UpdateContext observed over many launches: which versions this device   *)
(* has ever rolled back from.                                              *)
(***************************************************************************)
EXTENDS UpdateContext, TLC

VARIABLE condemned   \* every version a rollback has ever left

ObservedInit == Init /\ condemned = {}

ObservedNext ==
    /\ Next
    /\ condemned' = condemned \cup ({mem'.st.rolledBack} \ {NoVersion})

ObservedSpec == ObservedInit /\ [][ObservedNext]_<<vars, condemned>>

(* "A version this device already rolled back from is never reinstalled"   *)
(* (README.md, rescue directive): only JS may choose such a version again. *)
RolledBackNeverReinstalled ==
    [][\A v \in condemned : BecomesCurrent(v) => serial.step = "verified"]_<<vars, condemned>>
=============================================================================
