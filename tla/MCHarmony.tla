------------------------------ MODULE MCHarmony ------------------------------
(***************************************************************************)
(* The Harmony port for TLC: the parts that rest start in one state.       *)
(***************************************************************************)
EXTENDS Harmony

CONSTANTS v, w, b1, patch, copy, hash, icon, bundle, image

MCFileOf == [j \in {patch, copy, hash, icon} |-> IF j = icon THEN image ELSE bundle]

(* The context starts with every version downloaded, what it may lose, in   *)
(* the launch that rolled w back to v.                                      *)
MCInit ==
    /\ HarmonyInit
    /\ build = b1 /\ dirs = Version /\ ops = 0 /\ deaths = 0
    /\ launchVersion = v /\ mem.st.rolledBack = w
    /\ part # "download" => version = Absent
    /\ part # "coordinator" => setting = NoSetting
    /\ part # "migration" => Planned(state) /\ legacy["config"] = Empty
    /\ part # "handles" => digest = NoDigest

MCSpec == MCInit /\ [][HarmonyNext]_harmonyVars /\ HarmonyFairness
=============================================================================
