-------------------------- MODULE MCDeploySchedule --------------------------
(* Values of the constants of DeploySchedule for TLC.                      *)
EXTENDS DeploySchedule, TLC

\* A restore or a switch may aim at any content, a publication at one.
TargetsOf(kinds, published) ==
  [a \in kinds |-> IF a = "PUBLISH" THEN {published} ELSE Contents]

CONSTANTS c1, c2

MCContents == {c1, c2}
MCRestorePublish == {"RESTORE_VERSION", "PUBLISH"}
MCRestore == {"RESTORE_VERSION"}
MCSwitch == {"SWITCH_PROD_VERSION", "RESTORE_VERSION"}
MCTargets == TargetsOf(Actions, c2)

SafetySymmetry == Permutations(Schedules) \cup Permutations(Instances)
=============================================================================
