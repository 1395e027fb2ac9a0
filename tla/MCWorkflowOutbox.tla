-------------------------- MODULE MCWorkflowOutbox --------------------------
(* Symmetry of WorkflowOutbox for TLC: deliveries, instances and console    *)
(* calls are interchangeable.                                               *)
EXTENDS WorkflowOutbox, TLC

SafetySymmetry ==
  Permutations(Runs) \cup Permutations(Instances) \cup Permutations(Requests)
=============================================================================
