------------------------------- MODULE MCHandoff -------------------------------
(* Values of the constants of Handoff for TLC.                             *)
EXTENDS Handoff, TLC
CONSTANTS agent, admin, r1, r2
MCAgents == {agent, admin}
MCAdmins == {admin}
MCRequests == {r1, r2}
Slots == Permutations(Requests)
=============================================================================
