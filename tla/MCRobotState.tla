---------------------------- MODULE MCRobotState ----------------------------
(* RobotState for TLC: model values for the threads, permutations of the   *)
(* clients for the runs that check safety only.                            *)
EXTENDS RobotState, TLC

CONSTANTS c1, c2

TwoClients == {c1, c2}
OneClient  == {c1}

ClientSymmetry == Permutations(TwoClients)
=============================================================================
