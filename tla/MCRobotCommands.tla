--------------------------- MODULE MCRobotCommands ---------------------------
(* RobotCommands for TLC. *)
EXTENDS RobotCommands, TLC

CONSTANTS c1, c2

TwoCallers == {c1, c2}
OneCaller  == {c1}

\* A control input that nobody has asked for, under a number not used before.
OneGarble  == {[seqnr |-> MaxCalls + 2, cmd |-> "speed", qd |-> MaxCalls, pose |-> 0]}
NoGarble   == {}

CallerSymmetry == Permutations(TwoCallers)
=============================================================================
