-------------------------- MODULE MCDeltaStrategy --------------------------
(* Four validators of equal power: three of them decide.                   *)
EXTENDS DeltaStrategy, TLC

CONSTANTS v1, v2, v3, v4

MCPower == [v \in Validator |-> 1]
Symmetry == Permutations(Validator)
=============================================================================
