------------------------------ MODULE MCPunch -------------------------------
EXTENDS Punch, TLC

MCNodeId == {0, 1, 2}
Symmetry == Permutations(Addr)
=============================================================================
