--------------------------- MODULE MCSessionTurns ---------------------------
EXTENDS SessionTurns, TLC
CONSTANTS c1, c2, c3
AnyOrder == Permutations(Commands)
=============================================================================
