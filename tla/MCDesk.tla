------------------------------- MODULE MCDesk -------------------------------
EXTENDS Desk, TLC
Symmetry == Permutations(Panes) \cup Permutations(Sessions \ {Elsewhere})
=============================================================================
