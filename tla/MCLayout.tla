------------------------------ MODULE MCLayout ------------------------------
EXTENDS Layout
Symmetry == Permutations(Panes)

\* Bound: with four panes on the page, every split is in the middle.
FewRatios == Cardinality(Shown) > 3 => \A at \in DOMAIN split : split[at].ratio = Half
=============================================================================
