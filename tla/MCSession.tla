----------------------------- MODULE MCSession ------------------------------
EXTENDS Session, TLC

Symmetry == Permutations(Runs) \cup Permutations(Slots) \cup Permutations(Scopes)

=============================================================================
