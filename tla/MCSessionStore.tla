--------------------------- MODULE MCSessionStore ---------------------------
EXTENDS SessionStore, TLC

Symmetry == Permutations(Path) \cup Permutations(Id) \cup Permutations(Password)
=============================================================================
