--------------------------- MODULE MCLockedMemory ---------------------------
EXTENDS LockedMemory, TLC

\* Too few for any vault, few, and just enough.
MCQuotas == {2, 13, Enough}

\* Ids are compared, never ordered.
Symmetry == Permutations(Id) \cup Permutations(Thread)
=============================================================================
