--------------------------- MODULE MCVaultSession ---------------------------
(* VaultSession for TLC. *)
EXTENDS VaultSession, TLC

\* Files, keys, passwords and spawned threads are interchangeable.
Symmetry == Permutations(Path) \cup Permutations(Id) \cup Permutations(Password)
              \cup Permutations(Thread)
=============================================================================
