--------------------------- MODULE MCVaultEntries ---------------------------
(* VaultEntries for TLC: ids and threads are model values. *)
EXTENDS VaultEntries, TLC

\* Ids and threads are drawn and compared, never ordered.
Symmetry == Permutations(AccountId) \cup Permutations(TotpId) \cup Permutations(Thread)
=============================================================================
