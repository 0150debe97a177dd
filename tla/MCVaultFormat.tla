---------------------------- MODULE MCVaultFormat ----------------------------
(* VaultFormat for TLC. *)
EXTENDS VaultFormat, TLC

CONSTANTS kd, kp

\* One key of a vault of each mode.
MCKey == {kd, kp}
MCModeOf == [k \in MCKey |-> IF k = kp THEN "Portable" ELSE "DeviceBound"]

\* Calls and passwords are interchangeable.
Symmetry == Permutations(Writer) \cup Permutations(Password)
=============================================================================
