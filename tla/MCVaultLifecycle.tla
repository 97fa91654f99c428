-------------------------- MODULE MCVaultLifecycle --------------------------
(* A small instance of the vault lifecycle.                                *)
EXTENDS VaultLifecycle, TLC

CONSTANTS a, b, c1, c2

MCNames == {a, b}
MCConns == {c1, c2}
LifecycleSymmetry == Permutations({a, b}) \cup Permutations({c1, c2})
=============================================================================
