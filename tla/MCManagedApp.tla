---------------------------- MODULE MCManagedApp ----------------------------
(* Small instances of ManagedApp for TLC. *)
EXTENDS ManagedApp, TLC

\* Versions and nonces are only compared for equality.
Symmetric == Permutations(Versions) \cup Permutations(Nonces)
=============================================================================
