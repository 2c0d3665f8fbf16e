-------------------------- MODULE MCSignalRecovery --------------------------
(* Model values for SignalRecovery. *)
EXTENDS SignalRecovery, TLC

Symmetry == Permutations(Identities) \cup Permutations(Inodes)
=============================================================================
