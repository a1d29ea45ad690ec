-------------------------- MODULE MCProviderJournal --------------------------
(* Instances of ProviderJournal for TLC. *)
EXTENDS ProviderJournal, TLC

Symmetry == Permutations(Actions) \cup Permutations(Procs)
=============================================================================
