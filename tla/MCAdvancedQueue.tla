-------------------------- MODULE MCAdvancedQueue --------------------------
(***************************************************************************)
(* Instances of AdvancedQueue for TLC.                                     *)
(***************************************************************************)
EXTENDS AdvancedQueue, TLC

Symmetry == Permutations(Proc)

=============================================================================
