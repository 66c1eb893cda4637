-------------------------- MODULE MCDatabaseQueue --------------------------
(***************************************************************************)
(* The queue with three consumers that obey nothing but its interface.     *)
(***************************************************************************)
EXTENDS DatabaseQueue, TLC

Symmetry == Permutations(Consumer)

=============================================================================
