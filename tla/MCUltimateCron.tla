--------------------------- MODULE MCUltimateCron ---------------------------
(***************************************************************************)
(* Instances of UltimateCron for TLC.                                      *)
(***************************************************************************)
EXTENDS UltimateCron, TLC

AnyThread == [j \in Job |-> 0]

Symmetry == Permutations(Run)
=============================================================================
