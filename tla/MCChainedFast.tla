--------------------------- MODULE MCChainedFast ---------------------------
(***************************************************************************)
(* Instances of ChainedFast for TLC.                                       *)
(***************************************************************************)
EXTENDS ChainedFast, TLC

\* All processes on one node.
OneNode == [r \in Request |-> CHOOSE n \in Node : TRUE]

Symmetry == Permutations(Request)

=============================================================================
