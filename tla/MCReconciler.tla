--------------------------- MODULE MCReconciler ---------------------------
(* Instances of Reconciler for TLC.                                        *)
EXTENDS Reconciler, TLC

CONSTANTS d1, d2, d3, i1, i2, s1, o1

\* Every server may build every tag of the instance.
AllTags == [s \in Servers |-> Images]

Symmetry == Permutations(Deploys) \cup Permutations(Images)
=============================================================================
