---------------------------- MODULE MCVariantFlow ----------------------------
(* VariantFlow for a few of the variants.                                   *)
EXTENDS VariantFlow

\* The placement of B9, then two routes of it side by side; B15 follows B14 after an abort.
RouteVariants == {"B9", "B14", "B15"}
RouteHistory == {"B5", "B7", "B8", "B13"}

\* One chain: B3 congested, B4 illegal, B5 interrupted, B6 diverged, B7 and B8 illegal.
PlacementVariants == {"B3", "B4", "B5", "B6", "B7", "B8", "B9"}
PlacementHistory == {"B2"}

\* The variant that moves the bump grid between the best two points.
OriginVariants == {"B23"}
OriginHistory == {"B9", "B21"}

\* Clean, congested as the selections name it, and overflow without residual.
MCTotals == {Clean, Named, [residual |-> 0, overflow |-> 1]}

Symmetry == Permutations(Procs)
=============================================================================
