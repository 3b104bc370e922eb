--------------------------- MODULE MCReleaseChain ---------------------------
(* An instance of ReleaseChain for TLC: one variant with the older scripts, *)
(* one with permissions, traps and the audit of inputs.                     *)
EXTENDS ReleaseChain, TLC

MCVariants == {"B5", "B6"}

Symmetry == Permutations(Procs)

=============================================================================
