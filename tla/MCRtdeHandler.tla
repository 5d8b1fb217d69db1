---------------------------- MODULE MCRtdeHandler ----------------------------
(* RtdeHandler for TLC. *)
EXTENDS RtdeHandler

CONSTANTS r1, r2

TwoRecipes == {r1, r2}
OneRecipe  == {r1}

\* Variables of one size and type, so that one can be taken for another.
OutputNames == {"timestamp", "speed_scaling"}
SomeNames   == OutputNames \cup {"input_double_register_0"}

\* Also for replies longer than those of these recipes.
ASSUME LongScanIsExact == ScanIsExactFor(3)

RecipeSymmetry == Permutations(TwoRecipes)
=============================================================================
