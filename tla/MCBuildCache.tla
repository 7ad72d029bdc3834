----------------------------- MODULE MCBuildCache -----------------------------
(* Instances of BuildCache.                                                   *)
EXTENDS BuildCache, TLC

Symmetry == Permutations(Procs) \union Permutations(Recipes) \union
            Permutations(Layers) \union Permutations(Tags)
===============================================================================
