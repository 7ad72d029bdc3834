---------------------------- MODULE MCLayerDownload ----------------------------
(* Instances of LayerDownload.                                                *)
EXTENDS LayerDownload, MCImageRegistry

Symmetry == Permutations(Procs) \union Permutations(Segments)
================================================================================
