--------------------------- MODULE MCContainerStore ---------------------------
(* Instances of ContainerStore.                                               *)
EXTENDS ContainerStore, TLC

AllCommands == CommandNames
AllButRestore == CommandNames \ {"restore"}

Symmetry == Permutations(Procs) \union Permutations(Containers)
===============================================================================
