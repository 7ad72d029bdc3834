------------------------- MODULE MCContainerSessions -------------------------
(* Instances of ContainerSessions.  What it counts as one step is looked into *)
(* by MountPlan (the mounts), ForegroundWait (the command of a session) and   *)
(* SessionRegistry (its record), whose assumptions TLC evaluates with each    *)
(* run.                                                                       *)
EXTENDS ContainerSessions, MCMountPlan, MCForegroundWait, MCSessionRegistry

Symmetry == Permutations(Procs)
==============================================================================
