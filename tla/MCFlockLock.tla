----------------------------- MODULE MCFlockLock -----------------------------
(* Instances of FlockLock: the ways the program's commands lock, by name.     *)
EXTENDS FlockLock, TLC

Install  == [exclusive |-> TRUE,  blocking |-> FALSE, unlinks |-> FALSE]
Remove   == [exclusive |-> TRUE,  blocking |-> FALSE, unlinks |-> TRUE]
Login    == [exclusive |-> FALSE, blocking |-> FALSE, unlinks |-> FALSE]
RunCache == [exclusive |-> TRUE,  blocking |-> TRUE,  unlinks |-> FALSE]

KeptNameCommands == {Install, Login}
ContainerCommands == {Install, Login, Remove}
AnyCommands == {Remove, RunCache}

NoForeign == {}
AnyForeign == {Clearable, Stuck}

Symmetry == Permutations(Procs) \union Permutations(Inodes)
==============================================================================
