--------------------------- MODULE ContainerCatalog ---------------------------
(***************************************************************************)
(* What the commands that create and delete containers promise: a catalog  *)
(* of finished containers under their names.  A container appears under a  *)
(* free name, moves to a free name, or is deleted; none ever replaces      *)
(* another, and none is in two places.                                     *)
(***************************************************************************)

CONSTANTS Names, Containers, None

VARIABLE content    \* content[n]: the finished container called n, or None

Init == content = [n \in Names |-> None]

Add(n, c) ==
    /\ content[n] = None
    /\ \A m \in Names : content[m] # c
    /\ content' = [content EXCEPT ![n] = c]

Move(n, m) ==
    /\ content[n] # None
    /\ content[m] = None
    /\ content' = [content EXCEPT ![n] = None, ![m] = content[n]]

Delete(n) ==
    /\ content[n] # None
    /\ content' = [content EXCEPT ![n] = None]

Next ==
    \/ \E n \in Names, c \in Containers : Add(n, c)
    \/ \E n, m \in Names : Move(n, m)
    \/ \E n \in Names : Delete(n)

Spec == Init /\ [][Next]_content
===============================================================================
