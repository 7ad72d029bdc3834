---------------------------- MODULE MCTreeTransfer ----------------------------
(* Two top-level names, one of them with an entry below it. *)
EXTENDS TreeTransfer

MCNames == <<"a", "a~", "b", "b~", "x", "x~">>
MCTempName == [n \in {"a", "b", "x"} |-> IF n = "a" THEN "a~" ELSE IF n = "b" THEN "b~" ELSE "x~"]
A  == <<"a">>
B  == <<"b">>
AX == <<"a", "x">>
Ax == <<"a", "x~">>
MCPaths == {A, B, AX}

MCSources == {
    (A :> Dir(1)) @@ (AX :> File("1", 1, 1)) @@ (B :> Link("t")),
    (A :> Dir(1)) @@ (AX :> Special) @@ (B :> File("1", 1, 1))}
MCDests == {
    EmptyTree,
    (A :> Link("u")) @@ (B :> Dir(1)) @@ (B \o <<"x">> :> File("2", 9, 2)),
    (A :> Dir(2)) @@ (AX :> [File("1", 1, 2) EXCEPT !.twin = TRUE]) @@ (B :> File("2", 9, 1))}
MCSealings == {{}, {<<>>}, {A}}

MCFresh    == {File("2", NoTime, 2), Dir(2), Link("u"), Special}

Mirror(d, c) == [kind |-> "sync", delete |-> d, checksum |-> c, rename |-> FALSE]
Move(r) == [kind |-> "move", delete |-> FALSE, checksum |-> FALSE, rename |-> r]
MCOperations == {Mirror(FALSE, FALSE), Mirror(TRUE, FALSE), Mirror(TRUE, TRUE), Move(TRUE), Move(FALSE),
    [kind |-> "copy", delete |-> FALSE, checksum |-> FALSE, rename |-> FALSE]}
=============================================================================
