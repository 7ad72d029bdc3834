----------------------------- MODULE MCBuildStage -----------------------------
(* A stage over two top-level names with one name below each. *)
EXTENDS BuildStage, MCBuildPlan

MCNames == <<"d", "e", "opq", "script", "x">>
D  == <<"d">>
E  == <<"e">>
DX == <<"d", "x">>
EX == <<"e", "x">>
MCPaths   == {D, E, DX}
MCEntries == {Dir(755), File("1"), Link(E), Special}

Member(p, e) == [path |-> p, entry |-> e]

\* A merged /usr in small, d -> e, and an image whose second layer clears d.
MCBases == {
    << <<Member(E, Dir(755)), Member(EX, File("0")), Member(D, Link(<<"/", "e">>))>> >>,
    << <<Member(D, Dir(755)), Member(DX, File("0")), Member(E, Dir(500))>>,
       <<Member(D \o <<"opq">>, Opaque), Member(EX, File("1"))>> >>}
MCSources  == {(DX :> File("1")) @@ (D :> Dir(755)), (E :> Link(<<"..", "d">>)) @@ (D :> Dir(500))}
MCArchives == {(D :> Link(E)) @@ (DX :> File("1")), (E :> Dir(500)) @@ (EX :> Link(D))}
MCTargets  == {D, DX, EX}
=============================================================================
