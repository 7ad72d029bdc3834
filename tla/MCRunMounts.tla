------------------------------ MODULE MCRunMounts ------------------------------
(* RunMounts over pairs of mounts on a small rootfs.                          *)
EXTENDS RunMounts

SrcDir == <<"src">>
CacheDir == <<"srv", "cache">>
Deep == <<"src", "lib">>
OptDir == <<"opt">>

MountEntries ==
    {[Mount("cache", p) EXCEPT !.sharing = h] : p \in {SrcDir, CacheDir, Deep}, h \in {"locked", "private"}}
    \union {Mount("tmpfs", p) : p \in {SrcDir, Deep}}
    \union {[Mount("bind", p) EXCEPT !.source = <<"tree">>, !.ro = r] : p \in {SrcDir, Deep}, r \in {"", "rw"}}
    \union {[Mount("secret", <<>>) EXCEPT !.id = "key"], Mount("secret", <<"srv", "key">>), Mount("ssh", <<>>)}
MountLists == {<<m>> : m \in MountEntries} \union {<<m, n>> : m, n \in MountEntries}
ParsedLists == {[i \in DOMAIN ms |-> Parsed(ms[i])] : ms \in MountLists}

Rootfses == {{OptDir}, {OptDir, SrcDir}, {OptDir, SrcDir, Deep}, {OptDir, <<"srv">>, <<"run">>}}
Places ==
    {[rootfs |-> r, files |-> f, holder |-> h, sources |-> [p \in {<<"tree">>} |-> {<<"main">>}],
      secrets |-> s, sockets |-> {"default"}, writes |-> {w}, escapes |-> e, fails |-> n] :
        r \in Rootfses, f \in {{}, {Deep}}, h \in BOOLEAN, s \in {{}, {"key"}},
        w \in {<<"opt", "made">>, <<"src", "made">>}, e \in {{}, {CacheDir}}, n \in {{}, {1}, {2}}}

Nested(ms) == \E i, j \in DOMAIN ms : i # j /\ IsPrefix(SshTarget(ms[i], i), SshTarget(ms[j], j))
Under(ms, p) == \E i \in DOMAIN ms : IsPrefix(SshTarget(ms[i], i), p)

\* Whichever entry fails, the rootfs afterwards has what it had, what the step wrote outside
\* its mounts, and nothing else: no placeholder reaches the layer.
ASSUME OnlyTheStepIsLeft == \A b \in Places, ms \in ParsedLists : ~Nested(ms) =>
    LET after == RootfsAfter(b, ms)
        kept  == IF Applied(b, ms).ok THEN {w \in b.writes : ~Under(ms, w)} ELSE {}
    IN  after = b.rootfs \union UNION {Ancestors(w) : w \in kept}

\* Where the mounts are made in a holder's namespace, which lexists() does not see, that holds
\* of nested targets too.
ASSUME HolderSparesTheImage == \A b \in Places, ms \in ParsedLists :
    b.holder => b.rootfs \subseteq RootfsAfter(b, ms)

\* Not so without one: a path of the image that an outer mount hides passes for a placeholder,
\* and a file of that name is removed from the image.
HiddenPlace == [rootfs |-> {SrcDir, Deep}, files |-> {Deep}, holder |-> FALSE,
                sources |-> [p \in {<<"tree">>} |-> {<<"main">>}], secrets |-> {}, sockets |-> {},
                writes |-> {}, escapes |-> {}, fails |-> {}]
ASSUME HiddenPathRemoved ==
    Deep \notin RootfsAfter(HiddenPlace, <<Parsed(Mount("tmpfs", SrcDir)), Parsed(Mount("cache", Deep))>>)

\* Two steps that name the same caches in another order can each hold what the other waits for.
EachWaits(first, second) ==
    \E i, j \in DOMAIN first, k, l \in DOMAIN second :
        i < j /\ k < l /\ first[i] = second[l] /\ first[j] = second[k] /\ first[i] # first[j]
ASSUME CachesCanBlock == \E ms, ns \in ParsedLists : EachWaits(LockOrder(ms), LockOrder(ns))

\* Only complete entries are parsed, and every one of them then says where and how it is mounted.
ASSUME ParsedSaysAll == \A m \in MountEntries : Complete(m) =>
    Parsed(m).ro \in {"ro", "rw"} /\ (m.type # "ssh" => Parsed(m).target # <<>>)

\* A step keyed to the same inputs is shown the same trees by its binds; caches, secrets and
\* sockets do not enter the key at all.
Shows1(ms, n, stageOf, contextOf) ==
    IF ms[n].type # "bind" THEN <<>>
    ELSE IF ms[n].from = <<>> THEN <<contextOf[ms[n].source]>> ELSE <<stageOf[ms[n].from]>>
BindsOf == {[Mount("bind", SrcDir) EXCEPT !.source = <<"tree">>, !.from = f] : f \in {<<>>, <<"a">>, <<"b">>}}
               \union {Mount("cache", CacheDir)}
Digests == {"d1", "d2"}
StageNames == {<<"a">>, <<"b">>}
ASSUME InputsTellTrees ==
    \A m, n \in BindsOf, s, t \in [StageNames -> Digests], c, d \in [{<<"tree">>} -> Digests] :
        LET ms == <<m, n>> IN
        CacheInputs(ms, StageNames, s, c) = CacheInputs(ms, StageNames, t, d) =>
            \A i \in 1..2 : Shows1(ms, i, s, c) = Shows1(ms, i, t, d)
=============================================================================
