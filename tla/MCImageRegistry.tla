---------------------------- MODULE MCImageRegistry ----------------------------
(* ImageRegistry over every way in which up to two requests go wrong.         *)
EXTENDS ImageRegistry

Arm == [os |-> "linux", architecture |-> "arm", variant |-> "v7"]
Amd == [os |-> "linux", architecture |-> "amd64", variant |-> ""]

Layer(name, size) == [digest |-> Digest([layer |-> name]), size |-> size]
Small == Layer("small", 1)
Big   == Layer("big", 4)
Mine  == BuiltManifest(Amd, <<Small, Big>>)

World ==
    [registry |-> [blobs |-> {}, tags |-> <<>>, strict |-> TRUE, acks |-> TRUE, checks |-> TRUE],
     cache |-> SaveManifest(<<>>, "mine", Amd, Mine, BuiltConfig(Amd, Mine.layers)),
     layers |-> {Small.digest, Big.digest}, fails |-> {}, left |-> <<>>, retries |-> 1, chunk |-> 2,
     status |-> "ok", found |-> FALSE, open |-> FALSE, stored |-> <<>>, offset |-> 0, attempt |-> 0,
     uploaded |-> 0, manifest |-> <<>>, config |-> NoDocument, applied |-> <<>>]

\* What befalls the requests: at most two of them go wrong, or one is denied.
Requests == 13
Mishaps  == {"down", "lost", "cut", "short"}
Befalls(f) == [k \in 1..Requests |-> IF k \in DOMAIN f THEN f[k] ELSE "ok"]
Weathers ==
    {Befalls(f) : f \in UNION {[D -> Mishaps] : D \in {D \in SUBSET (1..Requests) : Cardinality(D) <= 2}}}
      \union {Befalls(k :> "denied") : k \in 1..Requests}
Registries ==
    {[World.registry EXCEPT !.blobs = b, !.strict = s, !.acks = a, !.checks = s] :
        b \in {{}, {Small.digest, Mine.config}}, <<s, a>> \in {<<TRUE, TRUE>>, <<TRUE, FALSE>>, <<FALSE, TRUE>>}}
Before == {[World EXCEPT !.registry = r, !.left = w] : r \in Registries, w \in Weathers}
Pushes == {<<x, Push(x, "mine", Amd)>> : x \in Before}

\* Whatever goes wrong, and also where the registry does not look, the tag names a manifest only
\* once all of its blobs are there; and a push that succeeds has put it there.
ASSUME PushedIsWhole == \A pair \in Pushes :
    LET x == pair[2] IN
    /\ x.status = "ok" => "mine" \in DOMAIN x.registry.tags
    /\ "mine" \in DOMAIN x.registry.tags => x.registry.tags["mine"].image = Mine
                                            /\ Blobs(Mine) \subseteq x.registry.blobs

\* A push that failed can be repeated, and sends what the first has not brought over.
ASSUME RepushCompletes == \A pair \in Pushes :
    LET y == Push([pair[2] EXCEPT !.left = <<>>, !.status = "ok", !.uploaded = 0], "mine", Amd)
        size(d) == IF d = Big.digest THEN 4 ELSE 1
    IN  /\ y.status = "ok"
        /\ y.uploaded = MapThenSumSet(size, Blobs(Mine) \ pair[2].registry.blobs)

\* A push outlasts as many requests that never arrive as it has retries.
Gone(w) == {k \in DOMAIN w : w[k] # "ok"}
ASSUME PushOutlastsDrops == \A pair \in Pushes :
    LET w == pair[1].left IN
    Cardinality(Gone(w)) <= World.retries /\ (\A k \in Gone(w) : w[k] = "down") => pair[2].status = "ok"

\* A chunk that breaks off, and an answer that is lost, are not: the chunk is sent again from
\* where it began, although the registry has some of it and takes no chunk but the next.
ASSUME BrokenChunkFails ==
    \A w \in {"cut", "lost"} :
        LET x == Push([World EXCEPT !.left = Befalls(7 :> w)], "mine", Amd)
        IN  x.status = "refused" /\ x.registry.blobs = {Small.digest}

\* What is not as it was built is not pushed at all: a layer that is gone, a config that is not
\* the one of the manifest, an image without layers.
Spoilt ==
    {[World EXCEPT !.layers = {Big.digest}], [World EXCEPT !.cache = <<>>],
     [World EXCEPT !.cache = SaveManifest(<<>>, "mine", Amd, Mine, NoDocument)],
     [World EXCEPT !.cache = SaveManifest(<<>>, "mine", Amd, BuiltManifest(Amd, <<>>), BuiltConfig(Amd, <<>>))]}
ASSUME SpoiltIsRefused == \A x \in Spoilt :
    Push(x, "mine", Amd).status = "invalid" /\ Push(x, "mine", Amd).registry = World.registry

-----------------------------------------------------------------------------
(* Pulls. *)

Image(p, name) == BuiltManifest(p, <<Small, Layer(name, 2)>>)
Listed(p, name) == [platform |-> p, image |-> Image(p, name)]
V6 == [Arm EXCEPT !.variant = "v6"]
Bare == [Arm EXCEPT !.variant = ""]
Tags == ("one" :> [list |-> FALSE, image |-> Image(Arm, "single")])
        @@ ("many" :> [list |-> TRUE, entries |-> <<Listed(Amd, "amd"), Listed(V6, "six"), Listed(Arm, "seven")>>])
Elsewhere == [World EXCEPT !.registry.tags = Tags, !.cache = <<>>, !.layers = {}]
Hiccups == {Befalls(f) : f \in UNION {[D -> Mishaps \union {"denied"}] : D \in {D \in SUBSET (1..4) : Cardinality(D) <= 1}}}
             \union {[k \in 1..n |-> "down"] : n \in 5..20}
Fetches == {<<x, Pull(x, ref, p), ref, p>> :
               x \in {[Elsewhere EXCEPT !.left = w, !.fails = f] : w \in Hiccups, f \in {{}, {Small.digest}}},
               ref \in {"one", "many", "none"}, p \in {Arm, Amd}}

\* A pull that succeeds has applied the layers of the image in their order, leaves all of them in
\* the cache and can be had again without the network; one that failed can be repeated.
Wanted(ref, p) == IF ref = "one" THEN Image(Arm, "single") ELSE Image(p, IF p = Arm THEN "seven" ELSE "amd")
LayerNames(m) == [i \in DOMAIN m.layers |-> m.layers[i].digest]
Offline == [k \in 1..20 |-> "down"]
ASSUME PulledIsTheImage == \A f \in Fetches :
    LET x == f[2]
        again == Pull([x EXCEPT !.left = Offline, !.applied = <<>>], f[3], f[4])
    IN  x.status = "ok" =>
          /\ f[3] # "none"
          /\ x.applied = LayerNames(Wanted(f[3], f[4]))
          /\ ToSet(x.applied) \subseteq x.layers
          /\ (f[3] = "one" => f[4] = Arm) => again.status = "ok" /\ again.applied = x.applied
ASSUME PullCanBeRepeated == \A f \in Fetches : f[3] # "none" =>
    Pull([f[2] EXCEPT !.left = <<>>, !.fails = {}], f[3], f[4]).status = "ok"

\* But for the config: a pull that could not fetch it succeeds and remembers that there is none,
\* so that no later pull asks for it, and a push of that image is refused.
ASSUME ConfigLostForGood ==
    LET x == Pull([Elsewhere EXCEPT !.left = Befalls(3 :> "denied")], "one", Arm)
        later == Pull([x EXCEPT !.left = <<>>], "one", Arm)
    IN  /\ x.status = "ok" /\ later.status = "ok" /\ later.config = NoDocument
        /\ Push([later EXCEPT !.left = <<>>], "one", Arm).status = "invalid"

\* A tag that names one image is taken as it is: for another platform it is pulled all the same,
\* and its entry is then not found again.
ASSUME SingleIsNotChecked ==
    LET x == Pull(Elsewhere, "one", Amd)
    IN  x.status = "ok" /\ x.applied = LayerNames(Image(Arm, "single")) /\ ~LoadManifest(x.cache, "one", Amd).hit

\* The platform of a list: the one that was asked for, if it is there and nothing without a
\* variant comes before it; any of the architecture, rather than none; never another one.
EntryLists == UNION {[1..n -> {Listed(q, "x") : q \in {Amd, Arm, V6, Bare}}] : n \in 0..3}
ASSUME PickedFits == \A es \in EntryLists, p \in {Amd, Arm, Bare} :
    LET picked == PickPlatform(es, p)
        of(q)  == q \in {es[i].platform : i \in DOMAIN es}
    IN  /\ picked = {} <=> ~\E q \in {Amd, Arm, V6, Bare} : of(q) /\ q.architecture = p.architecture
        /\ \A e \in picked : e.platform.architecture = p.architecture
        /\ of(p) \/ of(Bare) => \A e \in picked :
               p.architecture = "arm" /\ p.variant # "" => e.platform.variant \in {p.variant, ""}

\* An entry answers for the platform it was built for and for no other; one under the old key,
\* that has no platform of its own, for what its config does not rule out.
ASSUME EntriesKeepApart == \A p, q \in {Amd, Arm, V6} :
    LET cache == SaveManifest(<<>>, "mine", p, BuiltManifest(p, <<Big>>), BuiltConfig(p, <<Big>>))
        old   == LegacyKey("mine", p) :> [manifest |-> Mine, config |-> BuiltConfig(p, <<Big>>), platform |-> NoPlatform]
    IN  /\ LoadManifest(cache, "mine", q).hit <=> p = q
        /\ LoadManifest(old, "mine", q).hit <=> p = q
        /\ LoadManifest(cache @@ old, "mine", p).entry = cache[Key("mine", p)]

\* A sweep of the blobs that no image names either spares those of every image or is told that
\* it cannot know.
ASSUME SweepKnows == \A torn \in SUBSET {Key("mine", Amd), Key("other", Arm)} :
    LET cache == SaveManifest(World.cache, "other", Arm, Image(Arm, "x"), NoDocument)
        told  == Referenced(cache, torn)
    IN  told.unreadable = {} => \A k \in DOMAIN cache : Blobs(cache[k].manifest) \subseteq told.digests

\* Plain HTTP only where it was allowed, and only with a host that speaks nothing else.
Hosts == [hub : {FALSE}, tls : BOOLEAN, plain : BOOLEAN, trusted : BOOLEAN]
ASSUME PlainOnlyIfAllowed == \A h \in Hosts, insecure \in BOOLEAN :
    /\ Scheme(h, insecure) = "http" => insecure /\ ~h.tls
    /\ h.tls /\ ~h.trusted /\ ~insecure => Scheme(h, insecure) = "none"

-----------------------------------------------------------------------------
(* Archives. *)

Result(p, layers, config) == [platform |-> p, manifest |-> BuiltManifest(p, layers), config |-> config]
Results == {Result(p, ls, c) : p \in {Amd, Arm}, ls \in {<<Small>>, <<Small, Big>>},
                               c \in {NoDocument, BuiltConfig(Amd, <<Small>>), BuiltConfig(Arm, <<Big>>)}}

\* All that an archive names it holds, once for all platforms, and its index says of every
\* manifest what its config says.
ASSUME ArchiveIsClosed == \A a, b \in Results, here \in {{Small.digest}, World.layers} :
    LET archive == Archive(<<a, b>>, here) IN
    archive.ok =>
        /\ \A i \in 1..2 : archive.index[i].manifest \in archive.blobs
                           /\ Blobs(archive.index[i].manifest.sha256) \subseteq archive.blobs
        /\ \A i \in 1..2 : ConfigIsFor(archive.index[i].manifest.sha256.config.sha256, archive.index[i].platform)
        /\ archive.index[1].manifest = Digest(archive.legacy)

\* What is built is found again under its tag, can be pushed, and comes back as the same layers.
ASSUME BuiltGoesRound == \A p \in {Amd, Arm} :
    LET layers == <<Small, Big>>
        built  == [World EXCEPT !.cache = SaveManifest(<<>>, "img", p, BuiltManifest(p, layers), BuiltConfig(p, layers))]
        sent   == Push(built, "img", p)
        back   == Pull([sent EXCEPT !.cache = <<>>, !.layers = {}], "img", p)
    IN  /\ Pull([built EXCEPT !.left = Offline], "img", p).applied = <<Small.digest, Big.digest>>
        /\ sent.status = "ok"
        /\ back.status = "ok" /\ back.applied = <<Small.digest, Big.digest>>
        /\ back.config = BuiltConfig(p, layers)
=============================================================================
