----------------------------- MODULE ImageRegistry -----------------------------
(***************************************************************************)
(* Images between a registry, the manifest cache and an archive: push,     *)
(* pull, the choice of a platform, the entries of the cache                *)
(* (helpers/docker/) and the documents of a build (helpers/oci_writer.py). *)
(*                                                                         *)
(* A command is a function of `x`, the world it runs in: the registry, the *)
(* cache and `left`, what happens to the requests to come: "down" is one   *)
(* that never arrives, "lost" one whose answer is lost, "cut" one that     *)
(* breaks off, "short" one of which the registry keeps less than it was    *)
(* sent, "denied" an HTTP 401 or 403 and "ok" any other.  The digest of a  *)
(* document is the document.                                               *)
(***************************************************************************)
EXTENDS Naturals, FiniteSets, Sequences, SequencesExt, TLC

Digest(document) == [sha256 |-> document]

(* Requests. *)

Answer(x) == IF x.left = <<>> THEN "ok" ELSE Head(x.left)
Asked(x)  == [x EXCEPT !.left = IF @ = <<>> THEN @ ELSE Tail(@), !.status = "ok"]

\* One request that does Effect where it arrives.
Send(x, Effect(_)) ==
    CASE Answer(x) = "down"           -> [Asked(x) EXCEPT !.status = "transient"]
      [] Answer(x) = "denied"         -> [Asked(x) EXCEPT !.status = "denied"]
      [] Answer(x) \in {"lost", "cut"} -> [Effect(Asked(x)) EXCEPT !.status = "transient"]
      [] OTHER                        -> Effect(Asked(x))

\* retry_http(): only what is transient is tried again.
Retry(x, attempts, Request(_)) ==
    FoldLeft(LAMBDA y, k : IF y.status = "transient" THEN Request(y) ELSE y,
             [x EXCEPT !.status = "transient"], [k \in 1..attempts |-> k])
HttpAttempts == 5
PushAttempts(x) == x.retries + 1

\* A step of a command that has come this far.
Then(x, Step(_)) == IF x.status = "ok" THEN Step(x) ELSE x

-----------------------------------------------------------------------------
(* Uploads.  A blob is a digest and a size; what an upload session has     *)
(* stored is a sequence of the units of the blob.                          *)

BlobExists(x, digest) ==
    LET look(y) == [y EXCEPT !.found = digest \in y.registry.blobs]
        ask(y)  == Send(y, look)
    IN  Retry(x, PushAttempts(x), ask)

Opened(x) == [x EXCEPT !.open = TRUE, !.stored = <<>>]
Whole(blob) == [k \in 1..blob.size |-> k]

\* What the registry does with the PUT that ends an upload: it checks the digest.
Finished(x, blob) ==
    IF x.open /\ x.stored = Whole(blob)
    THEN [x EXCEPT !.registry.blobs = @ \union {blob.digest}, !.open = FALSE]
    ELSE [x EXCEPT !.status = "refused"]

\* _upload_blob_monolithic() and _upload_blob_bytes(): a session and one PUT, tried again as one.
Monolithic(x, blob) ==
    LET put(z)    == Finished([z EXCEPT !.stored = Whole(blob)], blob)
        finish(z) == Send(z, put)
        once(y)   == Then(Send(y, Opened), finish)
    IN  Retry(x, PushAttempts(x), once)

\* One PATCH.  A strict registry takes no chunk but the one after what it has.
Least(a, b) == IF a < b THEN a ELSE b
Patched(x, first, last) ==
    LET half == IF Answer(x) \in {"cut", "short"} THEN first + (last - first + 1) \div 2 - 1 ELSE last
        keep(y) == IF y.registry.strict /\ Len(y.stored) # first - 1 THEN [y EXCEPT !.status = "refused"]
                   ELSE [y EXCEPT !.stored = @ \o [k \in 1..(half - first + 1) |-> first + k - 1]]
    IN  Send(x, keep)

\* One turn of the loop of _upload_blob_chunked(): on from what the registry says it has, if it
\* says so, else from the end of the chunk; a chunk that failed is sent again.
ChunkStep(x, blob) ==
    LET last == Least(x.offset + x.chunk, blob.size)
        y    == Patched(x, x.offset + 1, last)
        told == y.registry.acks /\ Len(y.stored) > x.offset
    IN  IF x.status # "ok" \/ x.offset >= blob.size THEN x
        ELSE IF y.status = "transient" /\ x.attempt < x.retries
             THEN [y EXCEPT !.status = "ok", !.attempt = @ + 1]
        ELSE IF y.status # "ok" THEN y
        ELSE [y EXCEPT !.attempt = 0, !.offset = IF told THEN Len(y.stored) ELSE last]
Chunked(x, blob) ==
    LET open(y)   == Send(y, Opened)
        begin     == [Retry(x, PushAttempts(x), open) EXCEPT !.offset = 0, !.attempt = 0]
        turns     == [k \in 1..(blob.size + Len(x.left) + 1) |-> k]
        sent      == FoldLeft(LAMBDA y, k : ChunkStep(y, blob), begin, turns)
        put(z)    == Finished(z, blob)
        finish(y) == Send(y, put)
        all(y)    == Retry(y, PushAttempts(y), finish)
    IN  Then(sent, all)

\* A blob that is there is not sent again; the config goes in one piece, whatever its size.
Unless(x, blob, Transfer(_, _)) ==
    LET count(z) == [z EXCEPT !.uploaded = @ + blob.size]
        send(y)  == IF y.found THEN y ELSE Then(Transfer(y, blob), count)
    IN  Then(BlobExists(x, blob.digest), send)
Upload(x, blob) ==
    IF blob.size >= x.chunk THEN Unless(x, blob, Chunked) ELSE Unless(x, blob, Monolithic)
UploadConfig(x, digest) == Unless(x, [digest |-> digest, size |-> 1], Monolithic)

Blobs(manifest) == {manifest.layers[i].digest : i \in DOMAIN manifest.layers} \union {manifest.config}

\* _put_manifest()
PutManifest(x, ref, manifest) ==
    LET put(y) == IF y.registry.checks /\ ~(Blobs(manifest) \subseteq y.registry.blobs)
                  THEN [y EXCEPT !.status = "refused"]
                  ELSE [y EXCEPT !.registry.tags = (ref :> [list |-> FALSE, image |-> manifest]) @@ @]
        ask(y) == Send(y, put)
    IN  Retry(x, PushAttempts(x), ask)

-----------------------------------------------------------------------------
(* The manifest cache. *)

NoPlatform == [os |-> "", architecture |-> "", variant |-> ""]
NoDocument == [platform |-> NoPlatform, diffs |-> <<>>]      \* an empty image config
Key(ref, p)       == [ref |-> ref, architecture |-> p.architecture, variant |-> p.variant, old |-> FALSE]
LegacyKey(ref, p) == [ref |-> ref, architecture |-> p.architecture, variant |-> "", old |-> TRUE]

\* _config_is_for(): only what the config says, and only what is asked.
ConfigIsFor(config, p) ==
    \A f \in DOMAIN p : config.platform[f] = "" \/ p[f] = "" \/ config.platform[f] = p[f]

\* load_manifest_cache(): the entries that will do, under the key and under the old one.
Answers(entry, p, recorded) ==
    /\ recorded => entry.platform \in {NoPlatform, p}
    /\ ConfigIsFor(entry.config, p)
Candidates(cache, ref, p) ==
    {k \in {Key(ref, p), LegacyKey(ref, p)} \intersect DOMAIN cache : Answers(cache[k], p, ~k.old)}
Miss == [hit |-> FALSE]
LoadManifest(cache, ref, p) ==
    LET found == Candidates(cache, ref, p)
    IN  IF found = {} THEN Miss
        ELSE [hit |-> TRUE, entry |-> cache[IF Key(ref, p) \in found THEN Key(ref, p) ELSE LegacyKey(ref, p)]]

\* save_manifest_cache() and store_in_cache()
SaveManifest(cache, ref, p, manifest, config) ==
    (Key(ref, p) :> [manifest |-> manifest, config |-> config, platform |-> p]) @@ cache

\* referenced_blob_digests(): what it could not read is told apart from what names no blob.
Referenced(cache, torn) ==
    [digests |-> UNION {Blobs(cache[k].manifest) : k \in DOMAIN cache \ torn},
     unreadable |-> torn \intersect DOMAIN cache]

-----------------------------------------------------------------------------
(* push *)

Refuse(x) == [x EXCEPT !.status = "invalid"]
Authenticate(x) ==
    LET token(y) == y
        ask(y)   == Send(y, token)
    IN  Retry(x, HttpAttempts, ask)

\* push_image()
Push(x, ref, p) ==
    LET hit      == LoadManifest(x.cache, ref, p)
        manifest == hit.entry.manifest
        here     == \A i \in DOMAIN manifest.layers : manifest.layers[i].digest \in x.layers
        layers(y) == FoldLeft(LAMBDA z, blob : IF z.status = "ok" THEN Upload(z, blob) ELSE z,
                              y, manifest.layers)
        config(y) == UploadConfig(y, manifest.config)
        last(y)   == PutManifest(y, ref, manifest)
    IN  IF ~hit.hit THEN Refuse(x)
        ELSE IF manifest.layers = <<>> \/ ~here \/ Digest(hit.entry.config) # manifest.config
             THEN Refuse(x)
        ELSE Then(Then(Then(Authenticate(x), layers), config), last)

-----------------------------------------------------------------------------
(* pull *)

\* _pick_platform(): the first entry of the architecture that has the variant or none, else the
\* first of the architecture.
PickPlatform(entries, p) ==
    LET linux(i) == /\ entries[i].platform.os \in {"linux", ""}
                    /\ entries[i].platform.architecture = p.architecture
        exact(i) == linux(i) /\ (p.variant = "" \/ entries[i].platform.variant \in {p.variant, ""})
        good == IF \E i \in DOMAIN entries : exact(i) THEN {i \in DOMAIN entries : exact(i)}
                ELSE {i \in DOMAIN entries : linux(i)}
    IN  {entries[i] : i \in {j \in good : \A k \in good : j <= k}}

\* _get_manifest(), for a tag and, where that is a list, for the entry it names.
GetManifest(x, ref, p) ==
    LET fetch(y) == IF ref \in DOMAIN y.registry.tags THEN y ELSE [y EXCEPT !.status = "refused"]
        ask(y)   == Send(y, fetch)
        again(y) == Retry(y, HttpAttempts, ask)
        listed   == x.registry.tags[ref]
        picked   == PickPlatform(listed.entries, p)
        choose(y) == IF ~listed.list THEN [y EXCEPT !.manifest = listed.image]
                     ELSE IF picked = {} THEN [y EXCEPT !.status = "refused"]
                     ELSE [again(y) EXCEPT !.manifest = (CHOOSE e \in picked : TRUE).image]
    IN  Then(again(x), choose)

\* _fetch_config_blob(): whatever goes wrong, the config is then empty.
FetchConfig(x) ==
    LET fetch(y) == y
        ask(y)   == Send(y, fetch)
        got      == Retry(x, HttpAttempts, ask)
    IN  [got EXCEPT !.status = "ok",
                    !.config = IF got.status = "ok" THEN x.manifest.config.sha256 ELSE NoDocument]

\* _resolve_single_manifest() and the entry it leaves in the cache.
Resolve(x, ref, p) ==
    LET get(y)  == GetManifest(y, ref, p)
        save(y) == LET z == FetchConfig(y)
                   IN  [z EXCEPT !.cache = SaveManifest(@, ref, p, z.manifest, z.config)]
    IN  Then(Then(Authenticate(x), get), save)

\* _download_layers_parallel(): one that fails ends the rest, and what has arrived stays.
Download(x) ==
    LET missing == {x.manifest.layers[i].digest : i \in DOMAIN x.manifest.layers} \ x.layers
        arrived == missing \ x.fails
    IN  [x EXCEPT !.layers = @ \union arrived, !.status = IF arrived = missing THEN "ok" ELSE "refused"]
ApplyLayers(x) == [x EXCEPT !.applied = [i \in DOMAIN x.manifest.layers |-> x.manifest.layers[i].digest]]

\* pull_image()
Pull(x, ref, p) ==
    LET hit     == LoadManifest(x.cache, ref, p)
        known   == [x EXCEPT !.manifest = hit.entry.manifest, !.config = hit.entry.config]
        cached  == Blobs(hit.entry.manifest) \ {hit.entry.manifest.config} \subseteq x.layers
        start   == IF ~hit.hit THEN Resolve(x, ref, p)
                   ELSE IF cached THEN known ELSE Authenticate(known)
        fill(y) == IF y.manifest.layers = <<>> THEN [y EXCEPT !.status = "refused"]
                   ELSE Then(Download(y), ApplyLayers)
    IN  Then(start, fill)

\* Which scheme the requests of an image go over: get_auth_token().  `host` tells what the
\* registry speaks and whether its certificate is trusted.
Scheme(host, insecure) ==
    CASE host.hub -> "https"
      [] host.tls /\ (host.trusted \/ insecure) -> "https"
      [] ~host.tls /\ host.plain /\ insecure    -> "http"
      [] OTHER -> "none"

-----------------------------------------------------------------------------
(* The documents of a build. *)

\* build_manifest_and_config(): the platform of the build, whatever the base image said.
BuiltConfig(p, layers)   == [platform |-> p, diffs |-> [i \in DOMAIN layers |-> layers[i].digest]]
BuiltManifest(p, layers) == [config |-> Digest(BuiltConfig(p, layers)), layers |-> layers]

\* write_oci_archive(): the manifests with the configs they should have, each blob once, and an
\* index in the order asked for.  A config for another platform, a blob that is not in the cache
\* and a build without results are refused.
Consistent(result) == [result.manifest EXCEPT !.config = Digest(result.config)]
ConfigDeclares(result) ==
    \A f \in DOMAIN result.platform : result.config.platform[f] \in {"", result.platform[f]}
Archive(results, layers) ==
    LET named == UNION {Blobs(Consistent(results[i])) \ {Digest(results[i].config)} : i \in DOMAIN results}
        documents == {Digest(Consistent(results[i])) : i \in DOMAIN results}
                       \union {Digest(results[i].config) : i \in DOMAIN results}
        index == [i \in DOMAIN results |-> [manifest |-> Digest(Consistent(results[i])),
                                            platform |-> results[i].platform]]
    IN  IF results = <<>> \/ ~(named \subseteq layers) \/ \E i \in DOMAIN results : ~ConfigDeclares(results[i])
        THEN [ok |-> FALSE]
        ELSE [ok |-> TRUE, blobs |-> documents \union named, index |-> index, legacy |-> Consistent(results[1])]
=============================================================================
