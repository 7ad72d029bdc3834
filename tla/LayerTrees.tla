------------------------------ MODULE LayerTrees ------------------------------
(***************************************************************************)
(* File trees and the layers that describe changes of them: where a path   *)
(* leads (helpers/tar_extract.safe_resolve_parts, dirfd.descend_at), what  *)
(* unpacking a layer does to a tree (tar_extract.py), what the builder     *)
(* packs into one (layer_diff.py, build_engine/copy_step.py) and what      *)
(* `diff` believes a sequence of layers to hold (baseline_from_layers).    *)
(*                                                                         *)
(* A tree maps the paths below its root, sequences of names, to entries.   *)
(* A layer is a sequence of members [path, entry] in the order of the tar. *)
(***************************************************************************)
EXTENDS FileTrees

Dir(m)     == [kind |-> "dir", mode |-> m]
File(d)    == [kind |-> "file", data |-> d]      \* content and mode
Link(t)    == [kind |-> "link", target |-> t]    \* "/" and ".." are components
Special    == [kind |-> "special"]               \* devices, pipes, sockets
Whiteout   == [kind |-> "whiteout"]              \* .wh.<name>
Opaque     == [kind |-> "opaque"]                \* .wh..wh..opq

\* mode | S_IRWXU for the modes that occur.
OwnerBits(m) == IF m = 500 THEN 700 ELSE m

Components == Range(Names) \union {"/", ".."}

\* What a layer can give a path, and what a tree, and a member of a layer, can have.
Storable ==
    [kind : {"dir"}, mode : Nat] \union [kind : {"file"}, data : STRING]
    \union [kind : {"link"}, target : Seq(Components)]
TreeEntries == Storable \union {Special}
Members == [path : AllPaths, entry : TreeEntries \union {Whiteout, Opaque}]

\* Every entry is in directories that are entries too.
IsTree(t) ==
    /\ t \in [DOMAIN t -> TreeEntries] /\ IsFiniteSet(DOMAIN t)
    /\ \A p \in DOMAIN t : p \in AllPaths /\ \A q \in Above(p) : IsDir(t, q)

NoPath     == <<"(none)">>          \* more than 40 links on the way
LinkBudget == 40

Good(t) == [ok |-> TRUE,  tree |-> t]
Bad(t)  == [ok |-> FALSE, tree |-> t]

-----------------------------------------------------------------------------
(* Where a path leads. *)

\* Where a path is after each of its components, clamped at the root, as long as
\* it has met no link; what is not there is taken as is.
Passes(p) ==
    LET at[i \in 0..Len(p)] ==
          IF i = 0 \/ p[i] = "/" THEN <<>>
          ELSE IF p[i] # ".." THEN Append(at[i - 1], p[i])
          ELSE IF at[i - 1] = <<>> THEN <<>> ELSE Front(at[i - 1])
    IN  at

LinksOn(t, p) == {i \in 1..Len(p) : IsA("link", t, Passes(p)[i])}

\* The first link's target in its place.
Followed(t, p) ==
    LET at == Passes(p)
        i  == Min(LinksOn(t, p))
    IN  at[i - 1] \o t[at[i]].target \o SubSeq(p, i + 1, Len(p))

Resolve(t, p) ==
    LET walk[budget \in 0..LinkBudget] ==
          [q \in Seq(Components) |->
              IF LinksOn(t, q) = {} THEN Passes(q)[Len(q)]
              ELSE IF budget = 0 THEN NoPath ELSE walk[budget - 1][Followed(t, q)]]
    IN  walk[LinkBudget][p]

\* descend_at() without and with create: every level must be a real directory.
Reaches(t, p)  == \A q \in LevelsOf(p) : IsDir(t, q)
MakeDirs(t, p) ==
    IF \E q \in LevelsOf(p) \intersect DOMAIN t : ~IsDir(t, q) THEN Bad(t)
    ELSE Good([q \in LevelsOf(p) \union DOMAIN t |-> IF q \in DOMAIN t THEN t[q] ELSE Dir(755)])

-----------------------------------------------------------------------------
(* Unpacking. *)

WriteDir(t, p, e) ==
    IF p \in DOMAIN t /\ t[p].kind \notin {"dir", "link"} THEN Bad(t)
    ELSE Good(Put(t, p, Dir(OwnerBits(e.mode))))

WriteLink(t, p, e) == Good(Put(Drop(t, p), p, e))

\* open_new_at(): whatever has the name is unlinked, which a directory resists.
WriteFile(t, p, e) == IF IsDir(t, p) THEN Bad(t) ELSE Good(Put(t, p, e))

WhiteOut(t, dir, p, e) ==
    IF ~Reaches(t, dir) THEN t
    ELSE IF e.kind = "opaque" THEN Without(t, Below(t, dir)) ELSE Drop(t, p)

\* _process_member(): one member of a layer.
Extract(t, m) ==
    LET dir  == Resolve(t, Front(m.path))
        p    == Append(dir, Last(m.path))
        made == MakeDirs(t, dir)
        removes == m.entry.kind \in {"whiteout", "opaque"}
    IN  IF dir = NoPath \/ m.entry.kind = "special" THEN Good(t)
        ELSE IF removes THEN Good(WhiteOut(t, dir, p, m.entry))
        ELSE IF ~made.ok THEN made
        ELSE CASE m.entry.kind = "dir"  -> WriteDir(made.tree, p, m.entry)
               [] m.entry.kind = "link" -> WriteLink(made.tree, p, m.entry)
               [] m.entry.kind = "file" -> WriteFile(made.tree, p, m.entry)

\* apply_layer(): the first member that cannot be written ends it.
Unpack(acc, m) == IF acc.ok THEN Extract(acc.tree, m) ELSE acc

Apply(image, layer) ==
    LET upto[i \in 0..Len(layer)] == IF i = 0 THEN image ELSE Unpack(upto[i - 1], layer[i])
    IN  upto[Len(layer)]

-----------------------------------------------------------------------------
(* Packing. *)

\* What a snapshot sees: everything but the special files.
Snapshot(t) == Without(t, {p \in DOMAIN t : t[p].kind = "special"})

Added(before, after)    == DOMAIN after \ DOMAIN before
Modified(before, after) == {p \in DOMAIN after \intersect DOMAIN before : after[p] # before[p]}
Deleted(before, after)  == DOMAIN before \ DOMAIN after

Whiteouts(deleted) ==
    LET gone == Sorted(deleted)
    IN  [i \in DOMAIN gone |-> [path |-> gone[i], entry |-> Whiteout]]

\* _add_entry(): an entry as it is on disk by now, none if it is gone or special.
OnDisk(live, packed) ==
    LET there == Sorted(packed \intersect DOMAIN Snapshot(live))
    IN  [i \in DOMAIN there |-> [path |-> there[i], entry |-> live[there[i]]]]

\* write_layer_tar(): the entries, then the whiteouts.
PackDiff(live, packed, deleted) == OnDisk(live, packed) \o Whiteouts(deleted)

\* A file map names, for each path of an instruction, a directory, a link or
\* the file of a source tree to take the content of (a spooled one is private
\* to the instruction, and is its content here).
Readable(source, e) ==
    CASE e.kind = "from" -> IsA("file", source, e.rel) [] OTHER -> TRUE
Content(source, e) == IF e.kind = "from" THEN source[e.rel] ELSE e

\* write_files_layer(): a directory entry for every level above, whatever is
\* there, then the entries; a source that cannot be read is left out.
PackFiles(source, map) ==
    LET levels  == Sorted(UNION {Above(p) : p \in DOMAIN map})
        entries == Sorted({p \in DOMAIN map : Readable(source, map[p])})
    IN  [i \in DOMAIN levels |-> [path |-> levels[i], entry |-> Dir(755)]]
          \o [i \in DOMAIN entries |-> [path |-> entries[i], entry |-> Content(source, map[entries[i]])]]

\* _materialise_entry(): one entry of the map, at p in the rootfs.
MaterialiseEntry(t, p, source, e) ==
    CASE e.kind = "dir"  -> Good(IF p \in DOMAIN t /\ t[p].kind \notin {"dir", "link"} THEN t
                                 ELSE Put(t, p, e))
      [] e.kind = "link" -> IF IsDir(t, p) THEN Bad(t) ELSE Good(Put(t, p, e))
      [] e.kind = "file" -> WriteFile(t, p, e)
      [] e.kind = "from" -> IF Readable(source, e) THEN WriteFile(t, p, Content(source, e)) ELSE Bad(t)

\* _materialise_files(): the map on disk, in the order of its paths.
MaterialiseOne(acc, arc, source, e) ==
    LET dir  == Resolve(acc.tree, Front(arc))
        made == MakeDirs(acc.tree, dir)
    IN  IF ~acc.ok \/ dir = NoPath THEN acc
        ELSE IF ~made.ok THEN made
        ELSE MaterialiseEntry(made.tree, Append(dir, Last(arc)), source, e)

Materialise(rootfs, source, map) ==
    LET arcs == Sorted(DOMAIN map)
        upto[i \in 0..Len(arcs)] ==
          IF i = 0 THEN Good(rootfs)
          ELSE MaterialiseOne(upto[i - 1], arcs[i], source, map[arcs[i]])
    IN  upto[Len(arcs)]

-----------------------------------------------------------------------------
(* What `diff` compares with. *)

\* Mutant: whiteouts remove the entry of their name only.
BaselineAlone(base, m) ==
    CASE m.entry.kind \in {"whiteout", "opaque"} -> Without(base, {m.path})
      [] m.entry.kind = "dir" -> Put(base, m.path, [kind |-> "dir"])
      [] OTHER                -> Put(base, m.path, m.entry)

\* baseline_from_layers(), one member: by name alone, no link is followed.
BaselineMember(base, m) ==
    CASE m.entry.kind = "whiteout" -> Drop(base, m.path)
      [] m.entry.kind = "opaque"   -> Without(base, Below(base, Front(m.path)))
      [] m.entry.kind = "dir"      -> Put(base, m.path, [kind |-> "dir"])
      [] OTHER                     -> Put(base, m.path, m.entry)
Baseline(base, layer) ==
    LET upto[i \in 0..Len(layer)] == IF i = 0 THEN base ELSE BaselineMember(upto[i - 1], layer[i])
    IN  upto[Len(layer)]

\* diff_against_baseline(): kinds, contents and targets, but no modes.
DiffersFrom(base, live) ==
    LET coarse(e) == IF e.kind = "dir" THEN [kind |-> "dir"] ELSE e
    IN  [added    |-> Added(base, live),
         modified |-> {p \in DOMAIN live \intersect DOMAIN base : coarse(live[p]) # base[p]},
         deleted  |-> Deleted(base, live)]
=============================================================================
