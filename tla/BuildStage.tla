------------------------------ MODULE BuildStage ------------------------------
(***************************************************************************)
(* A stage of `chroot-distro build`: every instruction changes the stage's *)
(* rootfs in place and records a layer of what it changed.  RUN executes a *)
(* command, compares two snapshots and packs the difference; COPY and ADD  *)
(* enumerate a map, write it into the rootfs and pack it a second time;    *)
(* WORKDIR makes directories.  Whoever installs the image, builds FROM the *)
(* stage or hits the cache gets the layers, unpacked one over the other.   *)
(*                                                                         *)
(* `image` is what those layers unpack to and `base` what `diff` takes     *)
(* them for; `drift` records the known reasons a step has given the rootfs *)
(* and the layers to differ, and a behaviour ends at the first one.        *)
(***************************************************************************)
EXTENDS LayerTrees

CONSTANTS
    Paths,          \* where a step or the owner of a source tree edits
    Entries,        \* what they put there
    Bases,          \* base images, sequences of layers
    Sources,        \* build contexts
    Archives,       \* the file maps of archives ADD unpacks
    Targets,        \* destinations of COPY, paths of WORKDIR
    MaxSteps,       \* bound: instructions
    MaxEdits,       \* bound: changes by one command, and to a source tree
    MaxDepth        \* bound: components of a path in a file map

VARIABLES
    source,     \* the tree COPY takes from: the context or another stage
    rootfs,     \* the stage's rootfs
    image,      \* [ok, tree]: the layers of the stage unpacked
    base,       \* baseline_from_layers() of them
    pc,         \* where the instruction is
    before, after,  \* the snapshots of a RUN
    planted,        \* whether the RUN has a script
    map,        \* the file map of a COPY or ADD
    stray,      \* a process of the RUN still runs after its command
    steps, edits,   \* instructions so far, changes during this one
    drift       \* why the rootfs and the layers may differ by now

stage == <<rootfs, image, base>>
run   == <<before, after, planted, stray>>
vars  == <<source, stage, pc, run, map, steps, edits, drift>>

Script == <<"script">>      \* .chroot-distro-step-XXXXXXXX at the top of the rootfs
ScriptFile == File("script")

Reasons == {"retyped", "linked", "leveled", "stamped", "source", "stray", "archive"}

MapEntries == Storable \union [kind : {"from"}, rel : TreePaths]

IsMap(m) ==
    /\ m \in [DOMAIN m -> MapEntries] /\ IsFiniteSet(DOMAIN m)
    /\ DOMAIN m \subseteq AllPaths

TypeOK ==
    /\ \A t \in {source, rootfs, before, after} : IsTree(t)
    /\ image \in {Good(image.tree), Bad(image.tree)} /\ IsTree(image.tree)
    /\ pc \in {"idle", "running", "exited", "settled", "compared", "enumerated", "written", "failed"}
    /\ IsMap(map) /\ (map # EmptyTree => pc \in {"enumerated", "written"})
    /\ planted \in BOOLEAN /\ stray \in BOOLEAN
    /\ steps \in 0..MaxSteps /\ edits \in 0..MaxEdits
    /\ drift \subseteq Reasons

\* FROM an image: its layers, in order.
Unpacked(layers) ==
    LET upto[i \in 0..Len(layers)] ==
          IF i = 0 THEN Good(EmptyTree) ELSE Apply(upto[i - 1], layers[i])
    IN  upto[Len(layers)]
Replayed(layers) ==
    LET upto[i \in 0..Len(layers)] ==
          IF i = 0 THEN EmptyTree ELSE Baseline(upto[i - 1], layers[i])
    IN  upto[Len(layers)]

\* Names are told apart, and none is a step of a link's target or NoPath's.  The
\* base images unpack without an error.
ASSUME BuildAssumption ==
    /\ Names \in Seq(STRING) /\ \A i, j \in DOMAIN Names : Names[i] = Names[j] => i = j
    /\ Script \in AllPaths /\ {"/", "..", "(none)"} \intersect Range(Names) = {}
    /\ Paths \subseteq AllPaths /\ Targets \subseteq AllPaths
    /\ Entries \subseteq TreeEntries
    /\ Bases \subseteq Seq(Seq(Members)) /\ \A layers \in Bases : Unpacked(layers).ok
    /\ \A t \in Sources : IsTree(t)
    /\ \A m \in Archives : IsMap(m)
    /\ MaxSteps \in Nat /\ MaxEdits \in Nat /\ MaxDepth \in Nat

Init ==
    /\ \E layers \in Bases :
          /\ image = Unpacked(layers)
          /\ rootfs = Unpacked(layers).tree
          /\ base = Replayed(layers)
    /\ source \in Sources
    /\ pc = "idle"
    /\ before = EmptyTree /\ after = EmptyTree /\ map = EmptyTree
    /\ planted = FALSE /\ stray = FALSE
    /\ steps = 0 /\ edits = 0
    /\ drift = {}

\* Anything a process may do to a tree with one call.
Edited(t) ==
    LET at == {p \in Paths : IsDir(t, Front(p))}
    IN  {Drop(t, p) : p \in at \intersect DOMAIN t}
          \union {Put(Drop(t, p), p, e) : p \in at, e \in Entries}
          \union {Put(t, p, Dir(m)) : p \in {q \in at : IsA("dir", t, q)}, m \in {500, 755}}

CanBegin == image.ok /\ steps < MaxSteps /\ drift \subseteq {"archive"}
Begins   == pc = "idle" /\ CanBegin /\ steps' = steps + 1

AddLayer(layer) ==
    /\ image' = Apply(image, layer)
    /\ base' = Baseline(base, layer)

-----------------------------------------------------------------------------
(* RUN. *)

\* The script of a here-doc is planted before the first snapshot, with O_EXCL.
RunBegins ==
    /\ Begins
    /\ planted' \in BOOLEAN
    /\ IF planted' THEN Script \notin DOMAIN rootfs /\ rootfs' = Put(rootfs, Script, ScriptFile)
       ELSE UNCHANGED rootfs
    /\ before' = Snapshot(rootfs')
    /\ pc' = "running" /\ edits' = 0
    /\ UNCHANGED <<source, image, base, after, map, stray, drift>>

RunEdits ==
    /\ pc = "running" /\ edits < MaxEdits
    /\ rootfs' \in Edited(rootfs)
    /\ edits' = edits + 1
    /\ UNCHANGED <<source, image, base, pc, run, map, steps, drift>>

\* The command ends; what it started in the background may go on.
RunExits ==
    /\ pc = "running"
    /\ pc' = "exited" /\ stray' \in BOOLEAN
    /\ UNCHANGED <<source, stage, before, after, planted, map, steps, edits, drift>>

StrayEdits ==
    /\ stray /\ edits < MaxEdits
    /\ pc \in {"exited", "settled", "compared"}
    /\ rootfs' \in Edited(rootfs)
    /\ edits' = edits + 1
    /\ UNCHANGED <<source, image, base, pc, run, map, steps, drift>>

\* _remove_step_script(), which leaves a directory alone.
RemoveScript ==
    IF ~planted THEN UNCHANGED <<rootfs, before>>
    ELSE /\ rootfs' = IF IsDir(rootfs, Script) THEN rootfs ELSE Drop(rootfs, Script)
         /\ before' = Without(before, {Script})

\* Mutant: what the command left running is let go on.
StopsNothing ==
    /\ pc = "exited"
    /\ RemoveScript
    /\ pc' = "settled"
    /\ UNCHANGED <<source, image, base, after, planted, map, stray, steps, edits, drift>>

\* _stop_step() terminates and kills what it finds.  One that forks after the
\* last look, just before the kill, is not seen again.
StopStep ==
    /\ pc = "exited"
    /\ stray' \in {FALSE, stray}
    /\ drift' = IF stray' THEN drift \union {"stray"} ELSE drift
    /\ RemoveScript
    /\ pc' = "settled"
    /\ UNCHANGED <<source, image, base, after, planted, map, steps, edits>>

\* Exit status # 0: BuildError, and the stage is discarded.
RunFails ==
    /\ pc = "settled"
    /\ pc' = "failed"
    /\ UNCHANGED <<source, stage, run, map, steps, edits, drift>>

\* Layers that do not unpack to what was packed: a directory became a file or
\* the reverse, or a directory with something in it became a link.
Retyped(was, now) ==
    \E p \in DOMAIN was \intersect DOMAIN now :
        \/ IsA("dir", was, p) /\ IsA("file", now, p)
        \/ IsA("file", was, p) /\ IsA("dir", now, p)
        \/ IsA("dir", was, p) /\ IsA("link", now, p) /\ Below(was, p) # {}

Compare ==
    /\ pc = "settled"
    /\ after' = Snapshot(rootfs)
    /\ drift' = IF Retyped(before, after') THEN drift \union {"retyped"} ELSE drift
    /\ pc' = "compared"
    /\ UNCHANGED <<source, stage, before, planted, map, stray, steps, edits>>

PackRun ==
    /\ pc = "compared"
    /\ AddLayer(PackDiff(rootfs, Added(before, after) \union Modified(before, after),
                         Deleted(before, after)))
    /\ pc' = "idle"
    /\ before' = EmptyTree /\ after' = EmptyTree /\ planted' = FALSE
    /\ UNCHANGED <<source, rootfs, map, stray, steps, edits, drift>>

-----------------------------------------------------------------------------
(* COPY and ADD. *)

\* _add_to_file_map(): a file or a link goes to dest, of a directory what is in
\* it goes below dest; special files are left out.
Mapped(src, dest) ==
    LET entry(q) == IF IsA("file", source, q) THEN [kind |-> "from", rel |-> q] ELSE source[q]
        strip(q) == SubSeq(q, Len(src) + 1, Len(q))
        taken    == IF IsDir(source, src) THEN Below(source, src) ELSE {src}
        found    == {q \in taken : source[q].kind # "special"}
    IN  [arc \in {dest \o strip(q) : q \in found} |->
            entry(CHOOSE q \in found : dest \o strip(q) = arc)]

Maps == Archives \union
    {Mapped(src, dest) : src \in {<<>>} \union DOMAIN source, dest \in {<<>>} \union Targets}

Enumerate ==
    /\ Begins
    /\ \E m \in Maps :
          /\ <<>> \notin DOMAIN m /\ \A p \in DOMAIN m : Len(p) <= MaxDepth
          /\ map' = m
          /\ pc' = IF m = EmptyTree THEN "idle" ELSE "enumerated"
    /\ edits' = 0
    /\ UNCHANGED <<source, stage, run, drift>>

SourceChanges ==
    /\ pc \in {"enumerated", "written"} /\ edits < MaxEdits
    /\ source' \in Edited(source)
    /\ edits' = edits + 1
    /\ drift' = IF pc = "written" THEN drift \union {"source"} ELSE drift
    /\ UNCHANGED <<stage, pc, run, map, steps>>

\* The map is packed under the names it has and with levels of mode 755, the
\* rootfs has it where the names lead and with the levels that were there.
Leveled(paths) ==
    \E p \in paths : \E q \in Above(p) \ paths :
        IsA("dir", rootfs, q) /\ rootfs[q].mode # 755
\* An archive may name what is below a link or a file of its own.
PlainMap(m) == \A p \in DOMAIN m : \A q \in Above(p) \intersect DOMAIN m : m[q].kind = "dir"

CopyReasons ==
    LET levels == UNION {Above(p) : p \in DOMAIN map}
    IN  {r \in Reasons :
          \/ r = "linked"  /\ \E q \in levels \ DOMAIN map : IsA("link", rootfs, q)
          \/ r = "leveled" /\ Leveled(DOMAIN map)
          \/ r = "retyped" /\ \/ \E q \in levels : IsA("file", rootfs, q)
                              \/ \E p \in DOMAIN map :
                                    map[p].kind = "dir" /\ p \in DOMAIN rootfs
                                    /\ rootfs[p].kind \in {"file", "special"}
          \/ r = "archive" /\ ~PlainMap(map)}

WriteMap ==
    /\ pc = "enumerated"
    /\ LET written == Materialise(rootfs, source, map)
       IN  /\ rootfs' = written.tree
           /\ pc' = IF written.ok THEN "written" ELSE "failed"
           /\ map' = IF written.ok THEN map ELSE EmptyTree
    /\ drift' = drift \union CopyReasons
    /\ UNCHANGED <<source, image, base, run, steps, edits>>

PackMap ==
    /\ pc = "written"
    /\ AddLayer(PackFiles(source, map))
    /\ pc' = "idle" /\ map' = EmptyTree
    /\ UNCHANGED <<source, rootfs, run, steps, edits, drift>>

-----------------------------------------------------------------------------
(* WORKDIR and FROM. *)

\* _missing_levels() and _stamp_build_dir(): the levels that were not there and
\* the directory itself, which may have been, get mode 700.
Stamped(t, p, missing) ==
    [q \in DOMAIN t |-> IF q \in missing \union {p} THEN Dir(700) ELSE t[q]]

Workdir ==
    /\ Begins
    /\ \E path \in Targets :
          LET p       == Resolve(rootfs, path)
              made    == MakeDirs(rootfs, p)
              missing == LevelsOf(p) \ DOMAIN rootfs
              reasons == {r \in Reasons :
                            \/ r = "stamped" /\ IsA("dir", rootfs, p) /\ rootfs[p].mode # 700
                            \/ r = "leveled" /\ Leveled(missing)}
          IN  IF p = NoPath \/ ~made.ok THEN UNCHANGED <<stage, drift>>
              ELSE /\ rootfs' = Stamped(made.tree, p, missing)
                   /\ IF missing = {} THEN UNCHANGED <<image, base>>
                      ELSE AddLayer(PackFiles(EmptyTree, [q \in missing |-> Dir(700)]))
                   /\ drift' = drift \union reasons
    /\ UNCHANGED <<source, pc, run, map, edits>>

\* FROM another stage: its layers are unpacked; its rootfs is what COPY --from takes.
FromStage ==
    /\ Begins
    /\ source' = Snapshot(rootfs)
    /\ rootfs' = image.tree
    /\ UNCHANGED <<image, base, pc, run, map, edits, drift>>

Over ==
    /\ pc = "failed" \/ (pc = "idle" /\ ~CanBegin)
    /\ UNCHANGED vars

Next ==
    \/ RunBegins \/ RunEdits \/ RunExits \/ StrayEdits \/ StopStep \/ RunFails
    \/ Compare \/ PackRun
    \/ Enumerate \/ SourceChanges \/ WriteMap \/ PackMap
    \/ Workdir \/ FromStage \/ Over

Spec == Init /\ [][Next]_vars

-----------------------------------------------------------------------------
(* Properties. *)

AsUnpacked(t) ==
    [p \in DOMAIN Snapshot(t) |-> IF IsA("dir", t, p) THEN Dir(OwnerBits(t[p].mode)) ELSE t[p]]

\* Between instructions the layers of the stage unpack without an error to the
\* rootfs the next instruction runs in (build_engine/copy_step.py:7, run_step.py:116):
\* every entry, link and mode, but for special files and the owner's bits of a
\* directory, which the extractor always grants.  A recorded reason excuses it.
ImageIsRootfs ==
    pc = "idle" /\ drift \subseteq {"archive"} =>
        image.ok /\ image.tree = AsUnpacked(rootfs)

\* `diff` finds nothing in a container that was just installed from the image
\* (commands/diff.py, layer_diff.py:325).
FreshInstallDiffersNowhere ==
    pc = "idle" /\ drift = {} =>
        DiffersFrom(base, Snapshot(image.tree)) = [added |-> {}, modified |-> {}, deleted |-> {}]

\* The map of a COPY "is both materialised on disk and packed into the layer, so
\* the tree and the image record cannot drift apart" (build_engine/copy_step.py:7),
\* a destination behind a link included.
CopyBehindLinkAgrees ==
    pc = "idle" /\ drift \subseteq {"linked"} =>
        image.ok /\ image.tree = AsUnpacked(rootfs)
=============================================================================
