------------------------------- MODULE BuildCache -------------------------------
(***************************************************************************)
(* The build cache: the layer blobs, the index that maps the recipe of a   *)
(* build step to the layer it once produced (helpers/build_cache.py), the  *)
(* manifests of stored images, the builds that use all three, and          *)
(* `clear-cache --build-cache`, which sweeps the blobs nobody names.       *)
(*                                                                         *)
(* Every change of the index but one loads it, changes it and saves it     *)
(* under a flock; `discard_index` unlinks it with no lock.  A sweep asks   *)
(* once whether anybody is building and holds no lock after that.          *)
(***************************************************************************)
EXTENDS Naturals, FiniteSets

CONSTANTS
    Procs,
    Recipes,    \* recipe hashes of build steps
    Layers,     \* layer digests
    Tags,       \* images that builds make, one BuildLock each
    None,
    Forms,      \* the sweeps in use: "drop" the index, or "prune" it (--keep)
    LateStart,  \* whether a build may start after a sweep has looked for builds
    MaxSteps    \* bound: steps of a build

ASSUME CacheAssumption ==
    /\ None \notin Procs /\ None \notin Layers /\ None \notin Tags
    /\ Forms \subseteq {"drop", "prune"}
    /\ LateStart \in BOOLEAN
    /\ MaxSteps \in Nat

VARIABLES
    blobs,      \* the layers in the layer cache
    index,      \* index[r]: the layer the build cache has for recipe r, or None
    images,     \* images[t]: the layers named by the stored manifest of t
    indexLock,  \* who holds the flock of the index, or None
    pc,
    tag,        \* tag[p]: the image p builds, whose BuildLock it holds, or None
    steps,      \* steps[p]: build steps p has begun
    recipe,     \* recipe[p]: the recipe of the step at hand, or None
    layer,      \* layer[p]: the layer of the step at hand, or None
    made,       \* made[p]: the layers of the image being built
    loaded,     \* loaded[p]: the index as p loaded it under the lock
    names       \* names[p]: what p's sweep keeps and then, once listed, removes

vars == <<blobs, index, images, indexLock, pc, tag, steps, recipe, layer, made, loaded, names>>

build == <<tag, steps, recipe, layer, made>>
cache == <<blobs, index, images>>

Empty == [r \in Recipes |-> None]

BuildSteps == {"step", "apply", "execute", "record", "recordSave", "merge", "mergeSave",
               "touch", "touchSave", "prune", "pruneSave"}
SweepSteps == {"keep", "drop", "sweepPrune", "sweepPruneSave", "list", "remove"}

TypeOK ==
    /\ blobs \in SUBSET Layers
    /\ index \in [Recipes -> Layers \union {None}]
    /\ images \in [Tags -> SUBSET Layers]
    /\ indexLock \in Procs \union {None}
    /\ pc \in [Procs -> {"idle"} \union BuildSteps \union SweepSteps]
    /\ tag \in [Procs -> Tags \union {None}]
    /\ steps \in [Procs -> 0 .. MaxSteps]
    /\ recipe \in [Procs -> Recipes \union {None}]
    /\ layer \in [Procs -> Layers \union {None}]
    /\ made \in [Procs -> SUBSET Layers]
    /\ loaded \in [Procs -> [Recipes -> Layers \union {None}]]
    /\ names \in [Procs -> SUBSET Layers]

Init ==
    /\ blobs = {}
    /\ index = Empty
    /\ images = [t \in Tags |-> {}]
    /\ indexLock = None
    /\ pc = [p \in Procs |-> "idle"]
    /\ tag = [p \in Procs |-> None]
    /\ steps = [p \in Procs |-> 0]
    /\ recipe = [p \in Procs |-> None]
    /\ layer = [p \in Procs |-> None]
    /\ made = [p \in Procs |-> {}]
    /\ loaded = [p \in Procs |-> Empty]
    /\ names = [p \in Procs |-> {}]

-------------------------------------------------------------------------------
Goto(p, step) == pc' = [pc EXCEPT ![p] = step]

\* The command is over: its locks, its descriptors and what it knew are gone.
End(p) ==
    /\ indexLock' = IF indexLock = p THEN None ELSE indexLock
    /\ tag' = [tag EXCEPT ![p] = None]
    /\ steps' = [steps EXCEPT ![p] = 0]
    /\ recipe' = [recipe EXCEPT ![p] = None]
    /\ layer' = [layer EXCEPT ![p] = None]
    /\ made' = [made EXCEPT ![p] = {}]
    /\ loaded' = [loaded EXCEPT ![p] = Empty]
    /\ names' = [names EXCEPT ![p] = {}]
    /\ Goto(p, "idle")

\* The step at hand is done with.
NextStep(p) ==
    /\ recipe' = [recipe EXCEPT ![p] = None]
    /\ layer' = [layer EXCEPT ![p] = None]
    /\ Goto(p, "step")
    /\ UNCHANGED <<tag, steps, made>>

-------------------------------------------------------------------------------
(* The index                                                               *)

SaveStep(step) ==
    CASE step = "record" -> "recordSave" [] step = "merge" -> "mergeSave"
      [] step = "touch" -> "touchSave" [] step = "prune" -> "pruneSave"
      [] step = "sweepPrune" -> "sweepPruneSave"

Updates == {"record", "merge", "touch", "prune", "sweepPrune"}

\* Mutant: the index is loaded before its lock is had.
LoadUnlocked(p) ==
    /\ pc[p] \in Updates
    /\ loaded' = [loaded EXCEPT ![p] = index]
    /\ Goto(p, SaveStep(pc[p]))
    /\ UNCHANGED <<cache, build, indexLock, names>>

\* _index_lock waits for its flock; _load_index.
Load(p) ==
    /\ pc[p] \in Updates
    /\ indexLock = None
    /\ indexLock' = p
    /\ loaded' = [loaded EXCEPT ![p] = index]
    /\ Goto(p, SaveStep(pc[p]))
    /\ UNCHANGED <<cache, build, names>>

\* _save_index publishes the whole document, and the lock is released.
Save(p, document) ==
    /\ index' = document
    /\ indexLock' = IF indexLock = p THEN None ELSE indexLock
    /\ loaded' = [loaded EXCEPT ![p] = Empty]
    /\ UNCHANGED <<blobs, images, names>>

SaveNothing(p) == Save(p, index)

\* record: the entry replaces what another build may have recorded for the recipe.
RecordSave(p) ==
    /\ pc[p] = "recordSave"
    /\ Save(p, [loaded[p] EXCEPT ![recipe[p]] = layer[p]])
    /\ NextStep(p)

\* merge_entries: an entry that is there stays.
MergeSave(p) ==
    /\ pc[p] = "mergeSave"
    /\ IF loaded[p][recipe[p]] = None
       THEN Save(p, [loaded[p] EXCEPT ![recipe[p]] = layer[p]])
       ELSE SaveNothing(p)
    /\ NextStep(p)

\* touch stamps entries, and saves if there are any to stamp.
TouchSave(p) ==
    /\ pc[p] = "touchSave"
    /\ IF loaded[p] # Empty THEN Save(p, loaded[p]) ELSE SaveNothing(p)
    /\ Goto(p, "prune")
    /\ UNCHANGED build

\* The prune that ends a build, or that a sweep with --keep begins with: which entries
\* are the least recently used, and how many are too many, is left open.
PruneSave(p) ==
    /\ pc[p] \in {"pruneSave", "sweepPruneSave"}
    /\ \/ UNCHANGED index
       \/ \E evicted \in SUBSET {r \in Recipes : loaded[p][r] # None} \ {{}} :
             index' = [r \in Recipes |-> IF r \in evicted THEN None ELSE loaded[p][r]]
    /\ UNCHANGED <<blobs, images>>
    /\ IF pc[p] = "pruneSave"
       THEN End(p)
       ELSE /\ indexLock' = IF indexLock = p THEN None ELSE indexLock
            /\ loaded' = [loaded EXCEPT ![p] = Empty]
            /\ Goto(p, "list")
            /\ UNCHANGED <<build, names>>

-------------------------------------------------------------------------------
(* Builds                                                                  *)

Sweeping == \E q \in Procs : pc[q] \in SweepSteps

\* The BuildLock of the tag is taken, or the command refused.
Begin(p) ==
    /\ pc[p] = "idle"
    /\ LateStart \/ ~ Sweeping
    /\ \E t \in Tags :
          /\ \A q \in Procs : tag[q] # t
          /\ tag' = [tag EXCEPT ![p] = t]
    /\ Goto(p, "step")
    /\ UNCHANGED <<cache, indexLock, steps, recipe, layer, made, loaded, names>>

\* --cache-from: a verified blob joins the cache, its entry is merged after that.
Import(p) ==
    /\ pc[p] = "step"
    /\ steps[p] = 0
    /\ MaxSteps > 0
    /\ \E r \in Recipes, l \in Layers :
          /\ recipe' = [recipe EXCEPT ![p] = r]
          /\ layer' = [layer EXCEPT ![p] = l]
          /\ blobs' = blobs \union {l}
    /\ steps' = [steps EXCEPT ![p] = 1]
    /\ Goto(p, "merge")
    /\ UNCHANGED <<index, images, indexLock, tag, made, loaded, names>>

\* do_run: cache_lookup, unlocked, then isfile of the layer; --no-cache looks at neither.
Lookup(p) ==
    /\ pc[p] = "step"
    /\ steps[p] < MaxSteps
    /\ steps' = [steps EXCEPT ![p] = @ + 1]
    /\ \E r \in Recipes :
          /\ recipe' = [recipe EXCEPT ![p] = r]
          /\ \/ /\ index[r] \in blobs
                /\ layer' = [layer EXCEPT ![p] = index[r]]
                /\ Goto(p, "apply")
             \/ Goto(p, "execute") /\ UNCHANGED layer
    /\ UNCHANGED <<cache, indexLock, tag, made, loaded, names>>

\* Mutant: the layer is taken from the step before it has one.
IncludeEarly(p, l) == made' = [made EXCEPT ![p] = @ \union {layer[p]}]

\* A layer ends up in the image when its stage is the one that is asked for.
Include(p, l) == made' = [made EXCEPT ![p] = @ \union {l}] \/ UNCHANGED made

\* apply_layer opens the blob again: it may have gone, which fails the build.
ApplyHit(p) ==
    /\ pc[p] = "apply"
    /\ IF layer[p] \in blobs
       THEN /\ Include(p, layer[p])
            /\ recipe' = [recipe EXCEPT ![p] = None]
            /\ layer' = [layer EXCEPT ![p] = None]
            /\ Goto(p, "step")
            /\ UNCHANGED <<tag, steps, indexLock, loaded, names>>
       ELSE End(p)
    /\ UNCHANGED cache

\* Mutant: the layer is published only when the image is stored.
ExecuteUnpublished(p) ==
    /\ pc[p] = "execute"
    /\ \E l \in Layers :
          /\ layer' = [layer EXCEPT ![p] = l]
          /\ Include(p, l)
    /\ Goto(p, "record")
    /\ UNCHANGED <<cache, tag, steps, recipe, indexLock, loaded, names>>

\* A command gives whatever it gives: the layer is published, and recorded after that.
Execute(p) ==
    /\ pc[p] = "execute"
    /\ \E l \in Layers :
          /\ blobs' = blobs \union {l}
          /\ layer' = [layer EXCEPT ![p] = l]
          /\ Include(p, l)
    /\ Goto(p, "record")
    /\ UNCHANGED <<index, images, tag, steps, recipe, indexLock, loaded, names>>

\* A RUN command fails, or the disk is full.
BuildFails(p) ==
    /\ pc[p] = "execute"
    /\ End(p)
    /\ UNCHANGED cache

\* store_in_cache, last of all.
Store(p) ==
    /\ pc[p] = "step"
    /\ images' = [images EXCEPT ![tag[p]] = made[p]]
    /\ Goto(p, "touch")
    /\ UNCHANGED <<blobs, index, indexLock, build, loaded, names>>

-------------------------------------------------------------------------------
(* clear-cache --build-cache                                               *)

\* Mutant: nobody is asked.
SweepBeginUnasked(p) ==
    /\ pc[p] = "idle"
    /\ Forms # {}
    /\ Goto(p, "keep")
    /\ UNCHANGED <<cache, indexLock, build, loaded, names>>

\* busy_locks: refused while anybody builds.
SweepBegin(p) ==
    /\ pc[p] = "idle"
    /\ Forms # {}
    /\ \A q \in Procs : tag[q] = None
    /\ Goto(p, "keep")
    /\ UNCHANGED <<cache, indexLock, build, loaded, names>>

\* _referenced_blob_names, before anything goes.
SweepKeep(p) ==
    /\ pc[p] = "keep"
    /\ names' = [names EXCEPT ![p] = UNION {images[t] : t \in Tags}]
    /\ \E form \in Forms : Goto(p, IF form = "drop" THEN "drop" ELSE "sweepPrune")
    /\ UNCHANGED <<cache, indexLock, build, loaded>>

\* discard_index, without the lock; an error ends the command with nothing removed.
SweepDrop(p) ==
    /\ pc[p] = "drop"
    /\ \/ /\ index' = Empty
          /\ Goto(p, "list")
          /\ UNCHANGED <<indexLock, build, loaded, names>>
       \/ End(p) /\ UNCHANGED index
    /\ UNCHANGED <<blobs, images>>

\* _collect_orphans
SweepList(p) ==
    /\ pc[p] = "list"
    /\ names' = [names EXCEPT ![p] = blobs \ @]
    /\ Goto(p, "remove")
    /\ UNCHANGED <<cache, indexLock, build, loaded>>

\* One blob after the other, and those another sweep removed first are errors only.
SweepRemove(p) ==
    /\ pc[p] = "remove"
    /\ \/ \E l \in names[p] :
             /\ blobs' = blobs \ {l}
             /\ names' = [names EXCEPT ![p] = @ \ {l}]
             /\ UNCHANGED <<indexLock, build, loaded, pc>>
       \/ names[p] = {} /\ End(p) /\ UNCHANGED blobs
    /\ UNCHANGED <<index, images>>

\* Killed between any two steps: the kernel drops the flocks.
Crash(p) ==
    /\ pc[p] # "idle"
    /\ End(p)
    /\ UNCHANGED cache

Proceed(p) ==
    \/ Load(p) \/ RecordSave(p) \/ MergeSave(p) \/ TouchSave(p) \/ PruneSave(p)
    \/ Lookup(p) \/ ApplyHit(p) \/ Execute(p) \/ BuildFails(p) \/ Store(p)
    \/ SweepKeep(p) \/ SweepDrop(p) \/ SweepList(p) \/ SweepRemove(p)

Next ==
    \E p \in Procs : Begin(p) \/ Import(p) \/ SweepBegin(p) \/ Proceed(p) \/ Crash(p)

Spec == Init /\ [][Next]_vars

-------------------------------------------------------------------------------
\* Every layer a stored image names is in the layer cache: builds that fail, builds of
\* other tags, prunes and sweeps take none away ("the layers of images you still have
\* are kept", README).
ImagesComplete == \A t \in Tags : images[t] \subseteq blobs

\* What a build records or imports is in the layer cache before the index names it, and
\* nothing removes it in between.
RecordedBacked ==
    [][\A p \in Procs :
          pc[p] \in {"recordSave", "mergeSave"} /\ index' # index => layer[p] \in blobs]_vars

\* The update of one build never undoes another's: an entry goes or changes only when it
\* is recorded anew, pruned or discarded ("concurrent builds don't clobber each other's
\* records", record).
NoUpdateLost ==
    [][\A r \in Recipes :
          index[r] # None /\ index'[r] # index[r] =>
              \E p \in Procs :
                  \/ pc[p] = "recordSave" /\ recipe[p] = r
                  \/ pc[p] \in {"pruneSave", "sweepPruneSave"} /\ index'[r] = None
                  \/ pc[p] = "drop" /\ index' = Empty]_vars

\* A sweep with --keep leaves the layers of the entries it left: "only the
\* least-recently-used entries past SIZE are evicted and the rest stay warm for the
\* next build" (README).
KeptStayWarm ==
    [][\A p \in Procs, r \in Recipes :
          pc[p] = "remove" /\ index[r] \in blobs => index[r] \in blobs']_vars
===============================================================================
