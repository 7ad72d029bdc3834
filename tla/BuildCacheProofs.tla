---------------------------- MODULE BuildCacheProofs ----------------------------
(* Proofs about BuildCache, for any number of processes, recipes, layers and    *)
(* images.                                                                      *)
EXTENDS BuildCache, TLAPS

\* Nothing runs and nothing is cached at first.
LEMMA TypeInit == Init => TypeOK
BY CacheAssumption DEF Init, TypeOK, Empty

\* What the end of a command changes keeps its type.
LEMMA EndType ==
  ASSUME TypeOK, NEW p \in Procs, End(p)
  PROVE  /\ indexLock' \in Procs \union {None}
         /\ pc' \in [Procs -> {"idle"} \union BuildSteps \union SweepSteps]
         /\ tag' \in [Procs -> Tags \union {None}]
         /\ steps' \in [Procs -> 0 .. MaxSteps]
         /\ recipe' \in [Procs -> Recipes \union {None}]
         /\ layer' \in [Procs -> Layers \union {None}]
         /\ made' \in [Procs -> SUBSET Layers]
         /\ loaded' \in [Procs -> [Recipes -> Layers \union {None}]]
         /\ names' \in [Procs -> SUBSET Layers]
BY CacheAssumption DEF TypeOK, End, Goto, Empty

\* Every step keeps the types.
LEMMA TypeStep == TypeOK /\ [Next]_vars => TypeOK'
<1> SUFFICES ASSUME TypeOK, [Next]_vars PROVE TypeOK'
  OBVIOUS
<1> USE CacheAssumption DEF TypeOK, Goto, End, NextStep, Save, SaveNothing, Empty, BuildSteps,
      SweepSteps, build, cache
<1>1. ASSUME NEW p \in Procs, Load(p) PROVE TypeOK'
  BY <1>1 DEF Load, Updates, SaveStep
<1>2. ASSUME NEW p \in Procs, RecordSave(p) PROVE TypeOK'
  BY <1>2 DEF RecordSave
<1>3. ASSUME NEW p \in Procs, MergeSave(p) PROVE TypeOK'
  <2>1. CASE loaded[p][recipe[p]] = None
    <3>1. loaded[p] \in [Recipes -> Layers \union {None}] /\ layer[p] \in Layers \union {None}
      OBVIOUS
    <3>2. index' \in [Recipes -> Layers \union {None}]
      BY <1>3, <2>1, <3>1 DEF MergeSave
    <3>3. loaded' \in [Procs -> [Recipes -> Layers \union {None}]]
      BY <1>3, <2>1 DEF MergeSave
    <3> QED
      BY <1>3, <2>1, <3>2, <3>3 DEF MergeSave
  <2>2. CASE loaded[p][recipe[p]] # None
    BY <1>3, <2>2 DEF MergeSave
  <2> QED
    BY <2>1, <2>2
<1>4. ASSUME NEW p \in Procs, TouchSave(p) PROVE TypeOK'
  BY <1>4 DEF TouchSave
<1>5. ASSUME NEW p \in Procs, PruneSave(p) PROVE TypeOK'
  <2>1. index' \in [Recipes -> Layers \union {None}]
    <3>1. loaded[p] \in [Recipes -> Layers \union {None}]
      OBVIOUS
    <3> QED
      BY <1>5, <3>1 DEF PruneSave
  <2>2. CASE pc[p] = "pruneSave"
    BY <1>5, <2>1, <2>2, EndType DEF PruneSave
  <2>3. CASE pc[p] = "sweepPruneSave"
    <3>1. /\ indexLock' \in Procs \union {None}
          /\ pc' \in [Procs -> {"idle"} \union BuildSteps \union SweepSteps]
      BY <1>5, <2>3 DEF PruneSave
    <3>2. loaded' \in [Procs -> [Recipes -> Layers \union {None}]]
      BY <1>5, <2>3 DEF PruneSave
    <3> QED
      BY <1>5, <2>1, <2>3, <3>1, <3>2 DEF PruneSave
  <2> QED
    BY <1>5, <2>2, <2>3 DEF PruneSave
<1>6. ASSUME NEW p \in Procs, Lookup(p) PROVE TypeOK'
  BY <1>6 DEF Lookup
<1>7. ASSUME NEW p \in Procs, ApplyHit(p) PROVE TypeOK'
  <2>1. CASE layer[p] \in blobs
    <3>1. made[p] \union {layer[p]} \in SUBSET Layers
      BY <2>1
    <3>0. Include(p, layer[p])
      BY <1>7, <2>1 DEF ApplyHit
    <3>2. made' \in [Procs -> SUBSET Layers]
      BY <3>1, <3>0 DEF Include
    <3>3. /\ recipe' \in [Procs -> Recipes \union {None}]
          /\ layer' \in [Procs -> Layers \union {None}]
          /\ pc' \in [Procs -> {"idle"} \union BuildSteps \union SweepSteps]
      BY <1>7, <2>1 DEF ApplyHit
    <3>4. UNCHANGED <<cache, tag, steps, indexLock, loaded, names>>
      BY <1>7, <2>1 DEF ApplyHit
    <3> QED
      BY <3>2, <3>3, <3>4
  <2>2. CASE layer[p] \notin blobs
    BY <1>7, <2>2, EndType DEF ApplyHit
  <2> QED
    BY <2>1, <2>2
<1>8. ASSUME NEW p \in Procs, Execute(p) PROVE TypeOK'
  BY <1>8 DEF Execute, Include
<1>9. ASSUME NEW p \in Procs, BuildFails(p) PROVE TypeOK'
  BY <1>9 DEF BuildFails
<1>10. ASSUME NEW p \in Procs, Store(p) PROVE TypeOK'
  BY <1>10 DEF Store
<1>11. ASSUME NEW p \in Procs, SweepKeep(p) PROVE TypeOK'
  BY <1>11 DEF SweepKeep
<1>12. ASSUME NEW p \in Procs, SweepDrop(p) PROVE TypeOK'
  <2>1. CASE End(p) /\ UNCHANGED index
    BY <1>12, <2>1, EndType DEF SweepDrop
  <2>2. CASE ~ (End(p) /\ UNCHANGED index)
    BY <1>12, <2>2 DEF SweepDrop
  <2> QED
    BY <2>1, <2>2
<1>13. ASSUME NEW p \in Procs, SweepList(p) PROVE TypeOK'
  BY <1>13 DEF SweepList
<1>14. ASSUME NEW p \in Procs, SweepRemove(p) PROVE TypeOK'
  <2>1. CASE names[p] = {} /\ End(p) /\ UNCHANGED blobs
    BY <1>14, <2>1, EndType DEF SweepRemove
  <2>2. CASE ~ (names[p] = {} /\ End(p) /\ UNCHANGED blobs)
    BY <1>14, <2>2 DEF SweepRemove
  <2> QED
    BY <2>1, <2>2
<1>15. ASSUME NEW p \in Procs, Begin(p) PROVE TypeOK'
  BY <1>15 DEF Begin
<1>16. ASSUME NEW p \in Procs, Import(p) PROVE TypeOK'
  BY <1>16 DEF Import
<1>17. ASSUME NEW p \in Procs, SweepBegin(p) PROVE TypeOK'
  BY <1>17 DEF SweepBegin
<1>18. ASSUME NEW p \in Procs, Crash(p) PROVE TypeOK'
  BY <1>18 DEF Crash
<1>19. ASSUME UNCHANGED vars PROVE TypeOK'
  BY <1>19 DEF vars
<1> QED
  BY <1>1, <1>2, <1>3, <1>4, <1>5, <1>6, <1>7, <1>8, <1>9, <1>10,
     <1>11, <1>12, <1>13, <1>14, <1>15, <1>16, <1>17, <1>18, <1>19 DEF Next, Proceed

\* The types of all variables, whatever fails or dies.
THEOREM TypeCorrect == Spec => []TypeOK
BY TypeInit, TypeStep, PTL DEF Spec

-------------------------------------------------------------------------------
SaveSteps == {"recordSave", "mergeSave", "touchSave", "pruneSave", "sweepPruneSave"}

\* Whoever is about to save the index holds its lock, and what it loaded is what the
\* index still is, unless a sweep has discarded that in between.
IndexInv ==
    \A p \in Procs :
        pc[p] \in SaveSteps =>
            /\ indexLock = p
            /\ index = loaded[p] \/ index = Empty

\* Every step keeps IndexInv: a save changes the index under everybody, but there is
\* nobody else between loading and saving, and a discard leaves it empty.
LEMMA IndexStep == TypeOK /\ IndexInv /\ [Next]_vars => IndexInv'
<1> SUFFICES ASSUME TypeOK, IndexInv, [Next]_vars PROVE IndexInv'
  OBVIOUS
<1> USE CacheAssumption DEF TypeOK, IndexInv, SaveSteps, Goto, End, NextStep, Save, SaveNothing,
      build, cache
<1>1. ASSUME NEW p \in Procs, Load(p) PROVE IndexInv'
  BY <1>1 DEF Load, Updates, SaveStep
<1>2. ASSUME NEW p \in Procs, RecordSave(p) PROVE IndexInv'
  BY <1>2 DEF RecordSave
<1>3. ASSUME NEW p \in Procs, MergeSave(p) PROVE IndexInv'
  BY <1>3 DEF MergeSave
<1>4. ASSUME NEW p \in Procs, TouchSave(p) PROVE IndexInv'
  BY <1>4 DEF TouchSave
<1>5. ASSUME NEW p \in Procs, PruneSave(p) PROVE IndexInv'
  <2>1. CASE pc[p] = "pruneSave"
    BY <1>5, <2>1 DEF PruneSave
  <2>2. CASE pc[p] = "sweepPruneSave"
    BY <1>5, <2>2 DEF PruneSave
  <2> QED
    BY <1>5, <2>1, <2>2 DEF PruneSave
<1>6. ASSUME NEW p \in Procs, Lookup(p) PROVE IndexInv'
  BY <1>6 DEF Lookup
<1>7. ASSUME NEW p \in Procs, ApplyHit(p) PROVE IndexInv'
  BY <1>7 DEF ApplyHit
<1>8. ASSUME NEW p \in Procs, Execute(p) PROVE IndexInv'
  BY <1>8 DEF Execute
<1>9. ASSUME NEW p \in Procs, BuildFails(p) PROVE IndexInv'
  BY <1>9 DEF BuildFails
<1>10. ASSUME NEW p \in Procs, Store(p) PROVE IndexInv'
  BY <1>10 DEF Store
<1>11. ASSUME NEW p \in Procs, SweepKeep(p) PROVE IndexInv'
  BY <1>11 DEF SweepKeep
<1>12. ASSUME NEW p \in Procs, SweepDrop(p) PROVE IndexInv'
  BY <1>12 DEF SweepDrop
<1>13. ASSUME NEW p \in Procs, SweepList(p) PROVE IndexInv'
  BY <1>13 DEF SweepList
<1>14. ASSUME NEW p \in Procs, SweepRemove(p) PROVE IndexInv'
  BY <1>14 DEF SweepRemove
<1>15. ASSUME NEW p \in Procs, Begin(p) PROVE IndexInv'
  BY <1>15 DEF Begin
<1>16. ASSUME NEW p \in Procs, Import(p) PROVE IndexInv'
  BY <1>16 DEF Import
<1>17. ASSUME NEW p \in Procs, SweepBegin(p) PROVE IndexInv'
  BY <1>17 DEF SweepBegin
<1>18. ASSUME NEW p \in Procs, Crash(p) PROVE IndexInv'
  BY <1>18 DEF Crash
<1>19. ASSUME UNCHANGED vars PROVE IndexInv'
  BY <1>19 DEF vars
<1> QED
  BY <1>1, <1>2, <1>3, <1>4, <1>5, <1>6, <1>7, <1>8, <1>9, <1>10,
     <1>11, <1>12, <1>13, <1>14, <1>15, <1>16, <1>17, <1>18, <1>19 DEF Next, Proceed

\* The inductive invariant behind NoUpdateLost.
THEOREM IndexCorrect == Spec => [](TypeOK /\ IndexInv)
<1>1. Init => IndexInv
  BY DEF Init, IndexInv, SaveSteps
<1> QED
  BY <1>1, TypeInit, TypeStep, IndexStep, PTL DEF Spec

\* The action of NoUpdateLost.
EntryKept ==
    \A r \in Recipes :
        index[r] # None /\ index'[r] # index[r] =>
            \E p \in Procs :
                \/ pc[p] = "recordSave" /\ recipe[p] = r
                \/ pc[p] \in {"pruneSave", "sweepPruneSave"} /\ index'[r] = None
                \/ pc[p] = "drop" /\ index' = Empty

\* Only a save or a discard changes the index, and a save starts from what is there.
LEMMA EntryStep == TypeOK /\ IndexInv /\ [Next]_vars => EntryKept
<1> SUFFICES ASSUME TypeOK, IndexInv, [Next]_vars PROVE EntryKept
  OBVIOUS
<1> USE CacheAssumption DEF TypeOK, IndexInv, SaveSteps, EntryKept, Save, SaveNothing, Empty,
      build, cache
<1>1. ASSUME NEW p \in Procs, Load(p) PROVE EntryKept
  BY <1>1 DEF Load
<1>2. ASSUME NEW p \in Procs, RecordSave(p) PROVE EntryKept
  BY <1>2 DEF RecordSave
<1>3. ASSUME NEW p \in Procs, MergeSave(p) PROVE EntryKept
  BY <1>3 DEF MergeSave
<1>4. ASSUME NEW p \in Procs, TouchSave(p) PROVE EntryKept
  BY <1>4 DEF TouchSave
<1>5. ASSUME NEW p \in Procs, PruneSave(p) PROVE EntryKept
  BY <1>5 DEF PruneSave
<1>6. ASSUME NEW p \in Procs, Lookup(p) PROVE EntryKept
  BY <1>6 DEF Lookup
<1>7. ASSUME NEW p \in Procs, ApplyHit(p) PROVE EntryKept
  BY <1>7 DEF ApplyHit
<1>8. ASSUME NEW p \in Procs, Execute(p) PROVE EntryKept
  BY <1>8 DEF Execute
<1>9. ASSUME NEW p \in Procs, BuildFails(p) PROVE EntryKept
  BY <1>9 DEF BuildFails
<1>10. ASSUME NEW p \in Procs, Store(p) PROVE EntryKept
  BY <1>10 DEF Store
<1>11. ASSUME NEW p \in Procs, SweepKeep(p) PROVE EntryKept
  BY <1>11 DEF SweepKeep
<1>12. ASSUME NEW p \in Procs, SweepDrop(p) PROVE EntryKept
  BY <1>12 DEF SweepDrop
<1>13. ASSUME NEW p \in Procs, SweepList(p) PROVE EntryKept
  BY <1>13 DEF SweepList
<1>14. ASSUME NEW p \in Procs, SweepRemove(p) PROVE EntryKept
  BY <1>14 DEF SweepRemove
<1>15. ASSUME NEW p \in Procs, Begin(p) PROVE EntryKept
  BY <1>15 DEF Begin
<1>16. ASSUME NEW p \in Procs, Import(p) PROVE EntryKept
  BY <1>16 DEF Import
<1>17. ASSUME NEW p \in Procs, SweepBegin(p) PROVE EntryKept
  BY <1>17 DEF SweepBegin
<1>18. ASSUME NEW p \in Procs, Crash(p) PROVE EntryKept
  BY <1>18 DEF Crash
<1>19. ASSUME UNCHANGED vars PROVE EntryKept
  BY <1>19 DEF vars
<1> QED
  BY <1>1, <1>2, <1>3, <1>4, <1>5, <1>6, <1>7, <1>8, <1>9, <1>10,
     <1>11, <1>12, <1>13, <1>14, <1>15, <1>16, <1>17, <1>18, <1>19 DEF Next, Proceed

\* Builds never undo each other's records, whoever dies or sweeps in between.
THEOREM NoUpdateEverLost == Spec => NoUpdateLost
<1>1. TypeOK /\ IndexInv /\ [Next]_vars => [EntryKept]_vars
  BY EntryStep
<1> QED
  BY <1>1, IndexCorrect, PTL DEF Spec, NoUpdateLost, EntryKept

-------------------------------------------------------------------------------
\* Where no build starts under a sweep, nobody sweeps while anybody builds.
AloneInv ==
    \A p, q \in Procs : pc[p] \in BuildSteps => tag[p] # None /\ pc[q] \notin SweepSteps

\* A sweep begins only when nobody has a BuildLock, and a build, by assumption, only
\* when nobody sweeps.
LEMMA AloneStep == ~ LateStart /\ TypeOK /\ AloneInv /\ [Next]_vars => AloneInv'
<1> SUFFICES ASSUME ~ LateStart, TypeOK, AloneInv, [Next]_vars PROVE AloneInv'
  OBVIOUS
<1> USE CacheAssumption DEF TypeOK, AloneInv, BuildSteps, SweepSteps, Goto, End, NextStep, Save,
      SaveNothing, build, cache
<1>1. ASSUME NEW p \in Procs, Load(p) PROVE AloneInv'
  BY <1>1 DEF Load, Updates, SaveStep
<1>2. ASSUME NEW p \in Procs, RecordSave(p) PROVE AloneInv'
  BY <1>2 DEF RecordSave
<1>3. ASSUME NEW p \in Procs, MergeSave(p) PROVE AloneInv'
  BY <1>3 DEF MergeSave
<1>4. ASSUME NEW p \in Procs, TouchSave(p) PROVE AloneInv'
  BY <1>4 DEF TouchSave
<1>5. ASSUME NEW p \in Procs, PruneSave(p) PROVE AloneInv'
  BY <1>5 DEF PruneSave
<1>6. ASSUME NEW p \in Procs, Lookup(p) PROVE AloneInv'
  BY <1>6 DEF Lookup
<1>7. ASSUME NEW p \in Procs, ApplyHit(p) PROVE AloneInv'
  BY <1>7 DEF ApplyHit
<1>8. ASSUME NEW p \in Procs, Execute(p) PROVE AloneInv'
  BY <1>8 DEF Execute
<1>9. ASSUME NEW p \in Procs, BuildFails(p) PROVE AloneInv'
  BY <1>9 DEF BuildFails
<1>10. ASSUME NEW p \in Procs, Store(p) PROVE AloneInv'
  BY <1>10 DEF Store
<1>11. ASSUME NEW p \in Procs, SweepKeep(p) PROVE AloneInv'
  BY <1>11 DEF SweepKeep
<1>12. ASSUME NEW p \in Procs, SweepDrop(p) PROVE AloneInv'
  BY <1>12 DEF SweepDrop
<1>13. ASSUME NEW p \in Procs, SweepList(p) PROVE AloneInv'
  BY <1>13 DEF SweepList
<1>14. ASSUME NEW p \in Procs, SweepRemove(p) PROVE AloneInv'
  BY <1>14 DEF SweepRemove
<1>15. ASSUME NEW p \in Procs, Begin(p) PROVE AloneInv'
  BY <1>15 DEF Begin, Sweeping
<1>16. ASSUME NEW p \in Procs, Import(p) PROVE AloneInv'
  BY <1>16 DEF Import
<1>17. ASSUME NEW p \in Procs, SweepBegin(p) PROVE AloneInv'
  BY <1>17 DEF SweepBegin
<1>18. ASSUME NEW p \in Procs, Crash(p) PROVE AloneInv'
  BY <1>18 DEF Crash
<1>19. ASSUME UNCHANGED vars PROVE AloneInv'
  BY <1>19 DEF vars
<1> QED
  BY <1>1, <1>2, <1>3, <1>4, <1>5, <1>6, <1>7, <1>8, <1>9, <1>10,
     <1>11, <1>12, <1>13, <1>14, <1>15, <1>16, <1>17, <1>18, <1>19 DEF Next, Proceed

\* What a sweep will not remove includes every image, what a build will store is there
\* already, and so is what it is about to record.
BuildsBacked ==
    \A p \in Procs :
        /\ IF pc[p] \in BuildSteps THEN made[p] \subseteq blobs ELSE made[p] = {}
        /\ pc[p] \in {"record", "recordSave", "merge", "mergeSave"} => layer[p] \in blobs

SweepsSpare ==
    \A p \in Procs, t \in Tags :
        /\ pc[p] \in SweepSteps \ {"keep", "remove"} => images[t] \subseteq names[p]
        /\ pc[p] = "remove" => images[t] \intersect names[p] = {}

BlobInv == ImagesComplete /\ BuildsBacked /\ SweepsSpare

\* Every step keeps BlobInv: images are stored only while nobody sweeps, and blobs
\* removed only while nobody builds.
LEMMA BlobStep == TypeOK /\ AloneInv /\ BlobInv /\ [Next]_vars => BlobInv'
<1> SUFFICES ASSUME TypeOK, AloneInv, BlobInv, [Next]_vars PROVE BlobInv'
  OBVIOUS
<1> USE CacheAssumption DEF TypeOK, AloneInv, BlobInv, ImagesComplete, BuildsBacked, SweepsSpare,
      BuildSteps, SweepSteps, Goto, End, NextStep, Save, SaveNothing, build, cache
<1>1. ASSUME NEW p \in Procs, Load(p) PROVE BlobInv'
  BY <1>1 DEF Load, Updates, SaveStep
<1>2. ASSUME NEW p \in Procs, RecordSave(p) PROVE BlobInv'
  BY <1>2 DEF RecordSave
<1>3. ASSUME NEW p \in Procs, MergeSave(p) PROVE BlobInv'
  BY <1>3 DEF MergeSave
<1>4. ASSUME NEW p \in Procs, TouchSave(p) PROVE BlobInv'
  BY <1>4 DEF TouchSave
<1>5. ASSUME NEW p \in Procs, PruneSave(p) PROVE BlobInv'
  <2>1. CASE pc[p] = "pruneSave"
    BY <1>5, <2>1 DEF PruneSave
  <2>2. CASE pc[p] = "sweepPruneSave"
    <3>1. pc' = [pc EXCEPT ![p] = "list"] /\ UNCHANGED <<blobs, images, layer, made, names>>
      BY <1>5, <2>2 DEF PruneSave
    <3> QED
      BY <2>2, <3>1
  <2> QED
    BY <1>5, <2>1, <2>2 DEF PruneSave
<1>6. ASSUME NEW p \in Procs, Lookup(p) PROVE BlobInv'
  BY <1>6 DEF Lookup
<1>7. ASSUME NEW p \in Procs, ApplyHit(p) PROVE BlobInv'
  <2>1. CASE layer[p] \in blobs
    <3>1. Include(p, layer[p]) /\ UNCHANGED <<cache, names>>
      BY <1>7, <2>1 DEF ApplyHit
    <3>2. pc' = [pc EXCEPT ![p] = "step"] /\ layer' = [layer EXCEPT ![p] = None]
      BY <1>7, <2>1 DEF ApplyHit
    <3>3. pc[p] = "apply"
      BY <1>7 DEF ApplyHit
    <3>4. ImagesComplete'
      BY <3>1
    <3>5. BuildsBacked'
      <4>1. made[p] \subseteq blobs
        BY <3>3
      <4>2. \A q \in Procs : q # p => made'[q] = made[q]
        BY <3>1 DEF Include
      <4>3. made'[p] \subseteq blobs'
        BY <2>1, <3>1, <4>1 DEF Include
      <4> QED
        BY <3>1, <3>2, <4>2, <4>3
    <3>6. SweepsSpare'
      BY <3>1, <3>2
    <3> QED
      BY <3>4, <3>5, <3>6
  <2>2. CASE layer[p] \notin blobs
    BY <1>7, <2>2 DEF ApplyHit
  <2> QED
    BY <2>1, <2>2
<1>8. ASSUME NEW p \in Procs, Execute(p) PROVE BlobInv'
  BY <1>8 DEF Execute, Include
<1>9. ASSUME NEW p \in Procs, BuildFails(p) PROVE BlobInv'
  BY <1>9 DEF BuildFails
<1>10. ASSUME NEW p \in Procs, Store(p) PROVE BlobInv'
  BY <1>10 DEF Store
<1>11. ASSUME NEW p \in Procs, SweepKeep(p) PROVE BlobInv'
  BY <1>11 DEF SweepKeep
<1>12. ASSUME NEW p \in Procs, SweepDrop(p) PROVE BlobInv'
  <2>1. CASE End(p) /\ UNCHANGED index
    BY <1>12, <2>1 DEF SweepDrop
  <2>2. CASE ~ (End(p) /\ UNCHANGED index)
    <3>1. /\ pc[p] = "drop"
          /\ pc' = [pc EXCEPT ![p] = "list"]
          /\ UNCHANGED <<blobs, images, layer, made, names>>
      BY <1>12, <2>2 DEF SweepDrop
    <3> QED
      BY <3>1
  <2> QED
    BY <2>1, <2>2
<1>13. ASSUME NEW p \in Procs, SweepList(p) PROVE BlobInv'
  <2>1. ImagesComplete'
    BY <1>13 DEF SweepList
  <2>2. BuildsBacked'
    BY <1>13 DEF SweepList
  <2>3. SweepsSpare'
    BY <1>13 DEF SweepList
  <2> QED
    BY <2>1, <2>2, <2>3
<1>14. ASSUME NEW p \in Procs, SweepRemove(p) PROVE BlobInv'
  <2>0. \A q \in Procs : pc[q] \notin BuildSteps
    BY <1>14 DEF SweepRemove
  <2>1. CASE names[p] = {} /\ End(p) /\ UNCHANGED blobs
    BY <1>14, <2>1 DEF SweepRemove
  <2>2. CASE ~ (names[p] = {} /\ End(p) /\ UNCHANGED blobs)
    <3>1. PICK l \in names[p] : blobs' = blobs \ {l} /\ names' = [names EXCEPT ![p] = names[p] \ {l}]
      BY <1>14, <2>2 DEF SweepRemove
    <3>2. UNCHANGED <<pc, images, layer, made>>
      BY <1>14, <2>2 DEF SweepRemove
    <3>3. pc[p] = "remove"
      BY <1>14 DEF SweepRemove
    <3>4. ImagesComplete'
      BY <3>1, <3>2, <3>3
    <3>5. BuildsBacked'
      BY <2>0, <3>2
    <3>6. SweepsSpare'
      BY <3>1, <3>2, <3>3
    <3> QED
      BY <3>4, <3>5, <3>6
  <2> QED
    BY <2>1, <2>2
<1>15. ASSUME NEW p \in Procs, Begin(p) PROVE BlobInv'
  BY <1>15 DEF Begin
<1>16. ASSUME NEW p \in Procs, Import(p) PROVE BlobInv'
  BY <1>16 DEF Import
<1>17. ASSUME NEW p \in Procs, SweepBegin(p) PROVE BlobInv'
  BY <1>17 DEF SweepBegin
<1>18. ASSUME NEW p \in Procs, Crash(p) PROVE BlobInv'
  BY <1>18 DEF Crash
<1>19. ASSUME UNCHANGED vars PROVE BlobInv'
  BY <1>19 DEF vars
<1> QED
  BY <1>1, <1>2, <1>3, <1>4, <1>5, <1>6, <1>7, <1>8, <1>9, <1>10,
     <1>11, <1>12, <1>13, <1>14, <1>15, <1>16, <1>17, <1>18, <1>19 DEF Next, Proceed

\* The inductive invariant behind ImagesComplete and RecordedBacked.
THEOREM BlobsCorrect == ASSUME ~ LateStart PROVE Spec => [](TypeOK /\ AloneInv /\ BlobInv)
<1>1. Init => AloneInv /\ BlobInv
  BY DEF Init, AloneInv, BlobInv, ImagesComplete, BuildsBacked, SweepsSpare, BuildSteps, SweepSteps
<1>2. TypeOK /\ AloneInv /\ [Next]_vars => AloneInv'
  BY AloneStep
<1> QED
  BY <1>1, <1>2, TypeInit, TypeStep, BlobStep, PTL DEF Spec

\* No layer of a stored image is ever missing, if no build starts under a sweep.
THEOREM ImagesStayComplete == ASSUME ~ LateStart PROVE Spec => []ImagesComplete
<1>1. BlobInv => ImagesComplete
  BY DEF BlobInv
<1> QED
  BY <1>1, BlobsCorrect, PTL

\* The action of RecordedBacked.
RecordBacked ==
    \A p \in Procs :
        pc[p] \in {"recordSave", "mergeSave"} /\ index' # index => layer[p] \in blobs

\* Under the same assumption the index only ever comes to name layers that are there.
THEOREM RecordedAlwaysBacked == ASSUME ~ LateStart PROVE Spec => RecordedBacked
<1>1. BlobInv /\ [Next]_vars => [RecordBacked]_vars
  BY DEF BlobInv, BuildsBacked, RecordBacked
<1> QED
  BY <1>1, BlobsCorrect, PTL DEF Spec, RecordedBacked, RecordBacked
===============================================================================
