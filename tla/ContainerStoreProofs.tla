------------------------- MODULE ContainerStoreProofs -------------------------
(***************************************************************************)
(* Theorems about ContainerStore, for every set of processes, names and    *)
(* containers.                                                             *)
(*                                                                         *)
(* The argument is about locks.  A step of p changes only directories that *)
(* p holds exclusively (Framed), so what any other command knows about the *)
(* directory it has locked stays true; what p itself knows is followed     *)
(* from step to step.                                                      *)
(***************************************************************************)
EXTENDS ContainerStore, TLAPS

\* The steps of a command that writes, those it takes once it found the name free, and
\* those of an install that has made the rootfs.
Writing == {"check", "wipe", "mark", "mkroot", "extract", "manifest", "finish", "cleanup",
            "clear", "remove", "move", "restoreCheck", "restore", "restoreRest",
            "restoreManifest", "restoreFinish"}
Free    == {"mark", "mkroot", "extract", "manifest", "finish", "restore", "restoreRest",
            "restoreManifest", "restoreFinish"}
Filling == {"extract", "manifest", "finish"}

\* What a command under way knows.
Knows(p) ==
    /\ job[p] \in Jobs
    /\ job[p].target = job[p].name <=> job[p].command # "rename"
    /\ pc[p] = "lockSecond" => job[p].command = "rename" /\ held[p][Smaller(p)] = "exclusive"
    /\ pc[p] \in Writing => held[p][name(p)] = "exclusive"
    /\ pc[p] = "move" => job[p].command = "rename" /\ held[p][job[p].target] = "exclusive"
    /\ pc[p] \in {"open", "read"} => held[p][name(p)] = "shared"
    /\ pc[p] \in Free => content[name(p)] = None
    /\ pc[p] \in Filling => Installed(name(p))

\* A writer is alone.
Apart ==
    \A p, q \in Procs : p # q =>
        \A n \in Names : held[p][n] = "exclusive" => held[q][n] = "none"

\* A finished container has a rootfs.
Rooted == \A n \in Names : content[n] # None => Installed(n)

IInv ==
    /\ TypeOK
    /\ Apart
    /\ Rooted
    /\ \A p \in Procs : pc[p] # "idle" => Knows(p)

\* The disjuncts of Next.
Acts(p) ==
    \/ Start(p) \/ Lock(p) \/ LockSecond(p)
    \/ Check(p) \/ Rmtree(p) \/ RmtreeFails(p) \/ Mark(p) \/ MakeRootfs(p) \/ Extract(p)
    \/ WriteManifest(p) \/ Abort(p) \/ Finish(p)
    \/ Clear(p) \/ Remove(p) \/ Move(p)
    \/ RestoreCheck(p) \/ RestoreFirst(p) \/ RestoreRest(p) \/ RestoreFails(p)
    \/ RestoreManifest(p) \/ RestoreFinish(p)
    \/ OpenRootfs(p) \/ Read(p) \/ Crash(p)

\* What a step of p leaves alone.
Framed(p) ==
    /\ \A q \in Procs \ {p} : pc'[q] = pc[q] /\ job'[q] = job[q] /\ held'[q] = held[q]
    /\ \A n \in Names : held[p][n] # "exclusive" => tree'[n] = tree[n] /\ content'[n] = content[n]

\* What a step of p may do to its own entries.
Ended(p)    == pc'[p] = "idle" /\ \A n \in Names : held'[p][n] = "none"
Stayed(p)   == job' = job /\ held' = held
Quiet       == tree' = tree /\ content' = content

-------------------------------------------------------------------------------
(* Parts of steps                                                          *)

LEMMA EndTyped ==
    ASSUME TypeOK, NEW p \in Procs, End(p)
    PROVE  /\ held' \in [Procs -> [Names -> {"none", "shared", "exclusive"}]]
           /\ job' \in [Procs -> Jobs \union {None}]
           /\ pc' \in [Procs -> Steps]
           /\ Ended(p)
           /\ \A q \in Procs \ {p} : pc'[q] = pc[q] /\ job'[q] = job[q] /\ held'[q] = held[q]
<1>1. "idle" \in Steps
  BY DEF Steps
<1> QED
  BY <1>1 DEF TypeOK, End, Goto, Ended

LEMMA GotoTyped ==
    ASSUME TypeOK, NEW p \in Procs, NEW step \in Steps, Goto(p, step)
    PROVE  /\ pc' \in [Procs -> Steps]
           /\ pc'[p] = step
           /\ \A q \in Procs \ {p} : pc'[q] = pc[q]
BY DEF TypeOK, Goto

LEMMA SetTyped ==
    ASSUME TypeOK, NEW n \in Names, NEW field, NEW value, Set(n, field, value),
           \/ field = "marker" /\ value \in BOOLEAN
           \/ field = "manifest" /\ value \in {"none", "torn", "whole"}
           \/ field = "rootfs" /\ value \in {"none", "partial", "whole"}
    PROVE  /\ tree' \in [Names -> Tree]
           /\ tree'[n] = [tree[n] EXCEPT ![field] = value]
           /\ \A m \in Names \ {n} : tree'[m] = tree[m]
<1>1. [tree[n] EXCEPT ![field] = value] \in Tree
  BY DEF TypeOK, Tree
<1> QED
  BY <1>1 DEF TypeOK, Set

LEMMA AbsentTyped == Absent \in Tree
BY DEF Absent, Tree

LEMMA EntryTyped ==
    ASSUME NEW t \in Tree
    PROVE  OneEntryLess(t) \subseteq Tree
BY AbsentTyped DEF OneEntryLess

LEMMA Named ==
    ASSUME IInv, NEW p \in Procs, pc[p] # "idle"
    PROVE  Knows(p) /\ name(p) \in Names /\ job[p].target \in Names
BY DEF IInv, Knows, Jobs, name

-------------------------------------------------------------------------------
(* What the others know                                                    *)

\* It is enough to look at the process that moves.
LEMMA OthersKnow ==
    ASSUME IInv, NEW p \in Procs, Framed(p), TypeOK', Apart', Rooted',
           pc'[p] # "idle" => Knows(p)'
    PROVE  IInv'
<1>1. ASSUME NEW q \in Procs \ {p}, pc'[q] # "idle"
      PROVE  Knows(q)'
  <2>1. pc'[q] = pc[q] /\ job'[q] = job[q] /\ held'[q] = held[q]
    BY DEF Framed
  <2>2. Knows(q) /\ name(q) \in Names
    BY <1>1, <2>1, Named
  <2>3. pc[q] \in Free =>
          content'[name(q)] = content[name(q)] /\ tree'[name(q)] = tree[name(q)]
    <3> SUFFICES ASSUME pc[q] \in Free
                 PROVE  held[p][name(q)] # "exclusive"
      BY <2>2 DEF Framed
    <3>1. held[q][name(q)] = "exclusive"
      BY <2>2 DEF Knows, Free, Writing
    <3> QED
      BY <2>2, <3>1 DEF IInv, Apart
  <2> QED
    BY <2>1, <2>2, <2>3 DEF Knows, name, Smaller, Installed, Free, Filling
<1> QED
  BY <1>1 DEF IInv

\* A command that ends without touching a directory.
LEMMA EndsQuietly ==
    ASSUME IInv, NEW p \in Procs, End(p), UNCHANGED <<tree, content>>
    PROVE  IInv'
<1>1. /\ TypeOK'
      /\ pc'[p] = "idle"
      /\ \A n \in Names : held'[p][n] = "none"
      /\ \A q \in Procs \ {p} : pc'[q] = pc[q] /\ job'[q] = job[q] /\ held'[q] = held[q]
  BY EndTyped DEF IInv, TypeOK, Ended
<1>2. Apart' /\ Rooted' /\ Framed(p)
  BY <1>1 DEF IInv, Apart, Rooted, Installed, Framed
<1> QED
  BY <1>1, <1>2, OthersKnow

\* A command that ends with a change to what it has locked.
LEMMA EndsChanging ==
    ASSUME IInv, NEW p \in Procs, End(p),
           tree' \in [Names -> Tree],
           content' \in [Names -> Containers \union {None}],
           \A n \in Names : held[p][n] # "exclusive" =>
               tree'[n] = tree[n] /\ content'[n] = content[n],
           Rooted'
    PROVE  IInv'
<1>1. /\ TypeOK'
      /\ pc'[p] = "idle"
      /\ \A n \in Names : held'[p][n] = "none"
      /\ \A q \in Procs \ {p} : pc'[q] = pc[q] /\ job'[q] = job[q] /\ held'[q] = held[q]
  BY EndTyped DEF IInv, TypeOK, Ended
<1>2. Apart' /\ Framed(p)
  BY <1>1 DEF IInv, Apart, Framed
<1> QED
  BY <1>1, <1>2, OthersKnow

\* A command that goes on with the locks it has, to a step that may need the name free.
LEMMA GoesOn ==
    ASSUME IInv, NEW p \in Procs, pc[p] \in Writing, NEW step \in Writing \ {"move"},
           pc' = [pc EXCEPT ![p] = step], UNCHANGED <<held, job>>,
           tree' \in [Names -> Tree],
           content' \in [Names -> Containers \union {None}],
           \A n \in Names \ {name(p)} : tree'[n] = tree[n] /\ content'[n] = content[n],
           step \in Free => content'[name(p)] = None,
           step \in Filling => tree'[name(p)].rootfs # "none",
           content'[name(p)] # None => tree'[name(p)].rootfs # "none"
    PROVE  IInv'
<1>1. Knows(p) /\ name(p) \in Names
  BY Named DEF Writing
<1>2. pc' \in [Procs -> Steps] /\ pc'[p] = step
        /\ \A q \in Procs \ {p} : pc'[q] = pc[q]
  BY DEF IInv, TypeOK, Writing, Steps
<1>3. TypeOK'
  BY <1>2 DEF IInv, TypeOK
<1>4. Apart' /\ Rooted'
  BY <1>1 DEF IInv, Apart, Rooted, Installed
<1>5. held[p][name(p)] = "exclusive"
  BY <1>1 DEF Knows
<1>6. Framed(p)
  BY <1>2, <1>5 DEF Framed
<1>7. Knows(p)'
  BY <1>1, <1>2, <1>5 DEF Knows, name, Writing, Installed
<1> QED
  BY <1>3, <1>4, <1>6, <1>7, OthersKnow

-------------------------------------------------------------------------------
(* Starting and locking                                                    *)

LEMMA StartStep ==
    ASSUME IInv, NEW p \in Procs, Start(p)
    PROVE  IInv'
<1>1. PICK c \in Commands, n \in Names, m \in Names :
          /\ Admits(c, n, m)
          /\ c # "rename" => m = n
          /\ job' = [job EXCEPT ![p] = [command |-> c, name |-> n, target |-> m]]
  BY DEF Start
<1>2. c = "rename" => n # m
  BY <1>1 DEF Admits
<1>3. [command |-> c, name |-> n, target |-> m] \in Jobs
  BY StoreAssumption DEF Jobs
<1>4. /\ pc' \in [Procs -> Steps]
      /\ pc'[p] = "lock"
      /\ \A q \in Procs \ {p} : pc'[q] = pc[q]
  BY GotoTyped DEF IInv, Start, Steps
<1>5. TypeOK'
  BY <1>1, <1>3, <1>4 DEF IInv, TypeOK, Start
<1>6. Apart' /\ Rooted'
  BY DEF IInv, Start, Apart, Rooted, Installed
<1>7. Framed(p)
  BY <1>1, <1>4 DEF IInv, TypeOK, Start, Framed
<1>8. job'[p] = [command |-> c, name |-> n, target |-> m]
  BY <1>1 DEF IInv, TypeOK
<1>9. Knows(p)'
  BY <1>1, <1>2, <1>3, <1>4, <1>8 DEF Knows, Writing, Free, Filling
<1> QED
  BY <1>5, <1>6, <1>7, <1>9, OthersKnow

LEMMA ModeTyped ==
    ASSUME NEW p \in Procs
    PROVE  Mode(p) \in {"shared", "exclusive"}
BY DEF Mode

\* What acquire does, whichever lock is asked for.
LEMMA LockStep ==
    ASSUME IInv, NEW p \in Procs, pc[p] # "idle", NEW n \in Names, NEW step \in Steps,
           LockOrRefuse(p, n, step),
           held' = [held EXCEPT ![p][n] = Mode(p)] /\ pc' = [pc EXCEPT ![p] = step] /\ job' = job
               => Knows(p)'
    PROVE  IInv'
<1>1. CASE ~ Grantable(n, p, Mode(p))
  BY <1>1, EndsQuietly DEF LockOrRefuse
<1>2. CASE Grantable(n, p, Mode(p))
  <2>1. /\ held' = [held EXCEPT ![p][n] = Mode(p)]
        /\ Goto(p, step)
        /\ UNCHANGED <<tree, content, job>>
    BY <1>2 DEF LockOrRefuse
  <2>2. /\ pc' \in [Procs -> Steps]
        /\ pc'[p] = step
        /\ \A q \in Procs \ {p} : pc'[q] = pc[q]
    BY <2>1, GotoTyped DEF IInv
  <2>3. TypeOK' /\ Rooted' /\ Framed(p)
    BY <2>1, <2>2, ModeTyped DEF IInv, TypeOK, Rooted, Installed, Framed
  <2>4. Apart'
    <3>1. ASSUME NEW q \in Procs \ {p}, NEW m \in Names
          PROVE  /\ held'[p][m] = "exclusive" => held'[q][m] = "none"
                 /\ held'[q][m] = "exclusive" => held'[p][m] = "none"
      <4>1. CASE m = n
        BY <1>2, <2>1, <4>1, ModeTyped DEF IInv, TypeOK, Grantable
      <4>2. CASE m # n
        BY <2>1, <4>2 DEF IInv, TypeOK, Apart
      <4> QED
        BY <4>1, <4>2
    <3>2. \A q \in Procs \ {p} : held'[q] = held[q]
      BY <2>3 DEF Framed
    <3> QED
      BY <3>1, <3>2 DEF Apart, IInv
  <2> QED
    BY <2>1, <2>3, <2>4, OthersKnow DEF Goto
<1> QED
  BY <1>1, <1>2

LEMMA FirstSteps ==
    ASSUME NEW p \in Procs, job[p] \in Jobs
    PROVE  /\ FirstStep(p) \in Steps
           /\ FirstStep(p) \notin Free \union Filling \union {"idle", "lock", "lockSecond"}
           /\ FirstStep(p) = "move" => job[p].command = "rename"
           /\ FirstStep(p) \in {"open", "read"} <=> Mode(p) = "shared"
           /\ FirstStep(p) \in Writing <=> Mode(p) = "exclusive"
<1>1. job[p].command \in CommandNames
  BY DEF Jobs
<1> QED
  BY <1>1 DEF FirstStep, Mode, CommandNames, Steps, Free, Filling, Writing

LEMMA LockFirstStep ==
    ASSUME IInv, NEW p \in Procs, Lock(p)
    PROVE  IInv'
<1>1. pc[p] = "lock" /\ pc[p] # "idle"
  BY DEF Lock
<1>2. Knows(p) /\ name(p) \in Names /\ job[p].target \in Names
  BY <1>1, Named
<1>3. Smaller(p) \in Names
  BY <1>2 DEF Smaller
<1> DEFINE step == IF job[p].command = "rename" THEN "lockSecond" ELSE FirstStep(p)
<1>4. step \in Steps
  BY <1>2, FirstSteps DEF Knows, Steps
<1>5. ASSUME held' = [held EXCEPT ![p][Smaller(p)] = Mode(p)],
             pc' = [pc EXCEPT ![p] = step], job' = job
      PROVE  Knows(p)'
  <2>1. held'[p][Smaller(p)] = Mode(p) /\ pc'[p] = step
    BY <1>3, <1>5 DEF IInv, TypeOK
  <2>2. CASE job[p].command = "rename"
    BY <1>2, <1>5, <2>1, <2>2 DEF Knows, Mode, Smaller, name, Writing, Free, Filling
  <2>3. CASE job[p].command # "rename"
    <3>1. Smaller(p) = name(p)
      BY <1>2, <2>3 DEF Knows, Smaller, name
    <3> HIDE DEF step
    <3>2. /\ step \notin Free \union Filling \union {"lockSecond", "move"}
          /\ step \in {"open", "read"} <=> Mode(p) = "shared"
          /\ step \in Writing <=> Mode(p) = "exclusive"
      BY <1>2, <2>3, FirstSteps DEF Knows, step
    <3> QED
      BY <1>2, <1>5, <2>1, <3>1, <3>2 DEF Knows, name
  <2> QED
    BY <2>2, <2>3
<1>6. LockOrRefuse(p, Smaller(p), step)
  BY DEF Lock
<1> QED
  BY <1>1, <1>3, <1>4, <1>5, <1>6, LockStep

LEMMA LockSecondStep ==
    ASSUME IInv, NEW p \in Procs, LockSecond(p)
    PROVE  IInv'
<1>1. pc[p] = "lockSecond" /\ pc[p] # "idle"
  BY DEF LockSecond
<1>2. Knows(p) /\ name(p) \in Names /\ job[p].target \in Names
  BY <1>1, Named
<1>3. Larger(p) \in Names
  BY <1>2 DEF Larger
<1>4. job[p].command = "rename" /\ held[p][Smaller(p)] = "exclusive" /\ Mode(p) = "exclusive"
  BY <1>1, <1>2 DEF Knows, Mode
<1>5. FirstStep(p) = "move" /\ "move" \in Steps
  BY <1>4 DEF FirstStep, Steps
<1>6. ASSUME held' = [held EXCEPT ![p][Larger(p)] = Mode(p)],
             pc' = [pc EXCEPT ![p] = "move"], job' = job
      PROVE  Knows(p)'
  <2>1. pc'[p] = "move" /\ held'[p][Larger(p)] = "exclusive" /\ held'[p][Smaller(p)] = "exclusive"
    BY <1>3, <1>4, <1>6 DEF IInv, TypeOK
  <2>2. held'[p][name(p)] = "exclusive" /\ held'[p][job[p].target] = "exclusive"
    BY <2>1 DEF Larger, Smaller
  <2> QED
    BY <1>2, <1>4, <1>6, <2>1, <2>2 DEF Knows, name, Free, Filling
<1>7. LockOrRefuse(p, Larger(p), "move")
  BY <1>5 DEF LockSecond
<1> QED
  BY <1>1, <1>3, <1>5, <1>6, <1>7, LockStep

-------------------------------------------------------------------------------
(* The steps of the commands                                               *)

\* A step that only decides where to go on.
LEMMA GoesOnQuietly ==
    ASSUME IInv, NEW p \in Procs, pc[p] \in Writing, NEW step \in Writing \ {"move"},
           Goto(p, step), UNCHANGED <<tree, content, held, job>>,
           step \in Free => content[name(p)] = None,
           step \in Filling => Installed(name(p))
    PROVE  IInv'
<1>1. name(p) \in Names
  BY Named DEF Writing
<1> QED
  BY <1>1, GoesOn DEF IInv, TypeOK, Goto, Rooted, Installed

\* A step that writes one entry of the directory.
LEMMA GoesOnWriting ==
    ASSUME IInv, NEW p \in Procs, pc[p] \in Writing, NEW step \in Writing \ {"move"},
           Goto(p, step), NEW field, NEW value, Set(name(p), field, value),
           \/ field = "marker" /\ value \in BOOLEAN
           \/ field = "manifest" /\ value \in {"none", "torn", "whole"}
           \/ field = "rootfs" /\ value \in {"none", "partial", "whole"},
           UNCHANGED <<content, held, job>>,
           content[name(p)] = None,
           step \in Filling => \/ field # "rootfs" /\ Installed(name(p))
                               \/ field = "rootfs" /\ value # "none"
    PROVE  IInv'
<1>1. name(p) \in Names
  BY Named DEF Writing
<1>2. /\ tree' \in [Names -> Tree]
      /\ tree'[name(p)] = [tree[name(p)] EXCEPT ![field] = value]
      /\ \A m \in Names \ {name(p)} : tree'[m] = tree[m]
  BY <1>1, SetTyped DEF IInv
<1>3. step \in Filling => tree'[name(p)].rootfs # "none"
  BY <1>1, <1>2 DEF IInv, TypeOK, Tree, Installed
<1> QED
  BY <1>1, <1>2, <1>3, GoesOn DEF IInv, TypeOK, Goto

\* The name is free while somebody makes a container of it.
LEMMA NameFree ==
    ASSUME IInv, NEW p \in Procs, pc[p] \in Free
    PROVE  /\ content[name(p)] = None
           /\ pc[p] \in Filling => Installed(name(p))
BY Named DEF Free, Knows

LEMMA CheckStep ==
    ASSUME IInv, NEW p \in Procs, Check(p) \/ RestoreCheck(p)
    PROVE  IInv'
<1>1. pc[p] \in Writing /\ name(p) \in Names
  BY Named DEF Check, RestoreCheck, Writing
<1>2. ~ Installed(name(p)) => content[name(p)] = None
  BY <1>1 DEF IInv, Rooted
<1>3. CASE End(p) /\ UNCHANGED <<tree, content>>
  BY <1>3, EndsQuietly
<1>4. ASSUME NEW step \in {"wipe", "mark", "restore"}, Goto(p, step),
             UNCHANGED <<tree, content, held, job>>, step # "wipe" => ~ Installed(name(p))
      PROVE  IInv'
  BY <1>1, <1>2, <1>4, GoesOnQuietly DEF Writing, Free, Filling
<1>5. CASE Check(p)
  BY <1>3, <1>4, <1>5 DEF Check
<1>6. CASE RestoreCheck(p)
  BY <1>3, <1>4, <1>6 DEF RestoreCheck
<1> QED
  BY <1>5, <1>6

\* One entry of the directory is removed.
LEMMA EntryRemoved ==
    ASSUME IInv, NEW p \in Procs, pc[p] \in {"wipe", "cleanup", "remove"},
           \E t \in OneEntryLess(tree[name(p)]) : tree' = [tree EXCEPT ![name(p)] = t],
           content' = [content EXCEPT ![name(p)] = None],
           UNCHANGED <<held, job, pc>>
    PROVE  IInv'
<1>1. pc[p] \in Writing \ {"move"} /\ name(p) \in Names
  BY Named DEF Writing
<1>2. tree' \in [Names -> Tree] /\ \A n \in Names \ {name(p)} : tree'[n] = tree[n]
  BY <1>1, EntryTyped DEF IInv, TypeOK
<1>3. /\ content' \in [Names -> Containers \union {None}]
      /\ content'[name(p)] = None
      /\ \A n \in Names \ {name(p)} : content'[n] = content[n]
  BY <1>1 DEF IInv, TypeOK
<1>4. pc' = [pc EXCEPT ![p] = pc[p]]
  BY DEF IInv, TypeOK
<1> QED
  BY <1>1, <1>2, <1>3, <1>4, GoesOn DEF Filling

LEMMA RmtreeStep ==
    ASSUME IInv, NEW p \in Procs, Rmtree(p) \/ RmtreeFails(p)
    PROVE  IInv'
<1>1. pc[p] \in {"wipe", "cleanup"} /\ pc[p] \in Writing /\ name(p) \in Names
  BY Named DEF Rmtree, RmtreeFails, Writing
<1>2. CASE /\ \E t \in OneEntryLess(tree[name(p)]) : tree' = [tree EXCEPT ![name(p)] = t]
           /\ content' = [content EXCEPT ![name(p)] = None]
           /\ UNCHANGED <<held, job, pc>>
  BY <1>1, <1>2, EntryRemoved
<1>3. CASE End(p) /\ UNCHANGED <<tree, content>>
  BY <1>3, EndsQuietly
<1>4. CASE tree[name(p)] = Absent /\ Goto(p, "mark") /\ UNCHANGED <<tree, content, held, job>>
  <2>1. content[name(p)] = None
    BY <1>1, <1>4 DEF IInv, Rooted, Installed, Absent
  <2> QED
    BY <1>1, <1>4, <2>1, GoesOnQuietly DEF Writing, Filling
<1> QED
  BY <1>2, <1>3, <1>4 DEF Rmtree, RmtreeFails

LEMMA RemoveStep ==
    ASSUME IInv, NEW p \in Procs, Remove(p)
    PROVE  IInv'
BY EntryRemoved, EndsQuietly DEF Remove

LEMMA InstallStep ==
    ASSUME IInv, NEW p \in Procs,
           Mark(p) \/ MakeRootfs(p) \/ Extract(p) \/ WriteManifest(p) \/ Abort(p)
    PROVE  IInv'
<1>1. pc[p] \in {"mark", "mkroot", "extract", "manifest"}
  BY DEF Mark, MakeRootfs, Extract, WriteManifest, Abort
<1>2. /\ pc[p] \in Writing /\ content[name(p)] = None
      /\ pc[p] \in Filling => Installed(name(p))
  BY <1>1, NameFree DEF Writing, Free
<1>3. CASE Mark(p)
  <2>1. "mkroot" \in Writing \ {"move"} /\ "mkroot" \notin Filling
    BY DEF Writing, Filling
  <2> QED
    BY <1>2, <1>3, <2>1, GoesOnWriting DEF Mark
<1>4. CASE MakeRootfs(p)
  BY <1>2, <1>4, GoesOnWriting, EndsQuietly DEF MakeRootfs, Writing, Filling
<1>5. CASE Extract(p)
  BY <1>2, <1>5, GoesOnWriting DEF Extract, Writing, Filling
<1>6. CASE WriteManifest(p)
  BY <1>2, <1>6, GoesOnWriting, EndsQuietly DEF WriteManifest, Writing, Filling
<1>7. CASE Abort(p)
  BY <1>2, <1>7, GoesOnQuietly DEF Abort, Writing, Filling
<1> QED
  BY <1>3, <1>4, <1>5, <1>6, <1>7

LEMMA RestoreStep ==
    ASSUME IInv, NEW p \in Procs,
           RestoreFirst(p) \/ RestoreRest(p) \/ RestoreFails(p) \/ RestoreManifest(p)
    PROVE  IInv'
<1>1. pc[p] \in {"restore", "restoreRest", "restoreManifest"}
  BY DEF RestoreFirst, RestoreRest, RestoreFails, RestoreManifest
<1>2. pc[p] \in Writing \ {"move"} /\ content[name(p)] = None
  BY <1>1, NameFree DEF Writing, Free
<1>3. CASE RestoreFirst(p)
  BY <1>2, <1>3, GoesOnWriting, EndsQuietly DEF RestoreFirst, Writing, Filling
<1>4. CASE RestoreRest(p)
  BY <1>2, <1>4, GoesOnWriting, GoesOnQuietly DEF RestoreRest, Writing, Filling
<1>5. CASE RestoreFails(p)
  BY <1>5, EndsQuietly DEF RestoreFails
<1>6. CASE RestoreManifest(p)
  <2>1. CASE Set(name(p), "manifest", "torn") /\ UNCHANGED <<pc, content, held, job>>
    <3>1. Goto(p, pc[p])
      BY <2>1 DEF IInv, TypeOK, Goto
    <3> QED
      BY <1>1, <1>2, <2>1, <3>1, GoesOnWriting DEF Filling
  <2>2. CASE /\ Set(name(p), "manifest", "whole") /\ Goto(p, "restoreFinish")
             /\ UNCHANGED <<content, held, job>>
    BY <1>2, <2>2, GoesOnWriting DEF Writing, Filling
  <2> QED
    BY <1>6, <2>1, <2>2 DEF RestoreManifest
<1> QED
  BY <1>3, <1>4, <1>5, <1>6

LEMMA ClearStep ==
    ASSUME IInv, NEW p \in Procs, Clear(p)
    PROVE  IInv'
<1>1. pc[p] = "clear" /\ pc[p] \in Writing \ {"move"} /\ name(p) \in Names
  BY Named DEF Clear, Writing
<1>2. CASE Goto(p, "check") /\ UNCHANGED <<tree, content, held, job>>
  BY <1>1, <1>2, GoesOnQuietly DEF Writing, Free, Filling
<1>3. ASSUME NEW left \in {"partial", "none"}, Set(name(p), "rootfs", left),
             content' = [content EXCEPT ![name(p)] = None], UNCHANGED <<held, job, pc>>
      PROVE  IInv'
  <2>1. tree' \in [Names -> Tree] /\ \A m \in Names \ {name(p)} : tree'[m] = tree[m]
    BY <1>1, <1>3, SetTyped DEF IInv
  <2>2. /\ content' \in [Names -> Containers \union {None}]
        /\ content'[name(p)] = None
        /\ \A m \in Names \ {name(p)} : content'[m] = content[m]
    BY <1>1, <1>3 DEF IInv, TypeOK
  <2>3. pc' = [pc EXCEPT ![p] = pc[p]]
    BY <1>3 DEF IInv, TypeOK
  <2> QED
    BY <1>1, <1>3, <2>1, <2>2, <2>3, GoesOn DEF Free, Filling
<1> QED
  BY <1>2, <1>3 DEF Clear

\* A container is finished: it has its rootfs, and the catalog one it did not have.
LEMMA FinishStep ==
    ASSUME IInv, NEW p \in Procs, Finish(p) \/ RestoreFinish(p)
    PROVE  IInv'
<1>1. pc[p] \in Writing /\ name(p) \in Names /\ held[p][name(p)] = "exclusive"
  BY Named DEF Finish, RestoreFinish, Writing, Knows
<1>2. ASSUME NEW c \in Fresh, content' = [content EXCEPT ![name(p)] = c], End(p),
             tree' \in [Names -> Tree],
             \A m \in Names \ {name(p)} : tree'[m] = tree[m],
             tree'[name(p)].rootfs # "none"
      PROVE  IInv'
  <2>1. /\ content' \in [Names -> Containers \union {None}]
        /\ \A m \in Names \ {name(p)} : content'[m] = content[m]
    BY <1>1, <1>2 DEF IInv, TypeOK, Fresh
  <2>2. Rooted'
    BY <1>1, <1>2, <2>1 DEF IInv, Rooted, Installed
  <2> QED
    BY <1>1, <1>2, <2>1, <2>2, EndsChanging
<1>3. CASE Finish(p)
  <2>1. Installed(name(p))
    BY <1>3, NameFree DEF Finish, Free, Filling
  <2>2. /\ tree' \in [Names -> Tree]
        /\ tree'[name(p)] = [tree[name(p)] EXCEPT !["marker"] = FALSE]
        /\ \A m \in Names \ {name(p)} : tree'[m] = tree[m]
    BY <1>1, <1>3, SetTyped DEF IInv, Finish
  <2>3. tree'[name(p)].rootfs # "none"
    BY <1>1, <2>1, <2>2 DEF IInv, TypeOK, Tree, Installed
  <2> QED
    BY <1>2, <1>3, <2>2, <2>3 DEF Finish
<1>4. CASE RestoreFinish(p)
  <2>1. CASE tree[name(p)].rootfs = "whole"
    BY <1>1, <1>2, <1>4, <2>1 DEF RestoreFinish, IInv, TypeOK
  <2>2. CASE tree[name(p)].rootfs # "whole"
    BY <1>4, <2>2, EndsQuietly DEF RestoreFinish
  <2> QED
    BY <2>1, <2>2
<1> QED
  BY <1>3, <1>4

LEMMA MoveStep ==
    ASSUME IInv, NEW p \in Procs, Move(p)
    PROVE  IInv'
<1> DEFINE n == name(p)
           m == job[p].target
<1>1. /\ n \in Names /\ m \in Names /\ n # m
      /\ held[p][n] = "exclusive" /\ held[p][m] = "exclusive"
      /\ End(p)
  BY Named DEF Move, Knows, Writing, name
<1> HIDE DEF n, m
<1>2. CASE UNCHANGED <<tree, content>>
  BY <1>1, <1>2, EndsQuietly
<1>3. CASE /\ tree' = [tree EXCEPT ![n] = Absent, ![m] = tree[n]]
           /\ content' = [content EXCEPT ![n] = None, ![m] = content[n]]
  <2>1. /\ tree' \in [Names -> Tree]
        /\ content' \in [Names -> Containers \union {None}]
        /\ tree'[m] = tree[n] /\ content'[m] = content[n] /\ content'[n] = None
        /\ \A k \in Names \ {n, m} : tree'[k] = tree[k] /\ content'[k] = content[k]
    BY <1>1, <1>3, AbsentTyped DEF IInv, TypeOK
  <2>2. Rooted'
    BY <1>1, <2>1 DEF IInv, Rooted, Installed
  <2> QED
    BY <1>1, <2>1, <2>2, EndsChanging
<1> QED
  BY <1>2, <1>3 DEF Move, n, m

\* login finds the rootfs; a reader ends; anybody dies.
LEMMA ReaderStep ==
    ASSUME IInv, NEW p \in Procs, OpenRootfs(p) \/ Read(p) \/ Crash(p)
    PROVE  IInv'
<1>1. CASE End(p) /\ UNCHANGED <<tree, content>>
  BY <1>1, EndsQuietly
<1>2. CASE pc[p] = "open" /\ Goto(p, "read") /\ UNCHANGED <<tree, content, held, job>>
  <2>1. Knows(p)
    BY <1>2, Named
  <2>2. /\ pc' \in [Procs -> Steps]
        /\ pc'[p] = "read"
        /\ \A q \in Procs \ {p} : pc'[q] = pc[q]
    BY <1>2, GotoTyped DEF IInv, Steps
  <2>3. TypeOK' /\ Framed(p)
    BY <1>2, <2>2 DEF IInv, TypeOK, Framed
  <2>4. Apart' /\ Rooted'
    BY <1>2 DEF IInv, Apart, Rooted, Installed
  <2>5. Knows(p)'
    BY <1>2, <2>1, <2>2 DEF Knows, name, Writing, Free, Filling
  <2> QED
    BY <2>3, <2>4, <2>5, OthersKnow
<1> QED
  BY <1>1, <1>2 DEF OpenRootfs, Read, Crash

-------------------------------------------------------------------------------
(* The invariant                                                           *)

LEMMA NextActs == Next <=> \E p \in Procs : Acts(p)
BY DEF Next, Acts

LEMMA InvInit == Init => IInv
BY AbsentTyped DEF Init, IInv, TypeOK, Apart, Rooted, Steps, Absent, Installed

LEMMA InvNext == IInv /\ [Next]_vars => IInv'
<1> SUFFICES ASSUME IInv, [Next]_vars
             PROVE  IInv'
  OBVIOUS
<1>1. CASE UNCHANGED vars
  BY <1>1 DEF vars, IInv, TypeOK, Apart, Rooted, Installed, Knows, name, Smaller
<1>2. ASSUME NEW p \in Procs, Acts(p)
      PROVE  IInv'
  BY <1>2, StartStep, LockFirstStep, LockSecondStep, CheckStep, RmtreeStep, InstallStep,
     FinishStep, ClearStep, RemoveStep, MoveStep, RestoreStep, ReaderStep
     DEF Acts
<1> QED
  BY <1>1, <1>2, NextActs

LEMMA Invariant == Spec => []IInv
BY InvInit, InvNext, PTL DEF Spec

\* Every variable keeps its type.
THEOREM TypeCorrect == Spec => []TypeOK
<1>1. IInv => TypeOK
  BY DEF IInv
<1> QED
  BY <1>1, Invariant, PTL

-------------------------------------------------------------------------------
(* What a step changes                                                     *)

LEMMA TreeChanges ==
    ASSUME NEW p \in Procs, Acts(p)
    PROVE  \/ tree' = tree
           \/ pc[p] \in Writing /\ \E t : tree' = [tree EXCEPT ![name(p)] = t]
           \/ /\ pc[p] = "move"
              /\ tree' = [tree EXCEPT ![name(p)] = Absent, ![job[p].target] = tree[name(p)]]
<1>1. CASE Start(p) \/ Lock(p) \/ LockSecond(p) \/ Check(p) \/ RmtreeFails(p) \/ Abort(p)
           \/ RestoreCheck(p) \/ RestoreFails(p) \/ RestoreFinish(p)
           \/ OpenRootfs(p) \/ Read(p) \/ Crash(p)
  BY <1>1 DEF Start, Lock, LockSecond, LockOrRefuse, Check, RmtreeFails, Abort, RestoreCheck,
     RestoreFails, RestoreFinish, OpenRootfs, Read, Crash
<1>2. CASE Rmtree(p) \/ Remove(p)
  BY <1>2 DEF Rmtree, Remove, Writing
<1>3. CASE Mark(p) \/ MakeRootfs(p) \/ Extract(p) \/ WriteManifest(p) \/ Finish(p)
  BY <1>3 DEF Mark, MakeRootfs, Extract, WriteManifest, Finish, Set, Writing
<1>4. CASE Clear(p) \/ RestoreFirst(p) \/ RestoreRest(p) \/ RestoreManifest(p)
  BY <1>4 DEF Clear, RestoreFirst, RestoreRest, RestoreManifest, Set, Writing
<1>5. CASE Move(p)
  BY <1>5 DEF Move
<1> QED
  BY <1>1, <1>2, <1>3, <1>4, <1>5 DEF Acts

LEMMA ContentChanges ==
    ASSUME NEW p \in Procs, Acts(p)
    PROVE  \/ content' = content
           \/ /\ pc[p] \in {"wipe", "cleanup", "clear", "remove"}
              /\ content' = [content EXCEPT ![name(p)] = None]
           \/ /\ pc[p] \in {"finish", "restoreFinish"}
              /\ \E c \in Fresh : content' = [content EXCEPT ![name(p)] = c]
           \/ /\ pc[p] = "move" /\ tree[job[p].target] = Absent
              /\ content' = [content EXCEPT ![name(p)] = None,
                                            ![job[p].target] = content[name(p)]]
<1>1. CASE Start(p) \/ Lock(p) \/ LockSecond(p) \/ Check(p) \/ RmtreeFails(p) \/ Abort(p)
           \/ RestoreCheck(p) \/ RestoreFails(p) \/ OpenRootfs(p) \/ Read(p) \/ Crash(p)
  BY <1>1 DEF Start, Lock, LockSecond, LockOrRefuse, Check, RmtreeFails, Abort, RestoreCheck,
     RestoreFails, OpenRootfs, Read, Crash
<1>2. CASE Rmtree(p) \/ Remove(p) \/ Clear(p)
  BY <1>2 DEF Rmtree, Remove, Clear
<1>3. CASE Mark(p) \/ MakeRootfs(p) \/ Extract(p) \/ WriteManifest(p)
           \/ RestoreFirst(p) \/ RestoreRest(p) \/ RestoreManifest(p)
  BY <1>3 DEF Mark, MakeRootfs, Extract, WriteManifest, RestoreFirst, RestoreRest, RestoreManifest
<1>4. CASE Finish(p) \/ RestoreFinish(p)
  BY <1>4 DEF Finish, RestoreFinish
<1>5. CASE Move(p)
  BY <1>5 DEF Move
<1> QED
  BY <1>1, <1>2, <1>3, <1>4, <1>5 DEF Acts

\* Nothing changes in a container while somebody has it open to read: whoever changes a
\* directory holds it alone (the shared and exclusive modes of ContainerLock).
THEOREM ReadersKept == Spec => ReadersUndisturbed
<1> DEFINE Undisturbed == \A p \in Procs : pc[p] = "read" => tree'[name(p)] = tree[name(p)]
<1>1. IInv /\ [Next]_vars => Undisturbed
  <2> SUFFICES ASSUME IInv, NEW q \in Procs, Acts(q),
                      NEW p \in Procs, pc[p] = "read", tree'[name(p)] # tree[name(p)]
               PROVE  FALSE
    BY NextActs DEF vars
  <2>1. Knows(p) /\ name(p) \in Names /\ held[p][name(p)] = "shared"
    BY Named DEF Knows
  <2>2. pc[q] \in Writing
    BY TreeChanges DEF Writing
  <2>3. /\ Knows(q) /\ name(q) \in Names /\ job[q].target \in Names
        /\ held[q][name(q)] = "exclusive"
        /\ pc[q] = "move" => held[q][job[q].target] = "exclusive"
    BY <2>2, Named DEF Knows, Writing
  <2>4. name(q) # name(p) /\ (pc[q] = "move" => job[q].target # name(p))
    BY <2>1, <2>3 DEF IInv, Apart
  <2> QED
    BY <2>1, <2>3, <2>4, TreeChanges DEF IInv, TypeOK
<1> QED
  BY <1>1, Invariant, PTL DEF Spec, ReadersUndisturbed

\* The commands keep a catalog of finished containers: none replaces another, and none
\* is in two places, whatever fails or dies (install, reset, remove, rename, restore).
THEOREM KeepsCatalog == Spec => RefinesCatalog
<1>1. Init => Catalog!Init
  BY DEF Init, Catalog!Init
<1>2. IInv /\ [Next]_vars => [Catalog!Next]_content
  <2> SUFFICES ASSUME IInv, NEW p \in Procs, Acts(p), content' # content
               PROVE  Catalog!Next
    BY NextActs DEF vars
  <2> DEFINE n == name(p)
             m == job[p].target
  <2>1. pc[p] # "idle" /\ (pc[p] = "move" => n # m /\ pc[p] \in Writing)
    BY ContentChanges, Named DEF Knows, name, Writing
  <2>2. n \in Names /\ m \in Names
    BY <2>1, Named
  <2> HIDE DEF n, m
  <2>3. CASE content' = [content EXCEPT ![n] = None]
    <3>1. content[n] # None
      BY <2>2, <2>3 DEF IInv, TypeOK
    <3>2. Catalog!Delete(n)
      BY <2>3, <3>1 DEF Catalog!Delete
    <3> QED
      BY <2>2, <3>2 DEF Catalog!Next
  <2>4. ASSUME pc[p] \in {"finish", "restoreFinish"},
               NEW c \in Fresh, content' = [content EXCEPT ![n] = c]
        PROVE  Catalog!Next
    <3>1. content[n] = None
      BY <2>4, NameFree DEF Free, n
    <3>2. Catalog!Add(n, c)
      BY <2>4, <3>1 DEF Catalog!Add, Fresh
    <3> QED
      BY <2>2, <3>2 DEF Catalog!Next, Fresh
  <2>5. CASE /\ pc[p] = "move" /\ tree[m] = Absent
             /\ content' = [content EXCEPT ![n] = None, ![m] = content[n]]
    <3>1. content[m] = None
      BY <2>2, <2>5 DEF IInv, Rooted, Installed, Absent
    <3>2. content[n] # None
      BY <2>1, <2>2, <2>5, <3>1 DEF IInv, TypeOK
    <3>3. Catalog!Move(n, m)
      BY <2>5, <3>1, <3>2 DEF Catalog!Move
    <3> QED
      BY <2>2, <3>3 DEF Catalog!Next
  <2> QED
    BY <2>3, <2>4, <2>5, ContentChanges DEF n, m
<1> QED
  BY <1>1, <1>2, Invariant, PTL DEF Spec, RefinesCatalog, Catalog!Spec

-------------------------------------------------------------------------------
(* The marker.  Two things spoil it: a removal that dies half way may have  *)
(* taken the marker first, and restore writes none.  Without the two it can *)
(* be trusted at every moment, not only when nobody works on the container. *)

Spoilt == Piecemeal \/ "restore" \in Commands

Restoring == {"restoreCheck", "restore", "restoreRest", "restoreManifest", "restoreFinish"}
Marked    == {"mkroot", "extract", "manifest", "finish"}

Tells == \A n \in Names : Installed(n) => (tree[n].marker <=> content[n] = None)

Trusts(p) ==
    /\ job[p].command # "restore"
    /\ pc[p] \notin Restoring
    /\ pc[p] \in Marked => tree[name(p)].marker
    /\ pc[p] \in {"wipe", "cleanup"} => content[name(p)] = None

MInv == Tells /\ \A p \in Procs : pc[p] # "idle" => Trusts(p)

\* A step changes the state of no other process, and no directory it has not locked.
LEMMA ActsFramed ==
    ASSUME IInv, NEW p \in Procs, Acts(p)
    PROVE  Framed(p)
<1>1. ASSUME NEW q \in Procs \ {p}
      PROVE  pc'[q] = pc[q] /\ job'[q] = job[q] /\ held'[q] = held[q]
  <2>1. CASE End(p)
    BY <2>1, EndTyped DEF IInv
  <2>2. CASE Start(p) \/ Lock(p) \/ LockSecond(p)
    BY <2>1, <2>2 DEF IInv, TypeOK, Start, Lock, LockSecond, LockOrRefuse, Goto
  <2>3. CASE Check(p) \/ Rmtree(p) \/ RmtreeFails(p) \/ Mark(p) \/ MakeRootfs(p) \/ Extract(p)
    BY <2>1, <2>3 DEF IInv, TypeOK, Check, Rmtree, RmtreeFails, Mark, MakeRootfs, Extract, Goto
  <2>4. CASE WriteManifest(p) \/ Abort(p) \/ Finish(p) \/ Clear(p) \/ Remove(p) \/ Move(p)
    BY <2>1, <2>4 DEF IInv, TypeOK, WriteManifest, Abort, Finish, Clear, Remove, Move, Goto
  <2>5. CASE RestoreCheck(p) \/ RestoreFirst(p) \/ RestoreRest(p) \/ RestoreFails(p)
             \/ RestoreManifest(p) \/ RestoreFinish(p)
    BY <2>1, <2>5 DEF IInv, TypeOK, RestoreCheck, RestoreFirst, RestoreRest, RestoreFails,
       RestoreManifest, RestoreFinish, Goto
  <2>6. CASE OpenRootfs(p) \/ Read(p) \/ Crash(p)
    BY <2>1, <2>6 DEF IInv, TypeOK, OpenRootfs, Read, Crash, Goto
  <2> QED
    BY <2>2, <2>3, <2>4, <2>5, <2>6 DEF Acts
<1>2. ASSUME NEW n \in Names, held[p][n] # "exclusive"
      PROVE  tree'[n] = tree[n] /\ content'[n] = content[n]
  <2>1. /\ pc[p] \in Writing => name(p) \in Names /\ name(p) # n
        /\ pc[p] \in Writing /\ pc[p] = "move" => job[p].target \in Names \ {n}
    BY <1>2, Named DEF Knows, Writing
  <2>2. pc[p] \in {"wipe", "cleanup", "clear", "remove", "finish", "restoreFinish", "move"}
          => pc[p] \in Writing
    BY DEF Writing
  <2>3. tree'[n] = tree[n]
    BY <2>1, <2>2, TreeChanges DEF IInv, TypeOK
  <2>4. content'[n] = content[n]
    BY <2>1, <2>2, ContentChanges DEF IInv, TypeOK
  <2> QED
    BY <2>3, <2>4
<1> QED
  BY <1>1, <1>2 DEF Framed

LEMMA OthersTrust ==
    ASSUME IInv, MInv, NEW p \in Procs, Framed(p), Tells', pc'[p] # "idle" => Trusts(p)'
    PROVE  MInv'
<1>1. ASSUME NEW q \in Procs \ {p}, pc'[q] # "idle"
      PROVE  Trusts(q)'
  <2>1. pc'[q] = pc[q] /\ job'[q] = job[q]
    BY DEF Framed
  <2>2. Trusts(q) /\ Knows(q) /\ name(q) \in Names
    BY <1>1, <2>1, Named DEF MInv
  <2>3. pc[q] \in Marked \union {"wipe", "cleanup"} =>
          content'[name(q)] = content[name(q)] /\ tree'[name(q)] = tree[name(q)]
    BY <2>2 DEF Framed, Knows, Marked, Writing, IInv, Apart
  <2> QED
    BY <2>1, <2>2, <2>3 DEF Trusts, name
<1> QED
  BY <1>1 DEF MInv

\* A step that changes one directory.
LEMMA TellsAt ==
    ASSUME IInv, MInv, NEW n \in Names,
           tree' \in [Names -> Tree],
           \A m \in Names \ {n} : tree'[m] = tree[m] /\ content'[m] = content[m],
           \/ tree'[n].rootfs = "none"
           \/ tree'[n].marker <=> content'[n] = None
    PROVE  Tells'
BY DEF MInv, Tells, Installed

\* A step that changes no directory.
LEMMA TrustsQuietly ==
    ASSUME IInv, MInv, NEW p \in Procs, UNCHANGED <<tree, content>>,
           pc'[p] # "idle" => Trusts(p)'
    PROVE  Tells' /\ (pc'[p] # "idle" => Trusts(p)')
BY DEF MInv, Tells, Installed

LEMMA TrustEnds ==
    ASSUME IInv, MInv, NEW p \in Procs, End(p), UNCHANGED <<tree, content>>
    PROVE  Tells' /\ (pc'[p] # "idle" => Trusts(p)')
BY EndTyped, TrustsQuietly DEF IInv, Ended

\* A step that goes on to a step about whose directory nothing is to be known.
LEMMA TrustGoesOn ==
    ASSUME IInv, MInv, NEW p \in Procs, pc[p] # "idle",
           NEW step \in Steps \ (Restoring \union Marked \union {"wipe", "cleanup"}),
           Goto(p, step), job' = job, UNCHANGED <<tree, content>>
    PROVE  Tells' /\ (pc'[p] # "idle" => Trusts(p)')
<1>1. pc'[p] = step
  BY GotoTyped DEF IInv
<1>2. Trusts(p)'
  BY <1>1 DEF MInv, Trusts
<1> QED
  BY <1>2, TrustsQuietly

LEMMA TrustStarts ==
    ASSUME IInv, MInv, ~ Spoilt, NEW p \in Procs, Start(p) \/ Lock(p) \/ LockSecond(p)
    PROVE  Tells' /\ (pc'[p] # "idle" => Trusts(p)')
<1>1. CASE Start(p)
  <2>1. PICK c \in Commands, n \in Names, m \in Names :
          job' = [job EXCEPT ![p] = [command |-> c, name |-> n, target |-> m]]
    BY <1>1 DEF Start
  <2>2. pc'[p] = "lock" /\ job'[p].command # "restore"
    BY <1>1, <2>1 DEF IInv, TypeOK, Start, Goto, Spoilt
  <2>3. Trusts(p)'
    BY <2>2 DEF Trusts, Restoring, Marked
  <2> QED
    BY <1>1, <2>3, TrustsQuietly DEF Start
<1>2. CASE Lock(p) \/ LockSecond(p)
  <2>1. pc[p] # "idle"
    BY <1>2 DEF Lock, LockSecond
  <2>2. Knows(p) /\ job[p].command \in CommandNames \ {"restore"}
    BY <2>1, Named DEF MInv, Trusts, Knows, Jobs
  <2>3. FirstStep(p) \in {"check", "clear", "remove", "move", "read", "open"}
    BY <2>2 DEF FirstStep, CommandNames
  <2>4. ASSUME NEW step \in {"lockSecond", "check", "clear", "remove", "move", "read", "open"},
               Goto(p, step), UNCHANGED <<tree, content, job>>
        PROVE  Tells' /\ (pc'[p] # "idle" => Trusts(p)')
    BY <2>1, <2>4, TrustGoesOn DEF Steps, Restoring, Marked
  <2>5. CASE End(p) /\ UNCHANGED <<tree, content>>
    BY <2>5, TrustEnds
  <2> QED
    BY <1>2, <2>3, <2>4, <2>5 DEF Lock, LockSecond, LockOrRefuse
<1> QED
  BY <1>1, <1>2

\* The marker of an install, from the first step to the last.
LEMMA TrustInstalls ==
    ASSUME IInv, MInv, NEW p \in Procs,
           Check(p) \/ Mark(p) \/ MakeRootfs(p) \/ Extract(p) \/ WriteManifest(p) \/ Abort(p)
    PROVE  Tells' /\ (pc'[p] # "idle" => Trusts(p)')
<1>1. pc[p] \in Writing /\ pc[p] # "idle" /\ name(p) \in Names /\ Trusts(p)
  BY Named DEF Check, Mark, MakeRootfs, Extract, WriteManifest, Abort, Writing, MInv
<1>2. CASE End(p) /\ UNCHANGED <<tree, content>>
  BY <1>2, TrustEnds
<1>3. CASE Check(p)
  <2>1. CASE /\ Installed(name(p)) /\ tree[name(p)].marker
             /\ Goto(p, "wipe") /\ UNCHANGED <<tree, content, held, job>>
    <3>1. pc'[p] = "wipe" /\ content'[name(p)] = None
      BY <1>1, <2>1, GotoTyped DEF IInv, MInv, Tells, Steps
    <3>2. Trusts(p)'
      BY <1>1, <2>1, <3>1 DEF Trusts, name, Restoring, Marked
    <3> QED
      BY <2>1, <3>2, TrustsQuietly
  <2>2. CASE Goto(p, "mark") /\ UNCHANGED <<tree, content, held, job>>
    BY <1>1, <2>2, TrustGoesOn DEF Steps, Restoring, Marked
  <2> QED
    BY <1>2, <1>3, <2>1, <2>2 DEF Check
<1>4. CASE Abort(p)
  <2>1. pc'[p] = "cleanup" /\ content'[name(p)] = None
    BY <1>4, NameFree, GotoTyped DEF IInv, Abort, Steps, Free
  <2>2. Trusts(p)'
    BY <1>1, <1>4, <2>1 DEF Abort, Trusts, name, Restoring, Marked
  <2> QED
    BY <1>4, <2>2, TrustsQuietly DEF Abort
<1>5. ASSUME pc[p] \in Free, NEW step \in {"mkroot", "extract", "manifest", "finish"},
             Goto(p, step), NEW field, NEW value, Set(name(p), field, value),
             \/ field = "marker" /\ value = TRUE
             \/ /\ tree[name(p)].marker
                /\ \/ field = "manifest" /\ value = "whole"
                   \/ field = "rootfs" /\ value \in {"partial", "whole"},
             UNCHANGED <<content, job>>
      PROVE  Tells' /\ (pc'[p] # "idle" => Trusts(p)')
  <2>1. pc'[p] = step /\ content'[name(p)] = None
    BY <1>5, NameFree, GotoTyped DEF IInv, Steps
  <2>2. /\ tree' \in [Names -> Tree]
        /\ tree'[name(p)] = [tree[name(p)] EXCEPT ![field] = value]
        /\ \A m \in Names \ {name(p)} : tree'[m] = tree[m]
    BY <1>1, <1>5, SetTyped DEF IInv
  <2>3. tree'[name(p)].marker
    BY <1>1, <1>5, <2>2 DEF IInv, TypeOK, Tree
  <2>4. Tells'
    BY <1>1, <1>5, <2>1, <2>2, <2>3, TellsAt
  <2>5. Trusts(p)'
    BY <1>1, <1>5, <2>1, <2>3 DEF Trusts, name, Restoring
  <2> QED
    BY <2>4, <2>5
<1>6. CASE Mark(p)
  <2>1. "mark" \in Free
    BY DEF Free
  <2> QED
    BY <1>5, <1>6, <2>1 DEF Mark
<1>7. CASE MakeRootfs(p)
  <2>1. tree[name(p)].marker /\ "mkroot" \in Free
    BY <1>1, <1>7 DEF Trusts, Marked, MakeRootfs, Free
  <2> QED
    BY <1>2, <1>5, <1>7, <2>1 DEF MakeRootfs
<1>8. CASE Extract(p)
  <2>1. tree[name(p)].marker /\ "extract" \in Free
    BY <1>1, <1>8 DEF Trusts, Marked, Extract, Free
  <2> QED
    BY <1>5, <1>8, <2>1 DEF Extract
<1>9. CASE WriteManifest(p)
  <2>1. tree[name(p)].marker /\ "manifest" \in Free
    BY <1>1, <1>9 DEF Trusts, Marked, WriteManifest, Free
  <2> QED
    BY <1>2, <1>5, <1>9, <2>1 DEF WriteManifest
<1> QED
  BY <1>3, <1>4, <1>6, <1>7, <1>8, <1>9

\* A removal that takes effect at once leaves nothing the marker could be wrong about.
LEMMA TrustRemoves ==
    ASSUME IInv, MInv, ~ Spoilt, NEW p \in Procs,
           Rmtree(p) \/ RmtreeFails(p) \/ Clear(p) \/ Remove(p)
    PROVE  Tells' /\ (pc'[p] # "idle" => Trusts(p)')
<1>1. pc[p] \in {"wipe", "cleanup", "clear", "remove"} /\ name(p) \in Names /\ Trusts(p)
  BY Named DEF Rmtree, RmtreeFails, Clear, Remove, MInv
<1>2. CASE End(p) /\ UNCHANGED <<tree, content>>
  BY <1>2, TrustEnds
<1>3. ASSUME NEW step \in {"mark", "check"}, Goto(p, step), UNCHANGED <<tree, content, job>>
      PROVE  Tells' /\ (pc'[p] # "idle" => Trusts(p)')
  BY <1>1, <1>3, TrustGoesOn DEF Steps, Restoring, Marked
<1>4. ASSUME tree' \in [Names -> Tree], tree'[name(p)].rootfs = "none",
             \A m \in Names \ {name(p)} : tree'[m] = tree[m],
             content' = [content EXCEPT ![name(p)] = None], UNCHANGED <<held, job, pc>>
      PROVE  Tells' /\ (pc'[p] # "idle" => Trusts(p)')
  <2>1. /\ content'[name(p)] = None
        /\ \A m \in Names \ {name(p)} : content'[m] = content[m]
    BY <1>1, <1>4 DEF IInv, TypeOK
  <2>2. Tells'
    BY <1>1, <1>4, <2>1, TellsAt
  <2>3. Trusts(p)'
    BY <1>1, <1>4, <2>1 DEF Trusts, name, Marked
  <2> QED
    BY <2>2, <2>3
<1>5. CASE Rmtree(p) \/ Remove(p)
  <2>1. CASE tree' = [tree EXCEPT ![name(p)] = Absent]
    <3>1. /\ tree' \in [Names -> Tree]
          /\ tree'[name(p)].rootfs = "none"
          /\ \A m \in Names \ {name(p)} : tree'[m] = tree[m]
      BY <1>1, <2>1, AbsentTyped DEF IInv, TypeOK, Absent
    <3> QED
      BY <1>2, <1>3, <1>4, <1>5, <3>1 DEF Rmtree, Remove
  <2>2. OneEntryLess(tree[name(p)]) = {Absent}
    BY DEF OneEntryLess, Spoilt
  <2> QED
    BY <1>2, <1>3, <1>5, <2>1, <2>2 DEF Rmtree, Remove
<1>6. CASE Clear(p)
  <2>1. CASE Set(name(p), "rootfs", "none") /\ content' = [content EXCEPT ![name(p)] = None]
             /\ UNCHANGED <<held, job, pc>>
    <3>1. /\ tree' \in [Names -> Tree]
          /\ tree'[name(p)] = [tree[name(p)] EXCEPT !["rootfs"] = "none"]
          /\ \A m \in Names \ {name(p)} : tree'[m] = tree[m]
      BY <1>1, <2>1, SetTyped DEF IInv
    <3>2. tree'[name(p)].rootfs = "none"
      BY <1>1, <3>1 DEF IInv, TypeOK, Tree
    <3> QED
      BY <1>4, <2>1, <3>1, <3>2
  <2> QED
    BY <1>3, <1>6, <2>1 DEF Clear, Spoilt
<1>7. CASE RmtreeFails(p)
  BY <1>2, <1>7 DEF RmtreeFails
<1> QED
  BY <1>5, <1>6, <1>7

LEMMA TrustEndings ==
    ASSUME IInv, MInv, NEW p \in Procs, Finish(p) \/ Move(p)
    PROVE  Tells' /\ (pc'[p] # "idle" => Trusts(p)')
<1>1. End(p) /\ pc'[p] = "idle"
  BY EndTyped DEF IInv, Finish, Move, Ended
<1>2. name(p) \in Names /\ job[p].target \in Names
  BY Named DEF Finish, Move
<1>3. CASE Finish(p)
  <2>1. PICK c \in Fresh : content' = [content EXCEPT ![name(p)] = c]
    BY <1>3 DEF Finish
  <2>2. /\ content'[name(p)] # None
        /\ \A m \in Names \ {name(p)} : content'[m] = content[m]
    BY <1>2, <2>1, StoreAssumption DEF IInv, TypeOK, Fresh
  <2>3. /\ tree' \in [Names -> Tree]
        /\ tree'[name(p)] = [tree[name(p)] EXCEPT !["marker"] = FALSE]
        /\ \A m \in Names \ {name(p)} : tree'[m] = tree[m]
    BY <1>2, <1>3, SetTyped DEF IInv, Finish
  <2>4. tree'[name(p)].marker = FALSE
    BY <1>2, <2>3 DEF IInv, TypeOK, Tree
  <2> QED
    BY <1>1, <1>2, <2>2, <2>3, <2>4, TellsAt
<1>4. CASE Move(p)
  <2>1. CASE UNCHANGED <<tree, content>>
    BY <1>1, <2>1, TrustEnds
  <2> DEFINE n == name(p)
             m == job[p].target
  <2>2. CASE /\ tree' = [tree EXCEPT ![n] = Absent, ![m] = tree[n]]
             /\ content' = [content EXCEPT ![n] = None, ![m] = content[n]]
    <3> HIDE DEF n, m
    <3>1. n \in Names /\ m \in Names
      BY <1>2 DEF n, m
    <3>2. /\ tree'[m] = tree[n] /\ content'[m] = content[n]
          /\ n # m => tree'[n] = Absent
          /\ \A k \in Names \ {n, m} : tree'[k] = tree[k] /\ content'[k] = content[k]
      BY <2>2, <3>1 DEF IInv, TypeOK
    <3>3. Tells'
      BY <3>1, <3>2 DEF MInv, Tells, Installed, Absent
    <3> QED
      BY <1>1, <3>3
  <2> QED
    BY <1>4, <2>1, <2>2 DEF Move
<1> QED
  BY <1>3, <1>4

LEMMA TrustReads ==
    ASSUME IInv, MInv, NEW p \in Procs, OpenRootfs(p) \/ Read(p) \/ Crash(p)
    PROVE  Tells' /\ (pc'[p] # "idle" => Trusts(p)')
<1>1. CASE End(p) /\ UNCHANGED <<tree, content>>
  BY <1>1, TrustEnds
<1>2. CASE pc[p] = "open" /\ Goto(p, "read") /\ UNCHANGED <<tree, content, held, job>>
  BY <1>2, TrustGoesOn DEF Steps, Restoring, Marked
<1> QED
  BY <1>1, <1>2 DEF OpenRootfs, Read, Crash

LEMMA MarkInit == Init => MInv
BY DEF Init, MInv, Tells, Installed, Absent

LEMMA MarkNext == ~ Spoilt /\ IInv /\ MInv /\ [Next]_vars => MInv'
<1> SUFFICES ASSUME ~ Spoilt, IInv, MInv, [Next]_vars
             PROVE  MInv'
  OBVIOUS
<1>1. CASE UNCHANGED vars
  BY <1>1 DEF vars, MInv, Tells, Installed, Trusts, name
<1>2. ASSUME NEW p \in Procs, Acts(p)
      PROVE  MInv'
  <2>1. pc[p] # "idle" => pc[p] \notin Restoring
    BY DEF MInv, Trusts
  <2>2. ~ (RestoreCheck(p) \/ RestoreFirst(p) \/ RestoreRest(p) \/ RestoreFails(p)
           \/ RestoreManifest(p) \/ RestoreFinish(p))
    BY <2>1 DEF Restoring, RestoreCheck, RestoreFirst, RestoreRest, RestoreFails,
       RestoreManifest, RestoreFinish
  <2>3. Tells' /\ (pc'[p] # "idle" => Trusts(p)')
    BY <1>2, <2>2, TrustStarts, TrustInstalls, TrustRemoves, TrustEndings, TrustReads DEF Acts
  <2> QED
    BY <1>2, <2>3, ActsFramed, OthersTrust
<1> QED
  BY <1>1, <1>2, NextActs

\* The marker tells a finished container from what an aborted install left
\* (container_incomplete_marker), as long as removals are whole and nothing is restored.
THEOREM MarkerTrusted ==
    ASSUME ~ Piecemeal, "restore" \notin Commands
    PROVE  Spec => []MarkerTells
<1>1. Init => MInv
  BY MarkInit
<1>2. IInv /\ MInv /\ [Next]_vars => MInv'
  BY MarkNext DEF Spoilt
<1>3. MInv => MarkerTells
  BY DEF MInv, Tells, MarkerTells
<1> QED
  BY <1>1, <1>2, <1>3, Invariant, PTL DEF Spec

\* A finished container goes only by a command that was asked to take it: no install
\* takes one for a leftover (the wipe of an incomplete install in command_install).
THEOREM FinishedKept ==
    ASSUME ~ Piecemeal, "restore" \notin Commands
    PROVE  Spec => NothingLost
<1> DEFINE Asked == \A n \in Names :
                      content[n] # None /\ content'[n] = None =>
                          \E p \in Procs : pc[p] \in {"clear", "remove", "move"} /\ name(p) = n
<1>1. Init => MInv
  BY MarkInit
<1>2. IInv /\ MInv /\ [Next]_vars => MInv'
  BY MarkNext DEF Spoilt
<1>3. IInv /\ MInv /\ [Next]_vars => [Asked]_vars
  <2> SUFFICES ASSUME IInv, MInv, NEW p \in Procs, Acts(p),
                      NEW n \in Names, content[n] # None, content'[n] = None
               PROVE  pc[p] \in {"clear", "remove", "move"} /\ name(p) = n
    BY NextActs DEF vars
  <2>1. pc[p] \in {"wipe", "cleanup", "clear", "remove", "finish", "restoreFinish", "move"}
    BY ContentChanges
  <2>2. Trusts(p) /\ Knows(p) /\ name(p) \in Names /\ job[p].target \in Names
    BY <2>1, Named DEF MInv
  <2>3. CASE content' = [content EXCEPT ![name(p)] = None]
    BY <2>1, <2>2, <2>3, NameFree DEF IInv, TypeOK, Trusts, Free
  <2>4. CASE \E c \in Fresh : content' = [content EXCEPT ![name(p)] = c]
    BY <2>2, <2>4, StoreAssumption DEF IInv, TypeOK, Fresh
  <2>5. CASE /\ pc[p] = "move" /\ tree[job[p].target] = Absent
             /\ content' = [content EXCEPT ![name(p)] = None,
                                           ![job[p].target] = content[name(p)]]
    <3>1. content[job[p].target] = None
      BY <2>2, <2>5 DEF IInv, Rooted, Installed, Absent
    <3> QED
      BY <2>2, <2>5, <3>1 DEF IInv, TypeOK
  <2> QED
    BY <2>3, <2>4, <2>5, ContentChanges
<1> QED
  BY <1>1, <1>2, <1>3, Invariant, PTL DEF Spec, NothingLost
===============================================================================
