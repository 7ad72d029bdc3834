-------------------------- MODULE BuildStageProofs --------------------------
(***************************************************************************)
(* Proofs about the layers of a stage (BuildStage).                        *)
(*                                                                         *)
(* The lemmas say what unpacking, packing and materialising do to a tree,  *)
(* in the order the steps compose them: paths, the recursive functions of  *)
(* the model, where a path leads, one member, the members of a layer, the  *)
(* layer of a RUN, the layer of a file map, the map on disk.  The heart is *)
(* DiffPacked and MapPacked: the layer packed takes the tree before to the *)
(* tree after.  The inductive invariant has these parts:                   *)
(*   TypeInv    trees are trees, the image is clean (what unpacking gives) *)
(*              and the snapshot before a RUN has its script;              *)
(*   LayersInv  the layers and the layer this instruction will pack make   *)
(*              the rootfs, as long as no reason is recorded;              *)
(*   BaseInv    the baseline and that layer make the same tree, but modes. *)
(***************************************************************************)
EXTENDS BuildStage, SequenceTheorems, FiniteSetTheorems, WellFoundedInduction, TLAPS

-----------------------------------------------------------------------------
(* Paths. *)

\* A prefix agrees with the path as far as it goes.
LEMMA PrefixAgrees ==
    ASSUME NEW S, NEW p \in Seq(S), NEW q \in Seq(S)
    PROVE  IsPrefix(p, q) <=> Len(p) <= Len(q) /\ \A i \in 1..Len(p) : p[i] = q[i]
<1>1. Len(p) \in Nat /\ Len(q) \in Nat
    BY LenProperties
<1>2. SubSeq(p, 1, Len(p)) = p
    BY SubSeqFull
<1>3. ASSUME Len(p) <= Len(q)
      PROVE  /\ SubSeq(q, 1, Len(p)) \in Seq(S)
             /\ Len(SubSeq(q, 1, Len(p))) = Len(p)
             /\ \A i \in 1..Len(p) : SubSeq(q, 1, Len(p))[i] = q[i]
    <2>1. \A i \in 1..Len(p) : q[i] \in S
        BY <1>1, <1>3, ElementOfSeq
    <2>. QED  BY <1>1, <2>1, SubSeqProperties
<1>4. ASSUME IsPrefix(p, q)
      PROVE  Len(p) <= Len(q) /\ \A i \in 1..Len(p) : p[i] = q[i]
    BY <1>2, <1>3, <1>4 DEF IsPrefix
<1>5. ASSUME Len(p) <= Len(q), \A i \in 1..Len(p) : p[i] = q[i]
      PROVE  IsPrefix(p, q)
    <2>1. p = SubSeq(q, 1, Len(p))
        BY <1>3, <1>5, SeqEqual
    <2>. QED  BY <1>2, <1>5, <2>1 DEF IsPrefix
<1>. QED  BY <1>4, <1>5

\* Prefixes of sequences are ordered, the empty one first.
LEMMA PrefixOrder ==
    ASSUME NEW S
    PROVE  /\ \A p \in Seq(S) : IsPrefix(p, p) /\ IsPrefix(<<>>, p)
           /\ \A p, q \in Seq(S) : IsPrefix(p, q) /\ Len(q) <= Len(p) => p = q
           /\ \A p, q \in Seq(S) : IsPrefix(p, q) /\ p # q => Len(p) < Len(q)
           /\ \A p, q, r \in Seq(S) : IsPrefix(p, q) /\ IsPrefix(q, r) => IsPrefix(p, r)
           /\ \A p, q, r \in Seq(S) :
                IsPrefix(p, r) /\ IsPrefix(q, r) /\ Len(p) <= Len(q) => IsPrefix(p, q)
<1>1. \A p \in Seq(S) : Len(p) \in Nat
    BY LenProperties
<1>2. \A p \in Seq(S) : IsPrefix(p, p) /\ IsPrefix(<<>>, p)
    <2>1. <<>> \in Seq(S) /\ Len(<<>>) = 0
        BY EmptySeq
    <2>2. ASSUME NEW p \in Seq(S)
          PROVE  IsPrefix(p, p)
        BY <1>1, PrefixAgrees
    <2>3. ASSUME NEW p \in Seq(S)
          PROVE  IsPrefix(<<>>, p)
        <3>1. SubSeq(<<>>, 1, 0) = <<>> /\ SubSeq(p, 1, 0) = <<>>
            BY SubSeqEmpty
        <3>. QED  BY <1>1, <2>1, <3>1 DEF IsPrefix
    <2>. QED  BY <2>2, <2>3
<1>3. ASSUME NEW p \in Seq(S), NEW q \in Seq(S), IsPrefix(p, q), Len(q) <= Len(p)
      PROVE  p = q
    <2>1. Len(p) = Len(q) /\ \A i \in 1..Len(p) : p[i] = q[i]
        BY <1>1, <1>3, PrefixAgrees
    <2>. QED  BY <2>1, SeqEqual
<1>4. ASSUME NEW p \in Seq(S), NEW q \in Seq(S), IsPrefix(p, q), p # q
      PROVE  Len(p) < Len(q)
    BY <1>1, <1>3, <1>4
<1>5. ASSUME NEW p \in Seq(S), NEW q \in Seq(S), NEW r \in Seq(S), IsPrefix(p, q), IsPrefix(q, r)
      PROVE  IsPrefix(p, r)
    <2>1. Len(p) <= Len(q) /\ Len(q) <= Len(r)
        BY <1>5, PrefixAgrees
    <2>2. \A i \in 1..Len(p) : p[i] = q[i]
        BY <1>5, PrefixAgrees
    <2>3. \A i \in 1..Len(q) : q[i] = r[i]
        BY <1>5, PrefixAgrees
    <2>. QED  BY <1>1, <2>1, <2>2, <2>3, PrefixAgrees
<1>6. ASSUME NEW p \in Seq(S), NEW q \in Seq(S), NEW r \in Seq(S),
             IsPrefix(p, r), IsPrefix(q, r), Len(p) <= Len(q)
      PROVE  IsPrefix(p, q)
    <2>1. \A i \in 1..Len(p) : p[i] = r[i]
        BY <1>6, PrefixAgrees
    <2>2. \A i \in 1..Len(q) : q[i] = r[i]
        BY <1>6, PrefixAgrees
    <2>. QED  BY <1>1, <1>6, <2>1, <2>2, PrefixAgrees
<1>. QED  BY <1>2, <1>3, <1>4, <1>5, <1>6

\* What lies above a path is its parent, or above that.
LEMMA FrontIsAbove ==
    ASSUME NEW S, NEW q \in Seq(S), q # <<>>
    PROVE  /\ Front(q) \in Seq(S) /\ Len(Front(q)) = Len(q) - 1 /\ Last(q) \in S
           /\ IsPrefix(Front(q), q) /\ Front(q) # q
           /\ \A p \in Seq(S) : IsPrefix(p, q) /\ p # q => IsPrefix(p, Front(q))
<1>1. Len(q) \in Nat \ {0}
    BY EmptySeq
<1>2. \A i \in 1..Len(q) : q[i] \in S
    BY ElementOfSeq
<1>3. /\ Front(q) \in Seq(S) /\ Len(Front(q)) = Len(q) - 1
      /\ \A i \in 1..Len(q) - 1 : Front(q)[i] = q[i]
    BY <1>1, <1>2, SubSeqProperties DEF Front
<1>4. IsPrefix(Front(q), q) /\ Front(q) # q
    BY <1>1, <1>3, PrefixAgrees
<1>5. \A p \in Seq(S) : IsPrefix(p, q) /\ p # q => IsPrefix(p, Front(q))
    BY <1>1, <1>3, <1>4, PrefixOrder, LenProperties
<1>6. Last(q) \in S
    BY <1>1, <1>2 DEF Last
<1>. QED  BY <1>3, <1>4, <1>5, <1>6

\* The levels of a path are its prefixes but for the root.
LEMMA LevelsArePrefixes ==
    ASSUME NEW S, NEW p \in Seq(S)
    PROVE  LevelsOf(p) = {q \in Seq(S) : q # <<>> /\ IsPrefix(q, p)}
<1>1. Len(p) \in Nat
    BY LenProperties
<1>2. ASSUME NEW n \in 1..Len(p)
      PROVE  SubSeq(p, 1, n) \in Seq(S) /\ SubSeq(p, 1, n) # <<>> /\ IsPrefix(SubSeq(p, 1, n), p)
    <2>. DEFINE q == SubSeq(p, 1, n)
    <2>1. \A i \in 1..n : p[i] \in S
        BY <1>1, ElementOfSeq
    <2>2. q \in Seq(S) /\ Len(q) = n /\ \A i \in 1..n : q[i] = p[i]
        BY <1>1, <2>1, SubSeqProperties
    <2>. HIDE DEF q
    <2>3. q # <<>>
        BY <1>1, <2>2, EmptySeq
    <2>4. IsPrefix(q, p)
        BY <1>1, <2>2, PrefixAgrees
    <2>. USE DEF q
    <2>. QED  BY <2>2, <2>3, <2>4
<1>3. ASSUME NEW q \in Seq(S), q # <<>>, IsPrefix(q, p)
      PROVE  q \in LevelsOf(p)
    <2>1. Len(q) \in 1..Len(p)
        BY <1>1, <1>3, EmptySeq, PrefixAgrees
    <2>2. q = SubSeq(p, 1, Len(q))
        BY <1>3, SubSeqFull DEF IsPrefix
    <2>. QED  BY <2>1, <2>2 DEF LevelsOf
<1>. QED  BY <1>2, <1>3 DEF LevelsOf

-----------------------------------------------------------------------------
(* Trees. *)

IsFcn(f) == f = [x \in DOMAIN f |-> f[x]]

\* Functions are equal that agree.
LEMMA FcnEqual ==
    ASSUME NEW f, NEW g, IsFcn(f), IsFcn(g), DOMAIN f = DOMAIN g, \A x \in DOMAIN f : f[x] = g[x]
    PROVE  f = g
<1>1. [x \in DOMAIN f |-> f[x]] = [x \in DOMAIN g |-> g[x]]
    OBVIOUS
<1>. QED  BY <1>1 DEF IsFcn

\* What an entry is made of goes by its kind.
LEMMA EntryKinds ==
    /\ \A e \in Storable :
         /\ e.kind \in {"dir", "file", "link"} /\ e # Special
         /\ e.kind = "dir" => e.mode \in Nat /\ e = Dir(e.mode)
         /\ e.kind = "link" => e.target \in Seq(Components)
    /\ \A e \in TreeEntries : e \in Storable \/ e = Special
    /\ \A e \in TreeEntries : e.kind = "special" <=> e = Special
    /\ \A m \in Nat : Dir(m) \in Storable /\ Dir(m).kind = "dir" /\ Dir(m).mode = m
BY DEF Storable, TreeEntries, Special, Dir

\* The paths above another one, and those below.
LEMMA AboveBelow ==
    ASSUME NEW t, DOMAIN t \subseteq AllPaths
    PROVE  /\ \A p \in AllPaths : Above(p) = {q \in AllPaths : IsPrefix(q, p) /\ q # p}
           /\ \A p \in TreePaths : Below(t, p) = {q \in DOMAIN t : IsPrefix(p, q) /\ q # p}
BY LevelsArePrefixes DEF Above, Below, AllPaths, TreePaths, IsStrictPrefix

\* What stands above an entry of a tree is a directory.
LEMMA TreeAbove ==
    ASSUME NEW t, IsTree(t), NEW q \in DOMAIN t, NEW p \in TreePaths, IsPrefix(p, q), p # q
    PROVE  IsDir(t, p)
<1>1. DOMAIN t \subseteq AllPaths
    BY DEF IsTree
<1>2. CASE p = <<>>
    BY <1>2 DEF IsDir
<1>3. CASE p # <<>>
    <2>1. p \in Above(q)
        BY <1>1, <1>3, AboveBelow DEF AllPaths
    <2>. QED  BY <2>1 DEF IsTree
<1>. QED  BY <1>2, <1>3

\* Nothing is below what is not a directory.
LEMMA TreeLeaf ==
    ASSUME NEW t, IsTree(t), NEW p \in TreePaths, ~IsDir(t, p)
    PROVE  Below(t, p) = {}
<1>1. DOMAIN t \subseteq AllPaths
    BY DEF IsTree
<1>. QED  BY <1>1, TreeAbove, AboveBelow

\* A tree by its parts.
LEMMA TreeParts ==
    ASSUME NEW t, IsTree(t)
    PROVE  /\ DOMAIN t \subseteq AllPaths /\ IsFiniteSet(DOMAIN t)
           /\ IsFcn(t)
           /\ \A p \in DOMAIN t : t[p] \in TreeEntries
<1>1. t \in [DOMAIN t -> TreeEntries]
    BY DEF IsTree
<1>. QED  BY <1>1 DEF IsTree, IsFcn

\* What makes a function a tree.
LEMMA TreeIf ==
    ASSUME NEW t, IsFcn(t), IsFiniteSet(DOMAIN t), DOMAIN t \subseteq AllPaths,
           \A p \in DOMAIN t : t[p] \in TreeEntries,
           \A q \in DOMAIN t, r \in AllPaths : IsPrefix(r, q) /\ r # q => IsDir(t, r)
    PROVE  IsTree(t)
<1>1. t \in [DOMAIN t -> TreeEntries]
    BY DEF IsFcn
<1>2. \A q \in DOMAIN t : \A r \in Above(q) : IsDir(t, r)
    BY AboveBelow
<1>. QED  BY <1>1, <1>2 DEF IsTree

\* What Without() does.
LEMMA WithoutIs ==
    ASSUME NEW t, NEW S
    PROVE  /\ DOMAIN Without(t, S) = DOMAIN t \ S
           /\ \A q \in DOMAIN t \ S : Without(t, S)[q] = t[q]
           /\ IsFcn(Without(t, S))
BY DEF Without, IsFcn

\* What Put() does.
LEMMA PutIs ==
    ASSUME NEW t, NEW p, NEW e
    PROVE  /\ DOMAIN Put(t, p, e) = DOMAIN t \union {p}
           /\ Put(t, p, e)[p] = e
           /\ \A q \in DOMAIN t : q # p => Put(t, p, e)[q] = t[q]
           /\ IsFcn(Put(t, p, e))
BY DEF Put, IsFcn

\* An entry is put where a directory is above it, and not over one that is not empty.
LEMMA PutTree ==
    ASSUME NEW t, IsTree(t), NEW p \in AllPaths, IsDir(t, Front(p)), NEW e \in TreeEntries,
           e.kind = "dir" \/ Below(t, p) = {}
    PROVE  IsTree(Put(t, p, e))
<1>. DEFINE u == Put(t, p, e)
<1>1. /\ DOMAIN t \subseteq AllPaths /\ IsFiniteSet(DOMAIN t)
      /\ \A q \in DOMAIN t : t[q] \in TreeEntries
    BY TreeParts
<1>2. /\ DOMAIN u = DOMAIN t \union {p} /\ u[p] = e /\ \A q \in DOMAIN t : q # p => u[q] = t[q]
      /\ IsFcn(u)
    BY DEF Put, IsFcn
<1>. HIDE DEF u
<1>3. p \in TreePaths /\ p # <<>> /\ Front(p) \in TreePaths
    BY FrontIsAbove DEF AllPaths, TreePaths
<1>4. ASSUME NEW q \in DOMAIN u, NEW r \in AllPaths, IsPrefix(r, q), r # q
      PROVE  IsDir(u, r)
    <2>1. r \in TreePaths /\ q \in TreePaths
        BY <1>1, <1>2 DEF AllPaths
    <2>2. CASE q = p
        <3>1. IsPrefix(r, Front(p)) /\ r # p
            BY <1>3, <1>4, <2>1, <2>2, FrontIsAbove DEF TreePaths
        <3>2. IsDir(t, r)
            <4>1. CASE r = Front(p)
                BY <4>1
            <4>2. CASE r # Front(p)
                <5>1. Front(p) # <<>>
                    BY <2>1, <3>1, <4>2, <1>3, PrefixOrder, EmptySeq DEF TreePaths
                <5>. QED  BY <1>3, <2>1, <3>1, <4>2, <5>1, TreeAbove DEF IsDir, IsA
            <4>. QED  BY <4>1, <4>2
        <3>. QED  BY <1>2, <3>1, <3>2 DEF IsDir, IsA
    <2>3. CASE q # p
        <3>1. IsDir(t, r)
            BY <1>2, <1>4, <2>1, <2>3, TreeAbove
        <3>2. r = p => e.kind = "dir"
            BY <1>1, <1>2, <1>3, <1>4, <2>3, AboveBelow
        <3>. QED  BY <1>2, <3>1, <3>2 DEF IsDir, IsA
    <2>. QED  BY <2>2, <2>3
<1>5. IsFiniteSet(DOMAIN u)
    BY <1>1, <1>2, FS_AddElement
<1>6. IsTree(u)
    BY <1>1, <1>2, <1>4, <1>5, TreeIf
<1>. QED  BY <1>6 DEF u

\* A part of a tree can go with all that is below it.
LEMMA WithoutTree ==
    ASSUME NEW t, IsTree(t), NEW S, \A q \in S : Below(t, q) \subseteq S
    PROVE  IsTree(Without(t, S))
<1>. DEFINE u == Without(t, S)
<1>1. /\ DOMAIN t \subseteq AllPaths /\ IsFiniteSet(DOMAIN t)
      /\ \A q \in DOMAIN t : t[q] \in TreeEntries
    BY TreeParts
<1>2. /\ DOMAIN u = DOMAIN t \ S /\ \A q \in DOMAIN u : u[q] = t[q]
      /\ IsFcn(u)
    BY DEF Without, IsFcn
<1>. HIDE DEF u
<1>3. ASSUME NEW q \in DOMAIN u, NEW r \in AllPaths, IsPrefix(r, q), r # q
      PROVE  IsDir(u, r)
    <2>1. r \in TreePaths /\ r # <<>>
        BY DEF AllPaths
    <2>2. IsDir(t, r)
        BY <1>2, <1>3, <2>1, TreeAbove
    <2>3. q \in Below(t, r)
        BY <1>1, <1>2, <1>3, <2>1, AboveBelow
    <2>4. r \notin S
        BY <1>2, <2>3
    <2>. QED  BY <1>2, <2>1, <2>2, <2>4 DEF IsDir, IsA
<1>4. IsFiniteSet(DOMAIN u)
    BY <1>1, <1>2, FS_Difference
<1>5. IsTree(u)
    BY <1>1, <1>2, <1>3, <1>4, TreeIf
<1>. QED  BY <1>5 DEF u

\* What is left of a tree when an entry has been removed, with what is below it.
LEMMA DropTree ==
    ASSUME NEW t, IsTree(t), NEW p \in AllPaths
    PROVE  /\ IsTree(Drop(t, p))
           /\ DOMAIN Drop(t, p) = {q \in DOMAIN t : ~IsPrefix(p, q)}
           /\ \A q \in DOMAIN Drop(t, p) : Drop(t, p)[q] = t[q]
<1>. DEFINE S == Below(t, p) \union {p}
<1>1. DOMAIN t \subseteq AllPaths /\ p \in TreePaths
    BY TreeParts DEF AllPaths
<1>2. Below(t, p) = {q \in DOMAIN t : IsPrefix(p, q) /\ q # p}
    BY <1>1, AboveBelow
<1>3. ASSUME NEW q \in S
      PROVE  Below(t, q) \subseteq S
    <2>1. q \in TreePaths /\ IsPrefix(p, q)
        BY <1>1, <1>2, <1>3, PrefixOrder DEF AllPaths, TreePaths
    <2>2. Below(t, q) = {r \in DOMAIN t : IsPrefix(q, r) /\ r # q}
        BY <1>1, <2>1, AboveBelow
    <2>. QED  BY <1>1, <1>2, <2>1, <2>2, PrefixOrder DEF AllPaths, TreePaths
<1>4. DOMAIN Drop(t, p) = DOMAIN t \ S /\ \A q \in DOMAIN Drop(t, p) : Drop(t, p)[q] = t[q]
    BY DEF Drop, Without
<1>5. IsPrefix(p, p)
    BY <1>1, PrefixOrder DEF TreePaths
<1>6. IsTree(Drop(t, p))
    BY <1>3, WithoutTree DEF Drop
<1>. QED  BY <1>2, <1>4, <1>5, <1>6

\* Anything in the place of anything.
LEMMA PutDropped ==
    ASSUME NEW t, IsTree(t), NEW p \in AllPaths, IsDir(t, Front(p)), NEW e \in TreeEntries
    PROVE  IsTree(Put(Drop(t, p), p, e))
<1>. DEFINE u == Drop(t, p)
<1>1. IsTree(u) /\ DOMAIN u = {q \in DOMAIN t : ~IsPrefix(p, q)} /\ \A q \in DOMAIN u : u[q] = t[q]
    BY DropTree
<1>. HIDE DEF u
<1>2. p \in TreePaths /\ p # <<>> /\ Front(p) \in TreePaths
    BY FrontIsAbove DEF AllPaths, TreePaths
<1>3. ~IsPrefix(p, Front(p))
    BY <1>2, FrontIsAbove, PrefixOrder, LenProperties DEF TreePaths
<1>4. IsDir(u, Front(p))
    BY <1>1, <1>3 DEF IsDir, IsA
<1>5. DOMAIN u \subseteq AllPaths
    BY <1>1, TreeParts
<1>6. Below(u, p) = {}
    BY <1>1, <1>2, <1>5, AboveBelow
<1>7. IsTree(Put(u, p, e))
    BY <1>1, <1>4, <1>6, PutTree
<1>. QED  BY <1>7 DEF u

\* Other entries for a tree's paths, where the directories stay directories.
LEMMA SameDirsTree ==
    ASSUME NEW t, IsTree(t), NEW u, DOMAIN u = DOMAIN t, IsFcn(u),
           \A q \in DOMAIN t : u[q] \in TreeEntries /\ (t[q].kind = "dir" => u[q].kind = "dir")
    PROVE  IsTree(u)
<1>1. \A q : IsDir(t, q) => IsDir(u, q)
    BY DEF IsDir, IsA
<1>2. u \in [DOMAIN u -> TreeEntries]
    BY DEF IsFcn
<1>. QED  BY <1>1, <1>2 DEF IsTree

-----------------------------------------------------------------------------
(* Induction and recursion up to a number. *)

\* Numbers have a least one among them.
LEMMA LeastNumber ==
    ASSUME NEW T, T \subseteq Nat, T # {}
    PROVE  \E x \in T : \A y \in T : x <= y
<1>1. PICK x \in T : \A y \in T : ~ (<<y, x>> \in OpToRel(<, Nat))
    BY NatLessThanWellFounded, WFMin
<1>2. \A y \in T : ~ (y < x)
    BY <1>1 DEF OpToRel
<1>. QED  BY <1>2

\* What holds at first and with every step.
LEMMA StepByStep ==
    ASSUME NEW n \in Nat, NEW T, 0 \in T, \A i \in 1..n : i - 1 \in T => i \in T
    PROVE  \A i \in 0..n : i \in T
<1>. DEFINE U == {i \in 0..n : i \notin T}
<1>1. SUFFICES ASSUME U # {}  PROVE FALSE
    OBVIOUS
<1>2. PICK x \in U : \A y \in U : x <= y
    <2>1. U \subseteq Nat
        OBVIOUS
    <2>. HIDE DEF U
    <2>. QED  BY <1>1, <2>1, LeastNumber
<1>3. x \in 1..n
    BY <1>2
<1>4. x - 1 \in 0..n /\ x - 1 \notin U
    BY <1>2, <1>3
<1>5. x - 1 \in T
    BY <1>4
<1>6. x \in T
    BY <1>3, <1>5
<1>. QED  BY <1>2, <1>6

Iterates(f, n, S, a, F) ==
    f \in [0..n -> S] /\ f[0] = a /\ \A i \in 1..n : f[i] = F[i][f[i - 1]]

\* A recursive function on 0..n has the values its equations say.
LEMMA Recursion ==
    ASSUME NEW S, NEW n \in Nat, NEW a \in S, NEW F \in [1..n -> [S -> S]]
    PROVE  \E f : Iterates(f, n, S, a, F)
<1>. DEFINE Is(f, m) == f \in [0..m -> S] /\ f[0] = a /\ \A i \in 1..m : f[i] = F[i][f[i - 1]]
            T == {m \in 0..n : \E f \in [0..m -> S] : Is(f, m)}
<1>1. 0 \in T
    <2>. DEFINE g == [i \in 0..0 |-> a]
    <2>1. g \in [0..0 -> S] /\ g[0] = a /\ 1..0 = {} /\ 0 \in 0..n
        OBVIOUS
    <2>2. Is(g, 0)
        BY <2>1
    <2>. HIDE DEF g
    <2>. QED  BY <2>1, <2>2
<1>2. ASSUME NEW m \in 1..n, m - 1 \in T
      PROVE  m \in T
    <2>1. PICK f \in [0..(m - 1) -> S] : Is(f, m - 1)
        BY <1>2
    <2>. DEFINE g == [i \in 0..m |-> IF i = m THEN F[m][f[m - 1]] ELSE f[i]]
    <2>2. f[m - 1] \in S
        BY <2>1
    <2>3. F[m][f[m - 1]] \in S
        BY <2>2
    <2>4. g \in [0..m -> S]
        BY <2>1, <2>3
    <2>5. g[0] = a
        BY <2>1
    <2>6. ASSUME NEW i \in 1..m
          PROVE  g[i] = F[i][g[i - 1]]
        <3>1. CASE i = m
            <4>1. m \in 0..m /\ m - 1 \in 0..m /\ m - 1 # m
                OBVIOUS
            <4>2. g[m] = F[m][f[m - 1]] /\ g[m - 1] = f[m - 1]
                BY <4>1
            <4>. QED  BY <3>1, <4>2
        <3>2. CASE i # m
            <4>1. i \in 1..(m - 1) /\ i \in 0..m /\ i - 1 \in 0..m /\ i - 1 # m
                BY <3>2
            <4>2. g[i] = f[i] /\ g[i - 1] = f[i - 1]
                BY <3>2, <4>1
            <4>. QED  BY <2>1, <4>1, <4>2
        <3>. QED  BY <3>1, <3>2
    <2>7. Is(g, m)
        BY <2>4, <2>5, <2>6
    <2>. HIDE DEF g, Is
    <2>. QED  BY <2>4, <2>7
<1>3. n \in T
    <2>. HIDE DEF T
    <2>1. \A m \in 0..n : m \in T
        BY <1>1, <1>2, StepByStep
    <2>. QED  BY <2>1
<1>. QED  BY <1>3 DEF Iterates

-----------------------------------------------------------------------------
(* The order of paths. *)

Rank(n) == CHOOSE i \in DOMAIN Names : Names[i] = n

\* p comes before q since that is where they part.
Parts(p, q, k) ==
    /\ k \in 1..Len(q)
    /\ \A j \in 1..(k - 1) : j <= Len(p) /\ p[j] = q[j]
    /\ k = Len(p) + 1 \/ (k <= Len(p) /\ Rank(p[k]) < Rank(q[k]))

\* Names have ranks of their own.
LEMMA Ranks ==
    /\ \A n \in Range(Names) : Rank(n) \in Nat
    /\ \A m, n \in Range(Names) : Rank(m) = Rank(n) => m = n
<1>1. DOMAIN Names = 1..Len(Names) /\ Len(Names) \in Nat
    BY BuildAssumption, LenProperties
<1>2. \A n \in Range(Names) : Rank(n) \in DOMAIN Names /\ Names[Rank(n)] = n
    BY DEF Range, Rank
<1>. QED  BY <1>1, <1>2

\* A path as a sequence.
LEMMA PathParts ==
    ASSUME NEW p \in TreePaths
    PROVE  /\ Len(p) \in Nat /\ p \in Seq(Range(Names))
           /\ \A i \in 1..Len(p) : p[i] \in Range(Names) /\ Rank(p[i]) \in Nat
BY LenProperties, ElementOfSeq, Ranks DEF TreePaths

\* Where the order of two paths is decided.
LEMMA LessParts ==
    ASSUME NEW p \in TreePaths, NEW q \in TreePaths
    PROVE  PathLess(p, q) <=> \E k \in Nat : Parts(p, q, k)
<1>. DEFINE differ == {i \in 1..Len(p) : i > Len(q) \/ p[i] # q[i]}
            first  == CHOOSE i \in differ : \A j \in differ : i <= j
<1>1. Len(p) \in Nat /\ Len(q) \in Nat
    BY PathParts
<1>2. PathLess(p, q) <=> IF differ = {} THEN Len(p) < Len(q)
                         ELSE first <= Len(q) /\ Rank(p[first]) < Rank(q[first])
    BY DEF PathLess, Rank
<1>3. CASE differ = {}
    <2>1. \A i \in 1..Len(p) : i <= Len(q) /\ p[i] = q[i]
        BY <1>1, <1>3
    <2>2. ASSUME Len(p) < Len(q)
          PROVE  Parts(p, q, Len(p) + 1)
        BY <1>1, <2>1, <2>2 DEF Parts
    <2>3. ASSUME NEW k \in Nat, Parts(p, q, k)
          PROVE  Len(p) < Len(q)
        <3>1. CASE k = Len(p) + 1
            BY <1>1, <2>3, <3>1 DEF Parts
        <3>2. CASE k <= Len(p) /\ Rank(p[k]) < Rank(q[k])
            <4>1. k \in 1..Len(p)
                BY <2>3, <3>2 DEF Parts
            <4>2. p[k] = q[k] /\ Rank(p[k]) \in Nat
                BY <4>1, <2>1, PathParts
            <4>. QED  BY <3>2, <4>2
        <3>. QED  BY <2>3, <3>1, <3>2 DEF Parts
    <2>4. Len(p) + 1 \in Nat
        BY <1>1
    <2>. QED  BY <1>2, <1>3, <2>2, <2>3, <2>4
<1>4. CASE differ # {}
    <2>0. differ \subseteq Nat
        BY <1>1
    <2>1. first \in differ /\ \A j \in differ : first <= j
        BY <1>4, <2>0, LeastNumber
    <2>2. first \in 1..Len(p) /\ first \in Nat
        BY <1>1, <2>1
    <2>. HIDE DEF first
    <2>3. ASSUME first <= Len(q), Rank(p[first]) < Rank(q[first])
          PROVE  Parts(p, q, first)
        <3>1. \A j \in 1..(first - 1) : j <= Len(p) /\ p[j] = q[j]
            BY <1>1, <2>1, <2>2
        <3>. QED  BY <1>1, <2>2, <2>3, <3>1 DEF Parts
    <2>4. ASSUME NEW k \in Nat, Parts(p, q, k)
          PROVE  first <= Len(q) /\ Rank(p[first]) < Rank(q[first])
        <3>1. k \in 1..Len(q) /\ \A j \in 1..(k - 1) : j <= Len(q) /\ p[j] = q[j]
            BY <1>1, <2>4 DEF Parts
        <3>2. ~ (first < k)
            BY <1>1, <2>1, <2>2, <3>1
        <3>3. k <= Len(p) /\ Rank(p[k]) < Rank(q[k])
            BY <1>1, <2>2, <2>4, <3>2 DEF Parts
        <3>4. p[k] # q[k]
            <4>1. Rank(p[k]) \in Nat
                BY <3>1, <3>3, PathParts
            <4>. QED  BY <3>3, <4>1
        <3>5. k \in differ
            BY <1>1, <3>1, <3>3, <3>4
        <3>6. first = k
            BY <2>1, <2>2, <3>1, <3>2, <3>5
        <3>. QED  BY <1>1, <3>1, <3>3, <3>6
    <2>. QED  BY <1>2, <1>4, <2>2, <2>3, <2>4
<1>. QED  BY <1>3, <1>4

\* A strict order of all paths, in which a path comes before what is below it.
LEMMA PathOrder ==
    /\ \A p \in TreePaths : ~PathLess(p, p)
    /\ \A p, q, r \in TreePaths : PathLess(p, q) /\ PathLess(q, r) => PathLess(p, r)
    /\ \A p, q \in TreePaths : p # q => PathLess(p, q) \/ PathLess(q, p)
    /\ \A p, q \in TreePaths : IsPrefix(p, q) /\ p # q => PathLess(p, q)
<1>1. ASSUME NEW p \in TreePaths, NEW k \in Nat, Parts(p, p, k)
      PROVE  FALSE
    BY <1>1, PathParts DEF Parts
<1>2. ASSUME NEW p \in TreePaths, NEW q \in TreePaths, NEW r \in TreePaths,
             NEW k \in Nat, NEW l \in Nat, Parts(p, q, k), Parts(q, r, l)
      PROVE  \E m \in Nat : Parts(p, r, m)
    <2>1. /\ Len(p) \in Nat /\ Len(q) \in Nat /\ Len(r) \in Nat
          /\ \A i \in 1..Len(p) : Rank(p[i]) \in Nat
          /\ \A i \in 1..Len(q) : Rank(q[i]) \in Nat
          /\ \A i \in 1..Len(r) : Rank(r[i]) \in Nat
        BY PathParts
    <2>2. CASE k <= l
        <3>1. k \in 1..Len(q) /\ k \in 1..Len(r)
            BY <1>2, <2>1, <2>2 DEF Parts
        <3>2. \A j \in 1..(k - 1) : j <= Len(p) /\ p[j] = r[j]
            BY <1>2, <2>1, <2>2 DEF Parts
        <3>3. CASE k = Len(p) + 1
            BY <3>1, <3>2, <3>3 DEF Parts
        <3>4. CASE k <= Len(p) /\ Rank(p[k]) < Rank(q[k])
            <4>1. k \in 1..Len(p)
                BY <3>1, <3>4
            <4>2. Rank(p[k]) \in Nat /\ Rank(q[k]) \in Nat /\ Rank(r[k]) \in Nat
                BY <2>1, <3>1, <4>1
            <4>3. k < l => q[k] = r[k]
                BY <1>2, <3>1 DEF Parts
            <4>4. k = l => Rank(q[k]) < Rank(r[k])
                BY <1>2, <2>1, <3>1 DEF Parts
            <4>5. Rank(p[k]) < Rank(r[k])
                BY <2>2, <3>4, <4>2, <4>3, <4>4
            <4>. QED  BY <3>1, <3>2, <3>4, <4>5 DEF Parts
        <3>. QED  BY <1>2, <3>3, <3>4 DEF Parts
    <2>3. CASE l < k
        <3>1. l \in 1..Len(r) /\ l \in 1..(k - 1)
            BY <1>2, <2>1, <2>3 DEF Parts
        <3>2. l <= Len(p) /\ p[l] = q[l]
            BY <1>2, <3>1 DEF Parts
        <3>3. l <= Len(q)
            BY <1>2, <2>1, <3>1 DEF Parts
        <3>4. Rank(q[l]) < Rank(r[l])
            BY <1>2, <2>1, <3>1, <3>3 DEF Parts
        <3>5. \A j \in 1..(l - 1) : j <= Len(p) /\ p[j] = r[j]
            BY <1>2, <2>1, <2>3 DEF Parts
        <3>. QED  BY <3>1, <3>2, <3>4, <3>5 DEF Parts
    <2>. QED  BY <2>2, <2>3
<1>3. ASSUME NEW p \in TreePaths, NEW q \in TreePaths, p # q
      PROVE  \E k \in Nat : Parts(p, q, k) \/ Parts(q, p, k)
    <2>1. /\ Len(p) \in Nat /\ Len(q) \in Nat
          /\ \A i \in 1..Len(p) : Rank(p[i]) \in Nat /\ p[i] \in Range(Names)
          /\ \A i \in 1..Len(q) : Rank(q[i]) \in Nat /\ q[i] \in Range(Names)
        BY PathParts
    <2>. DEFINE D == {i \in Nat \ {0} : \/ i <= Len(p) /\ i > Len(q)
                                        \/ i <= Len(q) /\ i > Len(p)
                                        \/ i <= Len(p) /\ i <= Len(q) /\ p[i] # q[i]}
    <2>2. D # {}
        <3>1. SUFFICES ASSUME D = {}  PROVE FALSE
            OBVIOUS
        <3>2. Len(p) = Len(q)
            <4>1. Len(p) > Len(q) => Len(p) \in D
                BY <2>1
            <4>2. Len(q) > Len(p) => Len(q) \in D
                BY <2>1
            <4>. QED  BY <2>1, <3>1, <4>1, <4>2
        <3>3. \A i \in 1..Len(p) : p[i] = q[i]
            BY <2>1, <3>1, <3>2
        <3>. QED  BY <1>3, <3>2, <3>3, SeqEqual DEF TreePaths
    <2>3. PICK k \in D : \A j \in D : k <= j
        BY <2>2, LeastNumber
    <2>4. k \in Nat /\ k >= 1
        BY <2>3
    <2>5. \A j \in 1..(k - 1) : j <= Len(p) /\ j <= Len(q) /\ p[j] = q[j]
        <3>1. SUFFICES ASSUME NEW j \in 1..(k - 1)
                       PROVE  j <= Len(p) /\ j <= Len(q) /\ p[j] = q[j]
            OBVIOUS
        <3>2. j \notin D /\ j \in Nat \ {0} /\ j < k
            BY <2>3, <2>4
        <3>3. k <= Len(p) \/ k <= Len(q)
            BY <2>3
        <3>. QED  BY <2>1, <2>4, <3>2, <3>3
    <2>6. CASE k <= Len(p) /\ k > Len(q)
        <3>1. k = Len(q) + 1
            BY <2>1, <2>4, <2>5, <2>6
        <3>. QED  BY <2>1, <2>4, <2>5, <2>6, <3>1 DEF Parts
    <2>7. CASE k <= Len(q) /\ k > Len(p)
        <3>1. k = Len(p) + 1
            BY <2>1, <2>4, <2>5, <2>7
        <3>. QED  BY <2>1, <2>4, <2>5, <2>7, <3>1 DEF Parts
    <2>8. CASE k <= Len(p) /\ k <= Len(q) /\ p[k] # q[k]
        <3>1. k \in 1..Len(p) /\ k \in 1..Len(q)
            BY <2>1, <2>4, <2>8
        <3>2. Rank(p[k]) # Rank(q[k]) /\ Rank(p[k]) \in Nat /\ Rank(q[k]) \in Nat
            BY <2>1, <2>8, <3>1, Ranks
        <3>3. Rank(p[k]) < Rank(q[k]) \/ Rank(q[k]) < Rank(p[k])
            BY <3>2
        <3>. QED  BY <2>4, <2>5, <2>8, <3>1, <3>3 DEF Parts
    <2>. QED  BY <2>3, <2>6, <2>7, <2>8
<1>4. ASSUME NEW p \in TreePaths, NEW q \in TreePaths, IsPrefix(p, q), p # q
      PROVE  Parts(p, q, Len(p) + 1) /\ Len(p) + 1 \in Nat
    <2>1. Len(p) \in Nat /\ Len(q) \in Nat
        BY PathParts
    <2>2. Len(p) < Len(q) /\ \A i \in 1..Len(p) : p[i] = q[i]
        BY <1>4, PrefixOrder, PrefixAgrees DEF TreePaths
    <2>. QED  BY <2>1, <2>2 DEF Parts
<1>. QED  BY <1>1, <1>2, <1>3, <1>4, LessParts

\* A function on 1..n is a sequence.
LEMMA FcnSeq ==
    ASSUME NEW n \in Nat, NEW S, NEW f \in [1..n -> S]
    PROVE  f \in Seq(S) /\ Len(f) = n
<1>1. f \in Seq(S)
    BY SeqDef
<1>2. Len(f) \in Nat /\ 1..Len(f) = 1..n
    BY <1>1, LenProperties
<1>3. \A i \in Nat : i \in 1..Len(f) <=> i \in 1..n
    BY <1>2
<1>4. Len(f) <= n /\ n <= Len(f)
    BY <1>2, <1>3
<1>. QED  BY <1>1, <1>2, <1>4

\* Sorted() has every path of a set once, those above it before it.
LEMMA SortedIs ==
    ASSUME NEW S, S \subseteq TreePaths, IsFiniteSet(S)
    PROVE  /\ Sorted(S) \in Seq(S) /\ Len(Sorted(S)) \in Nat /\ DOMAIN Sorted(S) = 1..Len(Sorted(S))
           /\ \A i \in 1..Len(Sorted(S)) : Sorted(S)[i] \in S
           /\ \A p \in S : \E i \in 1..Len(Sorted(S)) : Sorted(S)[i] = p
           /\ \A i, j \in 1..Len(Sorted(S)) : Sorted(S)[i] = Sorted(S)[j] => i = j
           /\ \A i, j \in 1..Len(Sorted(S)) : IsPrefix(Sorted(S)[i], Sorted(S)[j]) => i <= j
<1>. DEFINE n == Cardinality(S)
            lower(p) == {q \in S : PathLess(q, p)}
            f == [p \in S |-> Cardinality(lower(p))]
            s == Sorted(S)
<1>1. n \in Nat
    BY FS_CardinalityType
<1>2. ASSUME NEW p \in S
      PROVE  IsFiniteSet(lower(p)) /\ Cardinality(lower(p)) \in Nat /\ Cardinality(lower(p)) < n
    <2>1. lower(p) \in SUBSET S /\ p \notin lower(p)
        BY PathOrder
    <2>2. IsFiniteSet(lower(p)) /\ Cardinality(lower(p)) <= n /\ (n = Cardinality(lower(p)) => S = lower(p))
        BY <2>1, FS_Subset
    <2>3. Cardinality(lower(p)) \in Nat
        BY <2>2, FS_CardinalityType
    <2>. QED  BY <1>1, <2>1, <2>2, <2>3
<1>3. ASSUME NEW p \in S, NEW q \in S, PathLess(p, q)
      PROVE  Cardinality(lower(p)) < Cardinality(lower(q))
    <2>1. lower(p) \in SUBSET lower(q)
        BY <1>3, PathOrder
    <2>2. p \in lower(q) /\ p \notin lower(p)
        BY <1>3, PathOrder
    <2>3. /\ Cardinality(lower(p)) <= Cardinality(lower(q))
          /\ (Cardinality(lower(q)) = Cardinality(lower(p)) => lower(q) = lower(p))
        BY <1>2, <2>1, FS_Subset
    <2>4. Cardinality(lower(p)) \in Nat /\ Cardinality(lower(q)) \in Nat
        BY <1>2
    <2>. HIDE DEF lower
    <2>. QED  BY <2>2, <2>3, <2>4
<1>4. ASSUME NEW p \in S, NEW q \in S, p # q
      PROVE  Cardinality(lower(p)) # Cardinality(lower(q))
    <2>1. PathLess(p, q) \/ PathLess(q, p)
        BY <1>4, PathOrder
    <2>2. Cardinality(lower(p)) \in Nat /\ Cardinality(lower(q)) \in Nat
        BY <1>2
    <2>. HIDE DEF lower
    <2>. QED  BY <1>3, <2>1, <2>2
<1>5. f \in Injection(S, 0..(n - 1))
    <2>1. f \in [S -> 0..(n - 1)]
        <3>. HIDE DEF lower
        <3>. QED  BY <1>1, <1>2
    <2>2. IsInjective(f)
        <3>. HIDE DEF lower
        <3>. QED  BY <1>4 DEF IsInjective
    <2>. QED  BY <2>1, <2>2 DEF Injection
<1>6. IsFiniteSet(0..(n - 1)) /\ Cardinality(0..(n - 1)) = n
    <2>1. n \in Nat /\ 0 \in Int /\ n - 1 \in Int
        BY <1>1
    <2>2. /\ IsFiniteSet(0..(n - 1))
          /\ Cardinality(0..(n - 1)) = IF 0 > n - 1 THEN 0 ELSE (n - 1) - 0 + 1
        BY <2>1, FS_Interval
    <2>. QED  BY <2>1, <2>2
<1>7. f \in Surjection(S, 0..(n - 1))
    <2>. HIDE DEF f
    <2>. QED  BY <1>5, <1>6, FS_Injection
<1>8. ASSUME NEW i \in 1..n
      PROVE  \E p \in S : Cardinality(lower(p)) = i - 1
    <2>1. i - 1 \in 0..(n - 1)
        BY <1>1
    <2>2. PICK p \in S : f[p] = i - 1
        BY <1>7, <2>1 DEF Surjection
    <2>. QED  BY <2>2
<1>9. s = [i \in 1..n |-> CHOOSE p \in S : Cardinality(lower(p)) = i - 1]
    BY DEF Sorted
<1>10. ASSUME NEW i \in 1..n
       PROVE  s[i] \in S /\ Cardinality(lower(s[i])) = i - 1
    <2>. HIDE DEF lower, s
    <2>. QED  BY <1>8, <1>9
<1>11. s \in [1..n -> S]
    <2>. HIDE DEF lower, s
    <2>. QED  BY <1>8, <1>9
<1>12. s \in Seq(S) /\ Len(s) = n /\ DOMAIN s = 1..n
    <2>. HIDE DEF s, n
    <2>. QED  BY <1>1, <1>11, FcnSeq
<1>13. ASSUME NEW p \in S
       PROVE  \E i \in 1..n : s[i] = p
    <2>. DEFINE i == Cardinality(lower(p)) + 1
    <2>1. i \in 1..n /\ i - 1 = Cardinality(lower(p))
        <3>1. Cardinality(lower(p)) \in Nat /\ Cardinality(lower(p)) < n
            BY <1>2
        <3>. HIDE DEF lower, n
        <3>. QED  BY <1>1, <3>1
    <2>2. Cardinality(lower(s[i])) = Cardinality(lower(p)) /\ s[i] \in S
        BY <1>10, <2>1
    <2>3. s[i] = p
        <3>. HIDE DEF lower, s, i
        <3>. QED  BY <1>4, <2>2
    <2>. QED  BY <2>1, <2>3
<1>14. ASSUME NEW i \in 1..n, NEW j \in 1..n, s[i] = s[j]
       PROVE  i = j
    <2>1. i - 1 = j - 1
        <3>. HIDE DEF lower, s
        <3>. QED  BY <1>10, <1>14
    <2>. QED  BY <1>1, <2>1
<1>15. ASSUME NEW i \in 1..n, NEW j \in 1..n, IsPrefix(s[i], s[j])
       PROVE  i <= j
    <2>1. CASE s[i] = s[j]
        BY <1>1, <1>14, <2>1
    <2>2. CASE s[i] # s[j]
        <3>1. PathLess(s[i], s[j])
            <4>1. s[i] \in TreePaths /\ s[j] \in TreePaths
                BY <1>10
            <4>. QED  BY <1>15, <2>2, <4>1, PathOrder
        <3>2. Cardinality(lower(s[i])) < Cardinality(lower(s[j]))
            BY <1>3, <1>10, <3>1
        <3>3. i - 1 < j - 1
            <4>. HIDE DEF lower, s
            <4>. QED  BY <1>10, <3>2
        <3>. QED  BY <1>1, <3>3
    <2>. QED  BY <2>1, <2>2
<1>. QED
    <2>. HIDE DEF lower, s, n, f
    <2>1. /\ s \in Seq(S) /\ Len(s) \in Nat /\ DOMAIN s = 1..Len(s)
          /\ \A i \in 1..Len(s) : s[i] \in S
          /\ \A p \in S : \E i \in 1..Len(s) : s[i] = p
          /\ \A i, j \in 1..Len(s) : s[i] = s[j] => i = j
          /\ \A i, j \in 1..Len(s) : IsPrefix(s[i], s[j]) => i <= j
        BY <1>1, <1>10, <1>12, <1>13, <1>14, <1>15
    <2>. QED  BY <2>1 DEF s

-----------------------------------------------------------------------------
(* Where a path leads. *)

PassStep(at, c) ==
    IF c = "/" THEN <<>> ELSE IF c # ".." THEN Append(at, c)
    ELSE IF at = <<>> THEN <<>> ELSE Front(at)

\* Names are components, and neither of the special ones.
LEMMA ComponentsAre ==
    /\ Range(Names) \subseteq Components /\ TreePaths \subseteq Seq(Components)
    /\ \A c \in Range(Names) : c # "/" /\ c # ".."
    /\ \A c \in Components : c = "/" \/ c = ".." \/ c \in Range(Names)
    /\ <<>> \in TreePaths
<1>1. Range(Names) \subseteq Components
    BY DEF Components
<1>2. TreePaths \subseteq Seq(Components)
    BY <1>1, SeqMonotonic DEF TreePaths
<1>3. <<>> \in TreePaths
    BY EmptySeq DEF TreePaths
<1>. QED  BY <1>1, <1>2, <1>3, BuildAssumption DEF Components

\* One component leads from a place to a place.
LEMMA PassStepTyped ==
    ASSUME NEW at \in TreePaths, NEW c \in Components
    PROVE  PassStep(at, c) \in TreePaths
<1>1. at # <<>> => Front(at) \in TreePaths
    BY FrontIsAbove DEF TreePaths
<1>2. c \in Range(Names) => Append(at, c) \in TreePaths
    BY AppendProperties DEF TreePaths
<1>. QED  BY <1>1, <1>2, ComponentsAre DEF PassStep

\* Where a path is after each of its components.
LEMMA PassesAre ==
    ASSUME NEW p \in Seq(Components)
    PROVE  /\ Passes(p) \in [0..Len(p) -> TreePaths] /\ Passes(p)[0] = <<>>
           /\ \A i \in 1..Len(p) : Passes(p)[i] = PassStep(Passes(p)[i - 1], p[i])
<1>. DEFINE n == Len(p)
            F == [i \in 1..n |-> [at \in TreePaths |-> PassStep(at, p[i])]]
            Eq(f) == f = [i \in 0..n |-> IF i = 0 \/ p[i] = "/" THEN <<>>
                                         ELSE IF p[i] # ".." THEN Append(f[i - 1], p[i])
                                         ELSE IF f[i - 1] = <<>> THEN <<>> ELSE Front(f[i - 1])]
<1>1. n \in Nat /\ \A i \in 1..n : p[i] \in Components
    BY LenProperties, ElementOfSeq
<1>. HIDE DEF n
<1>2. F \in [1..n -> [TreePaths -> TreePaths]]
    BY <1>1, PassStepTyped
<1>3. PICK g : Iterates(g, n, TreePaths, <<>>, F)
    <2>. HIDE DEF F
    <2>1. n \in Nat /\ <<>> \in TreePaths
        BY <1>1, ComponentsAre
    <2>. QED  BY <1>2, <2>1, Recursion
<1>4. Eq(g)
    <2>0. /\ g \in [0..n -> TreePaths] /\ g[0] = <<>>
          /\ \A i \in 1..n : g[i] = F[i][g[i - 1]]
        <3>. HIDE DEF F
        <3>. QED  BY <1>3 DEF Iterates
    <2>1. ASSUME NEW i \in 0..n, i # 0
          PROVE  g[i] = PassStep(g[i - 1], p[i])
        <3>1. i \in 1..n /\ i - 1 \in 0..n
            BY <1>1, <2>1
        <3>2. g[i - 1] \in TreePaths
            BY <2>0, <3>1
        <3>3. F[i][g[i - 1]] = PassStep(g[i - 1], p[i])
            BY <3>1, <3>2
        <3>. QED  BY <2>0, <3>1, <3>3
    <2>2. IsFcn(g) /\ DOMAIN g = 0..n
        BY <2>0 DEF IsFcn
    <2>. HIDE DEF F
    <2>. QED  BY <2>0, <2>1, <2>2 DEF PassStep, IsFcn
<1>5. Eq(Passes(p))
    <2>1. Passes(p) = CHOOSE f : Eq(f)
        BY DEF Passes, n
    <2>. HIDE DEF Eq
    <2>. QED  BY <1>4, <2>1
<1>. DEFINE f == Passes(p)
<1>6. DOMAIN f = 0..n /\ f[0] = <<>> /\ \A i \in 1..n : f[i] = PassStep(f[i - 1], p[i])
    <2>. HIDE DEF f
    <2>1. Eq(f)
        BY <1>5 DEF f
    <2>2. 0 \in 0..n /\ \A i \in 1..n : i \in 0..n /\ i # 0
        BY <1>1
    <2>. QED  BY <2>1, <2>2 DEF PassStep
<1>7. \A i \in 0..n : f[i] \in TreePaths
    <2>. DEFINE T == {i \in 0..n : f[i] \in TreePaths}
    <2>. HIDE DEF f
    <2>1. 0 \in T
        BY <1>1, <1>6, ComponentsAre
    <2>2. ASSUME NEW i \in 1..n, i - 1 \in T
          PROVE  i \in T
        BY <1>1, <1>6, <2>2, PassStepTyped
    <2>3. \A i \in 0..n : i \in T
        <3>. HIDE DEF T
        <3>. QED  BY <1>1, <2>1, <2>2, StepByStep
    <2>. QED  BY <2>3
<1>8. f \in [0..n -> TreePaths]
    <2>1. IsFcn(f)
        <3>. HIDE DEF f
        <3>1. Eq(f)
            BY <1>5 DEF f
        <3>. QED  BY <3>1 DEF IsFcn
    <2>. HIDE DEF f
    <2>. QED  BY <1>6, <1>7, <2>1 DEF IsFcn
<1>. QED  BY <1>6, <1>8 DEF n

\* A path of names is passed by its levels.
LEMMA PassesOfNames ==
    ASSUME NEW p \in TreePaths
    PROVE  \A i \in 0..Len(p) : Passes(p)[i] = SubSeq(p, 1, i)
<1>1. p \in Seq(Components) /\ Len(p) \in Nat /\ \A i \in 1..Len(p) : p[i] \in Range(Names)
    BY ComponentsAre, PathParts
<1>. DEFINE T == {i \in 0..Len(p) : Passes(p)[i] = SubSeq(p, 1, i)}
<1>2. 0 \in T
    <2>1. Passes(p)[0] = <<>>
        BY <1>1, PassesAre
    <2>2. SubSeq(p, 1, 0) = <<>>
        BY SubSeqEmpty
    <2>3. 0 \in 0..Len(p)
        BY <1>1
    <2>. QED  BY <2>1, <2>2, <2>3
<1>3. ASSUME NEW i \in 1..Len(p), i - 1 \in T
      PROVE  i \in T
    <2>1. Passes(p)[i] = Append(SubSeq(p, 1, i - 1), p[i])
        BY <1>1, <1>3, PassesAre, ComponentsAre DEF PassStep
    <2>2. SubSeq(p, 1, i) = SubSeq(p, 1, i - 1) \o <<p[i]>>
        <3>1. 1 \in 1..Len(p) /\ i \in 1..Len(p)
            BY <1>1
        <3>. QED  BY <1>1, <3>1, SubSeqRecursiveSecond DEF TreePaths
    <2>3. SubSeq(p, 1, i - 1) \in TreePaths
        <3>1. \A j \in 1..(i - 1) : p[j] \in Range(Names)
            BY <1>1
        <3>. QED  BY <1>1, <3>1, SubSeqProperties DEF TreePaths
    <2>4. Append(SubSeq(p, 1, i - 1), p[i]) = SubSeq(p, 1, i - 1) \o <<p[i]>>
        BY <1>1, <2>3, AppendIsConcat DEF TreePaths
    <2>. QED  BY <1>1, <2>1, <2>2, <2>4
<1>4. \A i \in 0..Len(p) : i \in T
    <2>. HIDE DEF T
    <2>. QED  BY <1>1, <1>2, <1>3, StepByStep
<1>. QED  BY <1>4

\* NoPath is no place.
LEMMA NoPathIsNone == NoPath \notin TreePaths
<1>1. SUFFICES ASSUME NoPath \in TreePaths  PROVE FALSE
    OBVIOUS
<1>2. Len(NoPath) = 1 /\ NoPath[1] = "(none)"
    BY DEF NoPath
<1>3. "(none)" \in Range(Names)
    BY <1>1, <1>2, PathParts
<1>. QED  BY <1>3, BuildAssumption

\* With the first link's target in its place a path is one.
LEMMA FollowedTyped ==
    ASSUME NEW t, IsTree(t), NEW p \in Seq(Components), LinksOn(t, p) # {}
    PROVE  Followed(t, p) \in Seq(Components)
<1>. DEFINE i == Min(LinksOn(t, p))
            at == Passes(p)
<1>1. Len(p) \in Nat /\ \A j \in 1..Len(p) : p[j] \in Components
    BY LenProperties, ElementOfSeq
<1>2. LinksOn(t, p) \subseteq 1..Len(p)
    BY DEF LinksOn
<1>3. i \in LinksOn(t, p)
    <2>1. LinksOn(t, p) \subseteq Nat
        BY <1>1, <1>2
    <2>2. \E x \in LinksOn(t, p) : \A y \in LinksOn(t, p) : x <= y
        BY <2>1, LeastNumber
    <2>. QED  BY <2>2 DEF Min
<1>. HIDE DEF i
<1>4. i \in 1..Len(p) /\ IsA("link", t, at[i])
    BY <1>2, <1>3 DEF LinksOn
<1>5. t[at[i]].target \in Seq(Components)
    BY <1>4, TreeParts, EntryKinds DEF IsA, Special
<1>6. at[i - 1] \in Seq(Components)
    <2>1. i - 1 \in 0..Len(p)
        BY <1>1, <1>4
    <2>2. at[i - 1] \in TreePaths
        BY <2>1, PassesAre
    <2>. QED  BY <2>2, ComponentsAre
<1>7. SubSeq(p, i + 1, Len(p)) \in Seq(Components)
    <2>1. \A j \in (i + 1)..Len(p) : p[j] \in Components
        BY <1>1, <1>4
    <2>. QED  BY <1>1, <1>4, <2>1, SubSeqProperties
<1>8. (at[i - 1] \o t[at[i]].target) \o SubSeq(p, i + 1, Len(p)) \in Seq(Components)
    BY <1>5, <1>6, <1>7, ConcatProperties
<1>. QED  BY <1>8 DEF Followed, i

\* A path leads to a place, if there are not too many links on the way.
LEMMA ResolveTyped ==
    ASSUME NEW t, IsTree(t), NEW p \in Seq(Components)
    PROVE  /\ Resolve(t, p) \in TreePaths \union {NoPath}
           /\ LinksOn(t, p) = {} => Resolve(t, p) = Passes(p)[Len(p)]
<1>. DEFINE C == Seq(Components)
            S == [C -> TreePaths \union {NoPath}]
            a == [q \in C |-> IF LinksOn(t, q) = {} THEN Passes(q)[Len(q)] ELSE NoPath]
            then(w) == [q \in C |-> IF LinksOn(t, q) = {} THEN Passes(q)[Len(q)] ELSE w[Followed(t, q)]]
            F == [i \in 1..LinkBudget |-> [w \in S |-> then(w)]]
            Eq(f) == f = [budget \in 0..LinkBudget |->
                            [q \in C |-> IF LinksOn(t, q) = {} THEN Passes(q)[Len(q)]
                                         ELSE IF budget = 0 THEN NoPath
                                         ELSE f[budget - 1][Followed(t, q)]]]
<1>1. LinkBudget \in Nat
    BY DEF LinkBudget
<1>2. \A q \in C : Passes(q)[Len(q)] \in TreePaths
    <2>1. SUFFICES ASSUME NEW q \in C  PROVE Passes(q)[Len(q)] \in TreePaths
        OBVIOUS
    <2>2. Len(q) \in 0..Len(q)
        BY LenProperties
    <2>. QED  BY <2>2, PassesAre
<1>3. a \in S
    BY <1>2
<1>4. ASSUME NEW w \in S
      PROVE  then(w) \in S
    <2>1. \A q \in C : LinksOn(t, q) # {} => w[Followed(t, q)] \in TreePaths \union {NoPath}
        BY FollowedTyped
    <2>. QED  BY <1>2, <2>1
<1>5. F \in [1..LinkBudget -> [S -> S]]
    <2>. HIDE DEF then, S
    <2>. QED  BY <1>4
<1>6. PICK g : Iterates(g, LinkBudget, S, a, F)
    <2>. HIDE DEF F, S, a
    <2>. QED  BY <1>1, <1>3, <1>5, Recursion
<1>7. /\ IsFcn(g) /\ DOMAIN g = 0..LinkBudget /\ g[0] = a
      /\ \A i \in 1..LinkBudget : g[i - 1] \in S /\ g[i] = then(g[i - 1])
    <2>. HIDE DEF S, a, then
    <2>1. /\ g \in [0..LinkBudget -> S] /\ g[0] = a
          /\ \A i \in 1..LinkBudget : g[i] = F[i][g[i - 1]]
        <3>. HIDE DEF F
        <3>. QED  BY <1>6 DEF Iterates
    <2>2. ASSUME NEW i \in 1..LinkBudget
          PROVE  g[i - 1] \in S /\ g[i] = then(g[i - 1])
        <3>1. i - 1 \in 0..LinkBudget
            BY <1>1
        <3>2. g[i - 1] \in S
            <4>. HIDE DEF F
            <4>. QED  BY <2>1, <3>1
        <3>3. g[i] = F[i][g[i - 1]]
            <4>. HIDE DEF F
            <4>. QED  BY <2>1
        <3>. QED  BY <3>2, <3>3
    <2>3. IsFcn(g) /\ DOMAIN g = 0..LinkBudget
        <3>. HIDE DEF F
        <3>. QED  BY <2>1 DEF IsFcn
    <2>. QED  BY <2>1, <2>2, <2>3
<1>8. Eq(g)
    <2>. DEFINE h == [budget \in 0..LinkBudget |->
                            [q \in C |-> IF LinksOn(t, q) = {} THEN Passes(q)[Len(q)]
                                         ELSE IF budget = 0 THEN NoPath
                                         ELSE g[budget - 1][Followed(t, q)]]]
    <2>1. ASSUME NEW i \in 0..LinkBudget
          PROVE  g[i] = h[i]
        <3>1. CASE i = 0
            <4>1. h[i] = a
                BY <3>1
            <4>. QED  BY <1>7, <3>1, <4>1
        <3>2. CASE i # 0
            <4>1. i \in 1..LinkBudget
                BY <1>1, <3>2
            <4>2. h[i] = then(g[i - 1])
                BY <3>2
            <4>. QED  BY <1>7, <4>1, <4>2
        <3>. QED  BY <3>1, <3>2
    <2>2. IsFcn(h) /\ DOMAIN h = 0..LinkBudget
        BY DEF IsFcn
    <2>3. g = h
        <3>. HIDE DEF h
        <3>. QED  BY <1>7, <2>1, <2>2, FcnEqual
    <2>. QED  BY <2>3
<1>. DEFINE walk == CHOOSE f : Eq(f)
<1>9. Eq(walk)
    <2>. HIDE DEF Eq
    <2>. QED  BY <1>8
<1>10. walk[0] = a /\ \A i \in 1..LinkBudget : walk[i] = then(walk[i - 1])
    <2>. HIDE DEF walk
    <2>1. 0 \in 0..LinkBudget /\ \A i \in 1..LinkBudget : i \in 0..LinkBudget /\ i # 0
        BY <1>1
    <2>. QED  BY <1>9, <2>1
<1>11. \A i \in 0..LinkBudget : walk[i] \in S
    <2>. DEFINE T == {i \in 0..LinkBudget : walk[i] \in S}
    <2>. HIDE DEF walk, S, a, then
    <2>1. 0 \in T
        BY <1>1, <1>3, <1>10
    <2>2. ASSUME NEW i \in 1..LinkBudget, i - 1 \in T
          PROVE  i \in T
        BY <1>1, <1>4, <1>10, <2>2
    <2>3. \A i \in 0..LinkBudget : i \in T
        <3>. HIDE DEF T
        <3>. QED  BY <1>1, <2>1, <2>2, StepByStep
    <2>. QED  BY <2>3
<1>12. Resolve(t, p) = walk[LinkBudget][p]
    BY DEF Resolve
<1>13. walk[LinkBudget] \in S
    <2>. HIDE DEF walk, S
    <2>. QED  BY <1>1, <1>11
<1>14. ASSUME LinksOn(t, p) = {}
       PROVE  walk[LinkBudget][p] = Passes(p)[Len(p)]
    <2>. HIDE DEF walk
    <2>1. LinkBudget \in 1..LinkBudget
        BY DEF LinkBudget
    <2>2. walk[LinkBudget] = then(walk[LinkBudget - 1])
        <3>. HIDE DEF then
        <3>. QED  BY <1>10, <2>1
    <2>. QED  BY <1>14, <2>2
<1>. QED
    <2>. HIDE DEF walk
    <2>. QED  BY <1>12, <1>13, <1>14

\* A path of names leads where it says, if there is no link on the way.
LEMMA ResolvePlain ==
    ASSUME NEW t, IsTree(t), NEW p \in TreePaths, \A q \in LevelsOf(p) : ~IsA("link", t, q)
    PROVE  Resolve(t, p) = p
<1>1. p \in Seq(Components) /\ Len(p) \in Nat
    BY ComponentsAre, PathParts
<1>2. \A i \in 1..Len(p) : Passes(p)[i] \in LevelsOf(p)
    BY PassesOfNames DEF LevelsOf
<1>3. LinksOn(t, p) = {}
    BY <1>2 DEF LinksOn
<1>4. Resolve(t, p) = Passes(p)[Len(p)]
    BY <1>1, <1>3, ResolveTyped
<1>5. Passes(p)[Len(p)] = SubSeq(p, 1, Len(p))
    BY <1>1, PassesOfNames
<1>6. SubSeq(p, 1, Len(p)) = p
    BY SubSeqFull DEF TreePaths
<1>. QED  BY <1>4, <1>5, <1>6

-----------------------------------------------------------------------------
(* Unpacking. *)

\* A path is what is above it and a name.
LEMMA FrontAndLast ==
    /\ \A p \in AllPaths : /\ Front(p) \in TreePaths /\ Last(p) \in Range(Names)
                           /\ Append(Front(p), Last(p)) = p
    /\ \A p \in TreePaths, n \in Range(Names) :
          Append(p, n) \in AllPaths /\ Front(Append(p, n)) = p
<1>1. ASSUME NEW p \in TreePaths, NEW n \in Range(Names)
      PROVE  Append(p, n) \in AllPaths /\ Front(Append(p, n)) = p
    <2>. DEFINE q == Append(p, n)
    <2>1. /\ q \in Seq(Range(Names)) /\ q # <<>> /\ Len(q) = Len(p) + 1
          /\ \A i \in 1..Len(p) : q[i] = p[i]
        BY AppendProperties DEF TreePaths
    <2>. HIDE DEF q
    <2>2. Front(q) \in Seq(Range(Names)) /\ Len(Front(q)) = Len(q) - 1 /\ IsPrefix(Front(q), q)
        BY <2>1, FrontIsAbove
    <2>3. Len(p) \in Nat /\ Len(Front(q)) = Len(p)
        BY <2>1, <2>2, PathParts
    <2>4. \A i \in 1..Len(p) : Front(q)[i] = p[i]
        BY <2>1, <2>2, <2>3, PrefixAgrees
    <2>5. Front(q) = p
        BY <2>2, <2>3, <2>4, SeqEqual DEF TreePaths
    <2>6. q \in AllPaths
        BY <2>1 DEF AllPaths, TreePaths
    <2>. QED  BY <2>5, <2>6 DEF q
<1>2. ASSUME NEW p \in AllPaths
      PROVE  /\ Front(p) \in TreePaths /\ Last(p) \in Range(Names)
             /\ Append(Front(p), Last(p)) = p
    <2>1. p \in Seq(Range(Names)) /\ p # <<>> /\ Len(p) \in Nat
        BY PathParts DEF AllPaths, TreePaths
    <2>2. PICK s \in Seq(Range(Names)), n \in Range(Names) : p = Append(s, n)
        BY <2>1, SequenceEmptyOrAppend
    <2>3. Front(p) = s
        BY <1>1, <2>2 DEF TreePaths
    <2>4. Last(p) = n
        BY <2>2, AppendProperties, LenProperties DEF Last
    <2>. QED  BY <2>2, <2>3, <2>4 DEF TreePaths
<1>. QED  BY <1>1, <1>2

\* The levels of a path are those above it and itself.
LEMMA LevelsAre ==
    ASSUME NEW p \in TreePaths
    PROVE  /\ LevelsOf(p) = {q \in AllPaths : IsPrefix(q, p)}
           /\ \A q \in LevelsOf(p), r \in AllPaths : IsPrefix(r, q) => r \in LevelsOf(p)
           /\ p # <<>> => p \in LevelsOf(p) /\ LevelsOf(p) = Above(p) \union {p}
           /\ IsFiniteSet(LevelsOf(p))
<1>1. LevelsOf(p) = {q \in AllPaths : IsPrefix(q, p)}
    BY LevelsArePrefixes DEF AllPaths, TreePaths
<1>2. \A q \in LevelsOf(p), r \in AllPaths : IsPrefix(r, q) => r \in LevelsOf(p)
    BY <1>1, PrefixOrder DEF AllPaths, TreePaths
<1>3. p # <<>> => p \in LevelsOf(p) /\ LevelsOf(p) = Above(p) \union {p}
    BY <1>1, PrefixOrder DEF AllPaths, TreePaths, Above
<1>4. IsFiniteSet(LevelsOf(p))
    <2>1. IsFiniteSet(1..Len(p))
        BY PathParts, FS_Interval
    <2>. DEFINE f == [n \in 1..Len(p) |-> SubSeq(p, 1, n)]
    <2>2. f \in Surjection(1..Len(p), LevelsOf(p))
        BY DEF Surjection, LevelsOf
    <2>. HIDE DEF f
    <2>. QED  BY <2>1, <2>2, FS_Surjection
<1>. QED  BY <1>1, <1>2, <1>3, <1>4

\* An entry as the extractor leaves it.
Granted(e) == IF e.kind = "dir" THEN Dir(OwnerBits(e.mode)) ELSE e

\* What a tree can be that layers unpack to.
Clean(t) == \A p \in DOMAIN t : t[p] \in Storable /\ Granted(t[p]) = t[p]

CleanTrees == {t \in UNION {[D -> Storable] : D \in SUBSET AllPaths} : IsTree(t) /\ Clean(t)}
Outcomes   == [ok : BOOLEAN, tree : CleanTrees]

\* Granting the owner's bits once is enough.
LEMMA GrantedOnce ==
    /\ \A e \in Storable : Granted(e) \in Storable /\ Granted(Granted(e)) = Granted(e)
                           /\ Granted(e).kind = e.kind
    /\ Dir(755) \in Storable /\ Granted(Dir(755)) = Dir(755)
<1>1. \A m \in Nat : OwnerBits(m) \in Nat /\ OwnerBits(OwnerBits(m)) = OwnerBits(m)
    BY DEF OwnerBits
<1>2. \A m \in Nat : Dir(m) \in Storable /\ Dir(m).kind = "dir" /\ Dir(m).mode = m
    BY EntryKinds
<1>3. OwnerBits(755) = 755
    BY DEF OwnerBits
<1>4. \A e \in Storable : e.kind = "dir" => e.mode \in Nat
    BY EntryKinds
<1>. QED  BY <1>1, <1>2, <1>3, <1>4 DEF Granted

\* The sets, and what they are the sets of.
LEMMA OutcomesAre ==
    /\ \A t : IsTree(t) /\ Clean(t) <=> t \in CleanTrees
    /\ \A o \in Outcomes : /\ o \in {Good(o.tree), Bad(o.tree)} /\ IsTree(o.tree) /\ Clean(o.tree)
                           /\ o.ok \in BOOLEAN /\ (o.ok => o = Good(o.tree))
    /\ \A t : IsTree(t) /\ Clean(t) => Good(t) \in Outcomes /\ Bad(t) \in Outcomes
    /\ \A t : Good(t).ok /\ Good(t).tree = t /\ ~Bad(t).ok /\ Bad(t).tree = t
<1>1. ASSUME NEW t, IsTree(t), Clean(t)
      PROVE  t \in CleanTrees
    <2>1. t \in [DOMAIN t -> Storable]
        BY <1>1, TreeParts DEF Clean, IsFcn
    <2>2. DOMAIN t \in SUBSET AllPaths
        BY <1>1, TreeParts
    <2>. QED  BY <1>1, <2>1, <2>2 DEF CleanTrees
<1>2. \A t \in CleanTrees : IsTree(t) /\ Clean(t)
    BY DEF CleanTrees
<1>. HIDE DEF CleanTrees
<1>. QED  BY <1>1, <1>2 DEF Outcomes, Good, Bad

\* What a snapshot has.
LEMMA SnapshotIs ==
    ASSUME NEW t, IsTree(t)
    PROVE  /\ IsTree(Snapshot(t)) /\ IsFcn(Snapshot(t))
           /\ DOMAIN Snapshot(t) = {p \in DOMAIN t : t[p] # Special}
           /\ \A p \in DOMAIN Snapshot(t) : Snapshot(t)[p] = t[p] /\ t[p] \in Storable
<1>. DEFINE S == {p \in DOMAIN t : t[p].kind = "special"}
<1>1. DOMAIN t \subseteq AllPaths /\ \A p \in DOMAIN t : t[p] \in TreeEntries
    BY TreeParts
<1>2. S = {p \in DOMAIN t : t[p] = Special}
    BY <1>1, EntryKinds
<1>3. \A p \in S : Below(t, p) \subseteq S
    <2>1. ASSUME NEW p \in S
          PROVE  ~IsDir(t, p) /\ p \in TreePaths
        BY <1>1, <2>1 DEF IsDir, IsA, AllPaths
    <2>. QED  BY <2>1, TreeLeaf
<1>4. IsTree(Without(t, S))
    BY <1>3, WithoutTree
<1>5. Snapshot(t) = Without(t, S)
    BY DEF Snapshot
<1>6. DOMAIN Without(t, S) = DOMAIN t \ S /\ \A p \in DOMAIN t \ S : Without(t, S)[p] = t[p]
    BY WithoutIs
<1>7. IsFcn(Without(t, S))
    BY WithoutIs
<1>. HIDE DEF S
<1>8. DOMAIN Without(t, S) = {p \in DOMAIN t : t[p] # Special}
    BY <1>2, <1>6
<1>9. \A p \in DOMAIN t : t[p] # Special => t[p] \in Storable
    BY <1>1 DEF TreeEntries
<1>10. \A p \in DOMAIN Without(t, S) : Without(t, S)[p] = t[p] /\ t[p] \in Storable
    BY <1>6, <1>8, <1>9
<1>. QED  BY <1>4, <1>5, <1>7, <1>8, <1>10

\* What a tree unpacks to.
LEMMA UnpackedIs ==
    ASSUME NEW t, IsTree(t)
    PROVE  /\ IsTree(AsUnpacked(t)) /\ Clean(AsUnpacked(t)) /\ IsFcn(AsUnpacked(t))
           /\ DOMAIN AsUnpacked(t) = {p \in DOMAIN t : t[p] # Special}
           /\ \A p \in DOMAIN AsUnpacked(t) : AsUnpacked(t)[p] = Granted(t[p]) /\ t[p] \in Storable
<1>. DEFINE s == Snapshot(t)
            u == AsUnpacked(t)
<1>1. /\ IsTree(s) /\ DOMAIN s = {p \in DOMAIN t : t[p] # Special}
      /\ \A p \in DOMAIN s : s[p] = t[p] /\ t[p] \in Storable
    BY SnapshotIs
<1>2. DOMAIN u = DOMAIN s /\ IsFcn(u)
    BY DEF AsUnpacked, IsFcn
<1>3. \A p \in DOMAIN s : u[p] = Granted(t[p])
    BY <1>1 DEF AsUnpacked, Granted, IsA
<1>. HIDE DEF u, s
<1>4. IsTree(u)
    <2>1. \A p \in DOMAIN s : u[p] \in TreeEntries /\ (s[p].kind = "dir" => u[p].kind = "dir")
        BY <1>1, <1>3, GrantedOnce DEF TreeEntries
    <2>. QED  BY <1>1, <1>2, <2>1, SameDirsTree
<1>5. Clean(u)
    BY <1>1, <1>2, <1>3, GrantedOnce DEF Clean
<1>. QED  BY <1>1, <1>2, <1>3, <1>4, <1>5 DEF u

\* What is clean is as unpacked.
LEMMA CleanStays ==
    ASSUME NEW t, IsTree(t), Clean(t)
    PROVE  AsUnpacked(t) = t /\ Snapshot(t) = t
<1>1. IsFcn(t) /\ \A p \in DOMAIN t : t[p] # Special /\ Granted(t[p]) = t[p]
    BY TreeParts, EntryKinds DEF Clean
<1>. QED  BY <1>1, UnpackedIs, SnapshotIs, FcnEqual

\* What lies above a level of a path is one.
LEMMA MadeDirs ==
    ASSUME NEW t, IsTree(t), NEW p \in TreePaths
    PROVE  /\ MakeDirs(t, p) \in {Good(MakeDirs(t, p).tree), Bad(MakeDirs(t, p).tree)}
           /\ IsTree(MakeDirs(t, p).tree)
           /\ Clean(t) => Clean(MakeDirs(t, p).tree)
           /\ MakeDirs(t, p).ok =>
                /\ \A q \in LevelsOf(p) : q \in DOMAIN t => IsDir(t, q)
                /\ DOMAIN MakeDirs(t, p).tree = LevelsOf(p) \union DOMAIN t
                /\ IsFcn(MakeDirs(t, p).tree)
                /\ \A q \in DOMAIN t : MakeDirs(t, p).tree[q] = t[q]
                /\ \A q \in LevelsOf(p) \ DOMAIN t : MakeDirs(t, p).tree[q] = Dir(755)
                /\ IsDir(MakeDirs(t, p).tree, p)
           /\ ~MakeDirs(t, p).ok => MakeDirs(t, p) = Bad(t)
                                    /\ \E q \in LevelsOf(p) \intersect DOMAIN t : ~IsDir(t, q)
<1>1. CASE \E q \in LevelsOf(p) \intersect DOMAIN t : ~IsDir(t, q)
    <2>1. MakeDirs(t, p) = Bad(t)
        BY <1>1 DEF MakeDirs
    <2>2. MakeDirs(t, p).tree = t /\ ~MakeDirs(t, p).ok
        BY <2>1, OutcomesAre
    <2>. QED  BY <1>1, <2>1, <2>2
<1>2. CASE ~\E q \in LevelsOf(p) \intersect DOMAIN t : ~IsDir(t, q)
    <2>. DEFINE u == [q \in LevelsOf(p) \union DOMAIN t |-> IF q \in DOMAIN t THEN t[q] ELSE Dir(755)]
    <2>1. MakeDirs(t, p) = Good(u)
        BY <1>2 DEF MakeDirs
    <2>2. /\ DOMAIN u = LevelsOf(p) \union DOMAIN t /\ IsFcn(u)
          /\ \A q \in DOMAIN t : u[q] = t[q]
          /\ \A q \in LevelsOf(p) \ DOMAIN t : u[q] = Dir(755)
        BY DEF IsFcn
    <2>. HIDE DEF u
    <2>3. /\ DOMAIN t \subseteq AllPaths /\ IsFiniteSet(DOMAIN t)
          /\ \A q \in DOMAIN t : t[q] \in TreeEntries
        BY TreeParts
    <2>4. LevelsOf(p) \subseteq AllPaths /\ IsFiniteSet(LevelsOf(p))
        BY LevelsAre
    <2>5. Dir(755) \in Storable /\ Dir(755).kind = "dir" /\ Granted(Dir(755)) = Dir(755)
        BY EntryKinds, GrantedOnce
    <2>6. \A q \in LevelsOf(p) : IsDir(u, q)
        BY <1>2, <2>2, <2>5 DEF IsDir, IsA
    <2>7. IsTree(u)
        <3>1. ASSUME NEW q \in DOMAIN u, NEW r \in AllPaths, IsPrefix(r, q), r # q
              PROVE  IsDir(u, r)
            <4>1. CASE q \in LevelsOf(p)
                BY <2>6, <3>1, <4>1, LevelsAre
            <4>2. CASE q \in DOMAIN t
                <5>1. IsDir(t, r)
                    BY <3>1, <4>2, TreeAbove DEF AllPaths
                <5>. QED  BY <2>2, <5>1 DEF IsDir, IsA
            <4>. QED  BY <2>2, <3>1, <4>1, <4>2
        <3>2. IsFiniteSet(DOMAIN u)
            BY <2>2, <2>3, <2>4, FS_Union
        <3>3. \A q \in DOMAIN u : u[q] \in TreeEntries
            BY <2>2, <2>3, <2>5 DEF TreeEntries
        <3>. QED  BY <2>2, <2>3, <2>4, <3>1, <3>2, <3>3, TreeIf
    <2>8. IsDir(u, p)
        <3>1. p # <<>> => p \in LevelsOf(p)
            BY LevelsAre
        <3>. QED  BY <2>6, <3>1 DEF IsDir
    <2>9. Clean(t) => Clean(u)
        BY <2>2, <2>5 DEF Clean
    <2>10. MakeDirs(t, p).tree = u /\ MakeDirs(t, p).ok
        BY <2>1, OutcomesAre
    <2>. QED  BY <1>2, <2>1, <2>2, <2>7, <2>8, <2>9, <2>10
<1>. QED  BY <1>1, <1>2

\* Clean trees stay so with what is storable, and with less.
LEMMA CleanWith ==
    ASSUME NEW t, IsTree(t), Clean(t)
    PROVE  /\ \A p, e : e \in Storable => Clean(Put(t, p, Granted(e)))
           /\ \A S : Clean(Without(t, S))
           /\ \A p : Clean(Drop(t, p))
<1>1. ASSUME NEW p, NEW e \in Storable
      PROVE  Clean(Put(t, p, Granted(e)))
    <2>1. Granted(e) \in Storable /\ Granted(Granted(e)) = Granted(e)
        BY GrantedOnce
    <2>. DEFINE u == Put(t, p, Granted(e))
    <2>2. DOMAIN u = DOMAIN t \union {p} /\ u[p] = Granted(e) /\ \A q \in DOMAIN t : q # p => u[q] = t[q]
        BY DEF Put
    <2>. HIDE DEF u
    <2>3. \A q \in DOMAIN u : u[q] = Granted(e) \/ (q \in DOMAIN t /\ u[q] = t[q])
        BY <2>2
    <2>4. Clean(u)
        BY <2>1, <2>3 DEF Clean
    <2>. QED  BY <2>4 DEF u
<1>2. ASSUME NEW S
      PROVE  Clean(Without(t, S))
    <2>. DEFINE u == Without(t, S)
    <2>1. \A q \in DOMAIN u : q \in DOMAIN t /\ u[q] = t[q]
        BY DEF Without
    <2>. HIDE DEF u
    <2>2. Clean(u)
        BY <2>1 DEF Clean
    <2>. QED  BY <2>2 DEF u
<1>. QED  BY <1>1, <1>2 DEF Drop

\* Writing one entry in a tree, below a directory.
LEMMA WriteTyped ==
    ASSUME NEW t, IsTree(t), Clean(t), NEW p \in AllPaths, IsDir(t, Front(p)), NEW e \in Storable
    PROVE  /\ e.kind = "dir"  => WriteDir(t, p, e) \in Outcomes
           /\ e.kind = "link" => WriteLink(t, p, e) \in Outcomes
           /\ e.kind = "file" => WriteFile(t, p, e) \in Outcomes
<1>1. e \in TreeEntries /\ Granted(e) \in TreeEntries /\ Granted(e).kind = e.kind
    BY GrantedOnce DEF TreeEntries
<1>2. e.kind # "dir" => Granted(e) = e
    BY DEF Granted
<1>3. ASSUME e.kind = "dir"
      PROVE  WriteDir(t, p, e) \in Outcomes
    <2>1. Dir(OwnerBits(e.mode)) = Granted(e)
        BY <1>3 DEF Granted
    <2>2. IsTree(Put(t, p, Granted(e))) /\ Clean(Put(t, p, Granted(e)))
        BY <1>1, <1>3, PutTree, CleanWith
    <2>. QED  BY <2>1, <2>2, OutcomesAre DEF WriteDir
<1>4. ASSUME e.kind = "link"
      PROVE  WriteLink(t, p, e) \in Outcomes
    <2>1. IsTree(Put(Drop(t, p), p, e))
        BY <1>1, PutDropped
    <2>2. IsTree(Drop(t, p)) /\ Clean(Drop(t, p))
        BY DropTree, CleanWith
    <2>3. Clean(Put(Drop(t, p), p, Granted(e)))
        BY <2>2, CleanWith
    <2>. QED  BY <1>2, <1>4, <2>1, <2>3, OutcomesAre DEF WriteLink
<1>5. ASSUME e.kind = "file"
      PROVE  WriteFile(t, p, e) \in Outcomes
    <2>1. ~IsDir(t, p) => Below(t, p) = {}
        BY TreeLeaf DEF AllPaths
    <2>2. ~IsDir(t, p) => IsTree(Put(t, p, e))
        BY <1>1, <2>1, PutTree
    <2>3. Clean(Put(t, p, e))
        BY <1>2, <1>5, CleanWith
    <2>. QED  BY <2>2, <2>3, OutcomesAre DEF WriteFile
<1>. QED  BY <1>3, <1>4, <1>5

\* What a whiteout leaves.
LEMMA WhiteOutTyped ==
    ASSUME NEW t, IsTree(t), Clean(t), NEW dir \in TreePaths, NEW p \in AllPaths, NEW e
    PROVE  IsTree(WhiteOut(t, dir, p, e)) /\ Clean(WhiteOut(t, dir, p, e))
<1>1. DOMAIN t \subseteq AllPaths
    BY TreeParts
<1>2. IsTree(Drop(t, p)) /\ Clean(Drop(t, p))
    BY DropTree, CleanWith
<1>3. IsTree(Without(t, Below(t, dir))) /\ Clean(Without(t, Below(t, dir)))
    <2>1. ASSUME NEW q \in Below(t, dir)
          PROVE  Below(t, q) \subseteq Below(t, dir)
        <3>1. q \in DOMAIN t /\ IsPrefix(dir, q) /\ q # dir /\ q \in TreePaths
            BY <1>1, <2>1, AboveBelow DEF AllPaths
        <3>2. Below(t, q) = {r \in DOMAIN t : IsPrefix(q, r) /\ r # q}
            BY <1>1, <3>1, AboveBelow
        <3>3. ASSUME NEW r \in Below(t, q)
              PROVE  r \in DOMAIN t /\ IsPrefix(dir, r) /\ r # dir
            <4>1. r \in DOMAIN t /\ r \in TreePaths /\ IsPrefix(q, r)
                BY <1>1, <3>2, <3>3 DEF AllPaths
            <4>2. Len(dir) < Len(q) /\ Len(q) <= Len(r)
                BY <3>1, <4>1, PrefixOrder, PrefixAgrees DEF TreePaths
            <4>3. Len(dir) \in Nat /\ Len(q) \in Nat /\ Len(r) \in Nat
                BY <3>1, <4>1, PathParts
            <4>. QED  BY <3>1, <4>1, <4>2, <4>3, PrefixOrder DEF TreePaths
        <3>. QED  BY <1>1, <3>3, AboveBelow
    <2>. QED  BY <2>1, WithoutTree, CleanWith
<1>. QED  BY <1>2, <1>3 DEF WhiteOut

\* What a member makes of a tree.
LEMMA ExtractTyped ==
    ASSUME NEW t, IsTree(t), Clean(t), NEW m \in Members
    PROVE  Extract(t, m) \in Outcomes
<1>. DEFINE dir  == Resolve(t, Front(m.path))
            p    == Append(dir, Last(m.path))
            made == MakeDirs(t, dir)
            e    == m.entry
<1>1. m.path \in AllPaths /\ e \in TreeEntries \union {Whiteout, Opaque}
    BY DEF Members
<1>2. e.kind \in {"dir", "file", "link"} => e \in Storable
    BY <1>1, EntryKinds DEF Whiteout, Opaque, Special
<1>3. e.kind \in {"dir", "file", "link", "special", "whiteout", "opaque"}
    BY <1>1, EntryKinds DEF Whiteout, Opaque, Special
<1>4. Front(m.path) \in TreePaths /\ Last(m.path) \in Range(Names)
    BY <1>1, FrontAndLast
<1>5. dir \in TreePaths \union {NoPath}
    BY <1>4, ComponentsAre, ResolveTyped
<1>. HIDE DEF dir
<1>6. CASE dir = NoPath \/ e.kind = "special"
    <2>1. Extract(t, m) = Good(t)
        BY <1>6 DEF Extract, dir
    <2>. QED  BY <2>1, OutcomesAre
<1>7. CASE dir # NoPath /\ e.kind # "special"
    <2>1. dir \in TreePaths
        BY <1>5, <1>7
    <2>2. p \in AllPaths /\ Front(p) = dir
        BY <1>4, <2>1, FrontAndLast
    <2>3. CASE e.kind \in {"whiteout", "opaque"}
        <3>1. Extract(t, m) = Good(WhiteOut(t, dir, p, e))
            BY <1>7, <2>3 DEF Extract, dir
        <3>. QED  BY <2>1, <2>2, <3>1, WhiteOutTyped, OutcomesAre
    <2>4. CASE e.kind \notin {"whiteout", "opaque"} /\ ~made.ok
        <3>1. Extract(t, m) = made
            BY <1>7, <2>4 DEF Extract, dir
        <3>2. made = Bad(t)
            BY <2>1, <2>4, MadeDirs
        <3>. QED  BY <3>1, <3>2, OutcomesAre
    <2>5. CASE e.kind \notin {"whiteout", "opaque"} /\ made.ok
        <3>1. e \in Storable /\ e.kind \in {"dir", "file", "link"}
            BY <1>2, <1>3, <1>7, <2>5
        <3>2. Extract(t, m) = CASE e.kind = "dir"  -> WriteDir(made.tree, p, e)
                                [] e.kind = "link" -> WriteLink(made.tree, p, e)
                                [] e.kind = "file" -> WriteFile(made.tree, p, e)
            BY <1>7, <2>5 DEF Extract, dir
        <3>3. IsTree(made.tree) /\ Clean(made.tree) /\ IsDir(made.tree, dir)
            BY <2>1, <2>5, MadeDirs
        <3>4. IsDir(made.tree, Front(p))
            BY <2>2, <3>3
        <3>. HIDE DEF made, p, e
        <3>5. /\ e.kind = "dir"  => WriteDir(made.tree, p, e) \in Outcomes
              /\ e.kind = "link" => WriteLink(made.tree, p, e) \in Outcomes
              /\ e.kind = "file" => WriteFile(made.tree, p, e) \in Outcomes
            BY <2>2, <3>1, <3>3, <3>4, WriteTyped
        <3>. QED  BY <3>1, <3>2, <3>5
    <2>. QED  BY <1>7, <2>3, <2>4, <2>5
<1>. QED  BY <1>6, <1>7

\* The first member that cannot be written ends it.
LEMMA UnpackTyped ==
    ASSUME NEW acc \in Outcomes, NEW m \in Members
    PROVE  Unpack(acc, m) \in Outcomes
BY OutcomesAre, ExtractTyped DEF Unpack

\* Unpacking goes from the first member to the last.
LEMMA ApplyIs ==
    ASSUME NEW acc \in Outcomes, NEW layer \in Seq(Members)
    PROVE  \E f : /\ f[0] = acc /\ Apply(acc, layer) = f[Len(layer)]
                  /\ \A i \in 1..Len(layer) : f[i] = Unpack(f[i - 1], layer[i])
                  /\ \A i \in 0..Len(layer) : f[i] \in Outcomes
<1>. DEFINE n == Len(layer)
            F == [i \in 1..n |-> [x \in Outcomes |-> Unpack(x, layer[i])]]
            Eq(f) == f = [i \in 0..n |-> IF i = 0 THEN acc ELSE Unpack(f[i - 1], layer[i])]
<1>1. n \in Nat
    BY LenProperties
<1>2. acc \in Outcomes
    OBVIOUS
<1>3. ASSUME NEW i \in 1..n, NEW x \in Outcomes
      PROVE  Unpack(x, layer[i]) \in Outcomes
    <2>1. layer[i] \in Members
        BY ElementOfSeq
    <2>. QED  BY <2>1, UnpackTyped
<1>. HIDE DEF n
<1>4. F \in [1..n -> [Outcomes -> Outcomes]]
    BY <1>3
<1>5. PICK g : Iterates(g, n, Outcomes, acc, F)
    <2>. HIDE DEF F
    <2>. QED  BY <1>1, <1>2, <1>4, Recursion
<1>6. Eq(g)
    <2>1. /\ g \in [0..n -> Outcomes] /\ g[0] = acc
          /\ \A i \in 1..n : g[i] = F[i][g[i - 1]]
        <3>. HIDE DEF F
        <3>. QED  BY <1>5 DEF Iterates
    <2>2. ASSUME NEW i \in 0..n, i # 0
          PROVE  g[i] = Unpack(g[i - 1], layer[i])
        <3>1. i \in 1..n /\ i - 1 \in 0..n
            BY <1>1, <2>2
        <3>2. g[i - 1] \in Outcomes /\ g[i] = F[i][g[i - 1]]
            <4>. HIDE DEF F
            <4>. QED  BY <2>1, <3>1
        <3>3. F[i][g[i - 1]] = Unpack(g[i - 1], layer[i])
            BY <3>1, <3>2
        <3>. QED  BY <3>2, <3>3
    <2>3. IsFcn(g) /\ DOMAIN g = 0..n
        <3>. HIDE DEF F
        <3>. QED  BY <2>1 DEF IsFcn
    <2>. HIDE DEF F
    <2>. QED  BY <2>1, <2>2, <2>3 DEF IsFcn
<1>. DEFINE f == CHOOSE f : Eq(f)
<1>7. Eq(f)
    <2>. HIDE DEF Eq
    <2>. QED  BY <1>6
<1>8. f[0] = acc /\ \A i \in 1..n : f[i] = Unpack(f[i - 1], layer[i])
    <2>. HIDE DEF f
    <2>1. 0 \in 0..n /\ \A i \in 1..n : i \in 0..n /\ i # 0
        BY <1>1
    <2>. QED  BY <1>7, <2>1
<1>9. \A i \in 0..n : f[i] \in Outcomes
    <2>. DEFINE T == {i \in 0..n : f[i] \in Outcomes}
    <2>. HIDE DEF f
    <2>1. 0 \in T
        BY <1>1, <1>2, <1>8
    <2>2. ASSUME NEW i \in 1..n, i - 1 \in T
          PROVE  i \in T
        BY <1>1, <1>3, <1>8, <2>2
    <2>3. \A i \in 0..n : i \in T
        <3>. HIDE DEF T
        <3>. QED  BY <1>1, <2>1, <2>2, StepByStep
    <2>. QED  BY <2>3
<1>10. Apply(acc, layer) = f[n]
    BY DEF Apply, n
<1>. QED
    <2>. HIDE DEF f
    <2>1. /\ f[0] = acc /\ Apply(acc, layer) = f[n]
          /\ \A i \in 1..n : f[i] = Unpack(f[i - 1], layer[i])
          /\ \A i \in 0..n : f[i] \in Outcomes
        BY <1>8, <1>9, <1>10
    <2>. QED  BY <2>1 DEF n

-----------------------------------------------------------------------------
(* What `diff` compares with. *)

\* A directory without its mode, as `diff` sees it.
Bare(e) == IF e.kind = "dir" THEN [kind |-> "dir"] ELSE e

Shapes == UNION {[D -> TreeEntries \union {[kind |-> "dir"]}] : D \in SUBSET AllPaths}

\* What is in a shape, and what stays one.
LEMMA ShapesAre ==
    /\ \A b \in Shapes : IsFcn(b) /\ DOMAIN b \subseteq AllPaths
    /\ \A b \in Shapes : \A S : Without(b, S) \in Shapes
    /\ \A b \in Shapes, p \in AllPaths, e \in TreeEntries \union {[kind |-> "dir"]} : Put(b, p, e) \in Shapes
    /\ EmptyTree \in Shapes
<1>. DEFINE E == TreeEntries \union {[kind |-> "dir"]}
<1>. HIDE DEF E
<1>0. Shapes = UNION {[D -> E] : D \in SUBSET AllPaths}
    BY DEF Shapes, E
<1>1. ASSUME NEW b \in Shapes
      PROVE  DOMAIN b \in SUBSET AllPaths /\ b \in [DOMAIN b -> E]
    BY <1>0
<1>2. ASSUME NEW f, DOMAIN f \in SUBSET AllPaths, f \in [DOMAIN f -> E]
      PROVE  f \in Shapes
    BY <1>0, <1>2
<1>3. ASSUME NEW b \in Shapes
      PROVE  IsFcn(b) /\ DOMAIN b \subseteq AllPaths
    BY <1>1 DEF IsFcn
<1>4. ASSUME NEW b \in Shapes, NEW S
      PROVE  Without(b, S) \in Shapes
    <2>1. Without(b, S) \in [DOMAIN b \ S -> E]
        BY <1>1 DEF Without
    <2>. HIDE DEF Without
    <2>. QED  BY <1>1, <1>2, <2>1
<1>5. ASSUME NEW b \in Shapes, NEW p \in AllPaths, NEW e \in E
      PROVE  Put(b, p, e) \in Shapes
    <2>1. Put(b, p, e) \in [DOMAIN b \union {p} -> E]
        BY <1>1 DEF Put
    <2>. QED  BY <1>1, <1>2, <2>1
<1>6. EmptyTree \in Shapes
    <2>1. EmptyTree \in [{} -> E] /\ {} \in SUBSET AllPaths
        BY DEF EmptyTree
    <2>. QED  BY <1>0, <2>1
<1>. QED  BY <1>3, <1>4, <1>5, <1>6 DEF E

\* A member read for its name.
LEMMA BaselineTyped ==
    ASSUME NEW b \in Shapes, NEW m \in Members
    PROVE  BaselineMember(b, m) \in Shapes
<1>1. m.path \in AllPaths /\ m.entry \in TreeEntries \union {Whiteout, Opaque}
    BY DEF Members
<1>2. m.entry.kind \notin {"whiteout", "opaque"} => m.entry \in TreeEntries
    BY <1>1 DEF Whiteout, Opaque
<1>. QED  BY <1>1, <1>2, ShapesAre DEF BaselineMember, Drop

\* Reading layers goes from the first member to the last.
LEMMA BaselineIs ==
    ASSUME NEW b \in Shapes, NEW layer \in Seq(Members)
    PROVE  \E f : /\ f[0] = b /\ Baseline(b, layer) = f[Len(layer)]
                  /\ \A i \in 1..Len(layer) : f[i] = BaselineMember(f[i - 1], layer[i])
                  /\ \A i \in 0..Len(layer) : f[i] \in Shapes
<1>. DEFINE n == Len(layer)
            F == [i \in 1..n |-> [x \in Shapes |-> BaselineMember(x, layer[i])]]
            Eq(f) == f = [i \in 0..n |-> IF i = 0 THEN b ELSE BaselineMember(f[i - 1], layer[i])]
<1>1. n \in Nat
    BY LenProperties
<1>2. b \in Shapes
    OBVIOUS
<1>3. ASSUME NEW i \in 1..n, NEW x \in Shapes
      PROVE  BaselineMember(x, layer[i]) \in Shapes
    <2>1. layer[i] \in Members
        BY ElementOfSeq
    <2>. QED  BY <2>1, BaselineTyped
<1>. HIDE DEF n
<1>4. F \in [1..n -> [Shapes -> Shapes]]
    BY <1>3
<1>5. PICK g : Iterates(g, n, Shapes, b, F)
    <2>. HIDE DEF F
    <2>. QED  BY <1>1, <1>2, <1>4, Recursion
<1>6. Eq(g)
    <2>1. /\ g \in [0..n -> Shapes] /\ g[0] = b
          /\ \A i \in 1..n : g[i] = F[i][g[i - 1]]
        <3>. HIDE DEF F
        <3>. QED  BY <1>5 DEF Iterates
    <2>2. ASSUME NEW i \in 0..n, i # 0
          PROVE  g[i] = BaselineMember(g[i - 1], layer[i])
        <3>1. i \in 1..n /\ i - 1 \in 0..n
            BY <1>1, <2>2
        <3>2. g[i - 1] \in Shapes /\ g[i] = F[i][g[i - 1]]
            <4>. HIDE DEF F
            <4>. QED  BY <2>1, <3>1
        <3>3. F[i][g[i - 1]] = BaselineMember(g[i - 1], layer[i])
            BY <3>1, <3>2
        <3>. QED  BY <3>2, <3>3
    <2>3. IsFcn(g) /\ DOMAIN g = 0..n
        <3>. HIDE DEF F
        <3>. QED  BY <2>1 DEF IsFcn
    <2>. HIDE DEF F
    <2>. QED  BY <2>1, <2>2, <2>3 DEF IsFcn
<1>. DEFINE f == CHOOSE f : Eq(f)
<1>7. Eq(f)
    <2>. HIDE DEF Eq
    <2>. QED  BY <1>6
<1>8. f[0] = b /\ \A i \in 1..n : f[i] = BaselineMember(f[i - 1], layer[i])
    <2>. HIDE DEF f
    <2>1. 0 \in 0..n /\ \A i \in 1..n : i \in 0..n /\ i # 0
        BY <1>1
    <2>. QED  BY <1>7, <2>1
<1>9. \A i \in 0..n : f[i] \in Shapes
    <2>. DEFINE T == {i \in 0..n : f[i] \in Shapes}
    <2>. HIDE DEF f
    <2>1. 0 \in T
        BY <1>1, <1>2, <1>8
    <2>2. ASSUME NEW i \in 1..n, i - 1 \in T
          PROVE  i \in T
        BY <1>1, <1>3, <1>8, <2>2
    <2>3. \A i \in 0..n : i \in T
        <3>. HIDE DEF T
        <3>. QED  BY <1>1, <2>1, <2>2, StepByStep
    <2>. QED  BY <2>3
<1>10. Baseline(b, layer) = f[n]
    BY DEF Baseline, n
<1>. QED
    <2>. HIDE DEF f
    <2>1. /\ f[0] = b /\ Baseline(b, layer) = f[n]
          /\ \A i \in 1..n : f[i] = BaselineMember(f[i - 1], layer[i])
          /\ \A i \in 0..n : f[i] \in Shapes
        BY <1>8, <1>9, <1>10
    <2>. QED  BY <2>1 DEF n

-----------------------------------------------------------------------------
(* Base images. *)

\* Nothing is a clean tree.
LEMMA NothingUnpacked == EmptyTree \in CleanTrees /\ Good(EmptyTree) \in Outcomes /\ IsTree(EmptyTree)
<1>1. DOMAIN EmptyTree = {} /\ IsFcn(EmptyTree)
    BY DEF EmptyTree, IsFcn
<1>2. IsTree(EmptyTree)
    BY <1>1, FS_EmptySet, TreeIf
<1>3. Clean(EmptyTree)
    BY <1>1 DEF Clean
<1>. QED  BY <1>2, <1>3, OutcomesAre

\* A base image unpacks to a clean tree.
LEMMA LayersUnpack ==
    ASSUME NEW layers \in Seq(Seq(Members))
    PROVE  \E f : /\ f[0] = Good(EmptyTree) /\ Unpacked(layers) = f[Len(layers)]
                  /\ \A i \in 1..Len(layers) : f[i] = Apply(f[i - 1], layers[i])
                  /\ \A i \in 0..Len(layers) : f[i] \in Outcomes
<1>. DEFINE n == Len(layers)
            F == [i \in 1..n |-> [x \in Outcomes |-> Apply(x, layers[i])]]
            Eq(f) == f = [i \in 0..n |-> IF i = 0 THEN Good(EmptyTree) ELSE Apply(f[i - 1], layers[i])]
<1>1. n \in Nat
    BY LenProperties
<1>2. Good(EmptyTree) \in Outcomes
    BY NothingUnpacked
<1>3. ASSUME NEW i \in 1..n, NEW x \in Outcomes
      PROVE  Apply(x, layers[i]) \in Outcomes
    <2>1. layers[i] \in Seq(Members)
        BY ElementOfSeq
    <2>2. PICK f : /\ Apply(x, layers[i]) = f[Len(layers[i])]
                   /\ \A j \in 0..Len(layers[i]) : f[j] \in Outcomes
        BY <2>1, ApplyIs
    <2>3. Len(layers[i]) \in 0..Len(layers[i])
        BY <2>1, LenProperties
    <2>. QED  BY <2>2, <2>3
<1>. HIDE DEF n
<1>4. F \in [1..n -> [Outcomes -> Outcomes]]
    BY <1>3
<1>5. PICK g : Iterates(g, n, Outcomes, Good(EmptyTree), F)
    <2>. HIDE DEF F
    <2>. QED  BY <1>1, <1>2, <1>4, Recursion
<1>6. Eq(g)
    <2>1. /\ g \in [0..n -> Outcomes] /\ g[0] = Good(EmptyTree)
          /\ \A i \in 1..n : g[i] = F[i][g[i - 1]]
        <3>. HIDE DEF F
        <3>. QED  BY <1>5 DEF Iterates
    <2>2. ASSUME NEW i \in 0..n, i # 0
          PROVE  g[i] = Apply(g[i - 1], layers[i])
        <3>1. i \in 1..n /\ i - 1 \in 0..n
            BY <1>1, <2>2
        <3>2. g[i - 1] \in Outcomes /\ g[i] = F[i][g[i - 1]]
            <4>. HIDE DEF F
            <4>. QED  BY <2>1, <3>1
        <3>3. F[i][g[i - 1]] = Apply(g[i - 1], layers[i])
            BY <3>1, <3>2
        <3>. QED  BY <3>2, <3>3
    <2>3. IsFcn(g) /\ DOMAIN g = 0..n
        <3>. HIDE DEF F
        <3>. QED  BY <2>1 DEF IsFcn
    <2>. HIDE DEF F
    <2>. QED  BY <2>1, <2>2, <2>3 DEF IsFcn
<1>. DEFINE f == CHOOSE f : Eq(f)
<1>7. Eq(f)
    <2>. HIDE DEF Eq
    <2>. QED  BY <1>6
<1>8. f[0] = Good(EmptyTree) /\ \A i \in 1..n : f[i] = Apply(f[i - 1], layers[i])
    <2>. HIDE DEF f
    <2>1. 0 \in 0..n /\ \A i \in 1..n : i \in 0..n /\ i # 0
        BY <1>1
    <2>. QED  BY <1>7, <2>1
<1>9. \A i \in 0..n : f[i] \in Outcomes
    <2>. DEFINE T == {i \in 0..n : f[i] \in Outcomes}
    <2>. HIDE DEF f
    <2>1. 0 \in T
        BY <1>1, <1>2, <1>8
    <2>2. ASSUME NEW i \in 1..n, i - 1 \in T
          PROVE  i \in T
        BY <1>1, <1>3, <1>8, <2>2
    <2>3. \A i \in 0..n : i \in T
        <3>. HIDE DEF T
        <3>. QED  BY <1>1, <2>1, <2>2, StepByStep
    <2>. QED  BY <2>3
<1>10. Unpacked(layers) = f[n]
    BY DEF Unpacked, n
<1>. QED
    <2>. HIDE DEF f
    <2>1. /\ f[0] = Good(EmptyTree) /\ Unpacked(layers) = f[n]
          /\ \A i \in 1..n : f[i] = Apply(f[i - 1], layers[i])
          /\ \A i \in 0..n : f[i] \in Outcomes
        BY <1>8, <1>9, <1>10
    <2>. QED  BY <2>1 DEF n

\* A base image is read to a shape.
LEMMA LayersReplay ==
    ASSUME NEW layers \in Seq(Seq(Members))
    PROVE  \E f : /\ f[0] = EmptyTree /\ Replayed(layers) = f[Len(layers)]
                  /\ \A i \in 1..Len(layers) : f[i] = Baseline(f[i - 1], layers[i])
                  /\ \A i \in 0..Len(layers) : f[i] \in Shapes
<1>. DEFINE n == Len(layers)
            F == [i \in 1..n |-> [x \in Shapes |-> Baseline(x, layers[i])]]
            Eq(f) == f = [i \in 0..n |-> IF i = 0 THEN EmptyTree ELSE Baseline(f[i - 1], layers[i])]
<1>1. n \in Nat
    BY LenProperties
<1>2. EmptyTree \in Shapes
    BY ShapesAre
<1>3. ASSUME NEW i \in 1..n, NEW x \in Shapes
      PROVE  Baseline(x, layers[i]) \in Shapes
    <2>1. layers[i] \in Seq(Members)
        BY ElementOfSeq
    <2>2. PICK f : /\ Baseline(x, layers[i]) = f[Len(layers[i])]
                   /\ \A j \in 0..Len(layers[i]) : f[j] \in Shapes
        BY <2>1, BaselineIs
    <2>3. Len(layers[i]) \in 0..Len(layers[i])
        BY <2>1, LenProperties
    <2>. QED  BY <2>2, <2>3
<1>. HIDE DEF n
<1>4. F \in [1..n -> [Shapes -> Shapes]]
    BY <1>3
<1>5. PICK g : Iterates(g, n, Shapes, EmptyTree, F)
    <2>. HIDE DEF F
    <2>. QED  BY <1>1, <1>2, <1>4, Recursion
<1>6. Eq(g)
    <2>1. /\ g \in [0..n -> Shapes] /\ g[0] = EmptyTree
          /\ \A i \in 1..n : g[i] = F[i][g[i - 1]]
        <3>. HIDE DEF F
        <3>. QED  BY <1>5 DEF Iterates
    <2>2. ASSUME NEW i \in 0..n, i # 0
          PROVE  g[i] = Baseline(g[i - 1], layers[i])
        <3>1. i \in 1..n /\ i - 1 \in 0..n
            BY <1>1, <2>2
        <3>2. g[i - 1] \in Shapes /\ g[i] = F[i][g[i - 1]]
            <4>. HIDE DEF F
            <4>. QED  BY <2>1, <3>1
        <3>3. F[i][g[i - 1]] = Baseline(g[i - 1], layers[i])
            BY <3>1, <3>2
        <3>. QED  BY <3>2, <3>3
    <2>3. IsFcn(g) /\ DOMAIN g = 0..n
        <3>. HIDE DEF F
        <3>. QED  BY <2>1 DEF IsFcn
    <2>. HIDE DEF F
    <2>. QED  BY <2>1, <2>2, <2>3 DEF IsFcn
<1>. DEFINE f == CHOOSE f : Eq(f)
<1>7. Eq(f)
    <2>. HIDE DEF Eq
    <2>. QED  BY <1>6
<1>8. f[0] = EmptyTree /\ \A i \in 1..n : f[i] = Baseline(f[i - 1], layers[i])
    <2>. HIDE DEF f
    <2>1. 0 \in 0..n /\ \A i \in 1..n : i \in 0..n /\ i # 0
        BY <1>1
    <2>. QED  BY <1>7, <2>1
<1>9. \A i \in 0..n : f[i] \in Shapes
    <2>. DEFINE T == {i \in 0..n : f[i] \in Shapes}
    <2>. HIDE DEF f
    <2>1. 0 \in T
        BY <1>1, <1>2, <1>8
    <2>2. ASSUME NEW i \in 1..n, i - 1 \in T
          PROVE  i \in T
        BY <1>1, <1>3, <1>8, <2>2
    <2>3. \A i \in 0..n : i \in T
        <3>. HIDE DEF T
        <3>. QED  BY <1>1, <2>1, <2>2, StepByStep
    <2>. QED  BY <2>3
<1>10. Replayed(layers) = f[n]
    BY DEF Replayed, n
<1>. QED
    <2>. HIDE DEF f
    <2>1. /\ f[0] = EmptyTree /\ Replayed(layers) = f[n]
          /\ \A i \in 1..n : f[i] = Baseline(f[i - 1], layers[i])
          /\ \A i \in 0..n : f[i] \in Shapes
        BY <1>8, <1>9, <1>10
    <2>. QED  BY <2>1 DEF n

-----------------------------------------------------------------------------
(* Members where they lead to where they say. *)

\* What can be written at p without anything else going.
Fits(t, p, e) ==
    \/ e.kind = "dir" /\ (p \in DOMAIN t => t[p].kind \in {"dir", "link"})
    \/ e.kind = "link" /\ Below(t, p) = {}
    \/ e.kind = "file" /\ ~IsDir(t, p)

\* No link is on the way where all that is above is a directory, or missing.
LEMMA StraightUp ==
    ASSUME NEW t, IsTree(t), NEW p \in AllPaths, \A q \in Above(p) : q \in DOMAIN t => IsDir(t, q)
    PROVE  /\ Resolve(t, Front(p)) = Front(p) /\ Front(p) # NoPath
           /\ Append(Front(p), Last(p)) = p /\ Front(p) \in TreePaths
           /\ LevelsOf(Front(p)) = Above(p)
<1>1. Front(p) \in TreePaths /\ Append(Front(p), Last(p)) = p /\ p \in TreePaths /\ p # <<>>
    BY FrontAndLast DEF AllPaths
<1>2. LevelsOf(Front(p)) = Above(p)
    <2>1. LevelsOf(Front(p)) = {q \in AllPaths : IsPrefix(q, Front(p))}
        BY <1>1, LevelsAre
    <2>2. Above(p) = {q \in AllPaths : IsPrefix(q, p) /\ q # p}
        BY <1>1, LevelsAre DEF Above
    <2>3. ASSUME NEW q \in AllPaths
          PROVE  IsPrefix(q, Front(p)) <=> IsPrefix(q, p) /\ q # p
        <3>1. q \in TreePaths
            BY DEF AllPaths
        <3>2. IsPrefix(Front(p), p) /\ Len(Front(p)) = Len(p) - 1 /\ Len(p) \in Nat /\ Len(q) \in Nat
            BY <1>1, <3>1, FrontIsAbove, PathParts DEF TreePaths
        <3>3. IsPrefix(q, Front(p)) => IsPrefix(q, p) /\ Len(q) <= Len(Front(p))
            BY <1>1, <3>1, <3>2, PrefixOrder, PrefixAgrees DEF TreePaths
        <3>4. IsPrefix(q, p) /\ q # p => IsPrefix(q, Front(p))
            BY <1>1, <3>1, FrontIsAbove DEF TreePaths
        <3>. QED  BY <3>2, <3>3, <3>4
    <2>. QED  BY <2>1, <2>2, <2>3
<1>3. \A q \in LevelsOf(Front(p)) : ~IsA("link", t, q)
    <2>1. \A q \in Above(p) : q # <<>>
        BY <1>1, LevelsAre DEF Above, AllPaths
    <2>. QED  BY <1>2, <2>1 DEF IsDir, IsA
<1>4. Resolve(t, Front(p)) = Front(p)
    BY <1>1, <1>3, ResolvePlain
<1>5. Front(p) # NoPath
    BY <1>1, NoPathIsNone
<1>. QED  BY <1>1, <1>2, <1>4, <1>5

\* What fits is put where it says.
LEMMA ExtractAt ==
    ASSUME NEW t, IsTree(t), NEW p \in AllPaths, NEW e \in Storable,
           \A q \in Above(p) : IsDir(t, q), Fits(t, p, e)
    PROVE  Extract(t, [path |-> p, entry |-> e]) = Good(Put(t, p, Granted(e)))
<1>. DEFINE m == [path |-> p, entry |-> e]
            dir == Front(p)
<1>1. /\ Resolve(t, dir) = dir /\ dir # NoPath /\ Append(dir, Last(p)) = p
      /\ dir \in TreePaths /\ LevelsOf(dir) = Above(p)
    BY StraightUp
<1>2. e.kind \in {"dir", "file", "link"}
    BY EntryKinds
<1>3. MakeDirs(t, dir).ok /\ MakeDirs(t, dir).tree = t
    <2>1. MakeDirs(t, dir).ok
        BY <1>1, MadeDirs
    <2>2. LevelsOf(dir) \subseteq DOMAIN t
        <3>1. \A q \in Above(p) : q # <<>>
            BY <1>1, LevelsAre DEF AllPaths
        <3>. QED  BY <1>1, <3>1 DEF IsDir, IsA
    <2>3. /\ DOMAIN MakeDirs(t, dir).tree = DOMAIN t /\ IsFcn(MakeDirs(t, dir).tree)
          /\ \A q \in DOMAIN t : MakeDirs(t, dir).tree[q] = t[q]
        <3>1. LevelsOf(dir) \union DOMAIN t = DOMAIN t
            BY <2>2
        <3>. HIDE DEF dir
        <3>2. dir \in TreePaths
            BY <1>1
        <3>3. /\ DOMAIN MakeDirs(t, dir).tree = LevelsOf(dir) \union DOMAIN t
              /\ IsFcn(MakeDirs(t, dir).tree)
              /\ \A q \in DOMAIN t : MakeDirs(t, dir).tree[q] = t[q]
            BY <2>1, <3>2, MadeDirs
        <3>. QED  BY <3>1, <3>3
    <2>4. IsFcn(t)
        BY TreeParts
    <2>. QED  BY <2>1, <2>3, <2>4, FcnEqual
<1>4. Extract(t, m) = CASE e.kind = "dir"  -> WriteDir(t, p, e)
                        [] e.kind = "link" -> WriteLink(t, p, e)
                        [] e.kind = "file" -> WriteFile(t, p, e)
    <2>1. m.path = p /\ m.entry = e
        OBVIOUS
    <2>. HIDE DEF m, dir
    <2>. QED  BY <1>1, <1>2, <1>3, <2>1 DEF Extract, dir
<1>5. CASE e.kind = "dir"
    <2>1. WriteDir(t, p, e) = Good(Put(t, p, Granted(e)))
        BY <1>5 DEF WriteDir, Fits, Granted
    <2>. QED  BY <1>4, <1>5, <2>1
<1>6. CASE e.kind = "link"
    <2>1. Granted(e) = e /\ Below(t, p) = {}
        BY <1>6 DEF Granted, Fits
    <2>2. DOMAIN Drop(t, p) = DOMAIN t \ {p} /\ \A q \in DOMAIN t \ {p} : Drop(t, p)[q] = t[q]
        BY <2>1 DEF Drop, Without
    <2>3. Put(Drop(t, p), p, e) = Put(t, p, e)
        <3>. HIDE DEF Drop
        <3>1. DOMAIN Put(Drop(t, p), p, e) = DOMAIN t \union {p}
            <4>. DEFINE u == Drop(t, p)
            <4>1. DOMAIN u = DOMAIN t \ {p}
                BY <2>2
            <4>. HIDE DEF u
            <4>2. DOMAIN Put(u, p, e) = DOMAIN t \union {p}
                BY <4>1 DEF Put
            <4>. QED  BY <4>2 DEF u
        <3>2. DOMAIN Put(t, p, e) = DOMAIN t \union {p}
            BY PutIs
        <3>3. \A q \in DOMAIN t \union {p} : Put(Drop(t, p), p, e)[q] = IF q = p THEN e ELSE t[q]
            BY <2>2 DEF Put
        <3>4. \A q \in DOMAIN t \union {p} : Put(t, p, e)[q] = IF q = p THEN e ELSE t[q]
            BY DEF Put
        <3>5. IsFcn(Put(Drop(t, p), p, e)) /\ IsFcn(Put(t, p, e))
            BY PutIs
        <3>. QED  BY <3>1, <3>2, <3>3, <3>4, <3>5, FcnEqual
    <2>. QED  BY <1>4, <1>6, <2>1, <2>3 DEF WriteLink
<1>7. CASE e.kind = "file"
    <2>1. WriteFile(t, p, e) = Good(Put(t, p, Granted(e)))
        BY <1>7 DEF WriteFile, Fits, Granted
    <2>. QED  BY <1>4, <1>7, <2>1
<1>. QED  BY <1>2, <1>5, <1>6, <1>7

\* A whiteout takes what is at its path, and all that is below.
LEMMA WhiteoutAt ==
    ASSUME NEW t, IsTree(t), NEW p \in AllPaths, \A q \in Above(p) : q \in DOMAIN t => IsDir(t, q)
    PROVE  Extract(t, [path |-> p, entry |-> Whiteout]) = Good(Drop(t, p))
<1>. DEFINE m == [path |-> p, entry |-> Whiteout]
            dir == Front(p)
<1>1. /\ Resolve(t, dir) = dir /\ dir # NoPath /\ Append(dir, Last(p)) = p
      /\ dir \in TreePaths /\ LevelsOf(dir) = Above(p)
    BY StraightUp
<1>2. Extract(t, m) = Good(WhiteOut(t, dir, p, Whiteout))
    <2>1. m.path = p /\ m.entry = Whiteout /\ Whiteout.kind = "whiteout"
        BY DEF Whiteout
    <2>. HIDE DEF m, dir
    <2>. QED  BY <1>1, <2>1 DEF Extract, dir
<1>3. CASE Reaches(t, dir)
    BY <1>2, <1>3 DEF WhiteOut, Whiteout
<1>4. CASE ~Reaches(t, dir)
    <2>1. PICK r \in Above(p) : ~IsDir(t, r)
        BY <1>1, <1>4 DEF Reaches
    <2>2. r \in AllPaths /\ IsPrefix(r, p) /\ r # p /\ r \in TreePaths /\ p \in TreePaths
        BY AboveBelow, LevelsAre DEF Above, AllPaths
    <2>3. DOMAIN t \subseteq AllPaths /\ IsFcn(t)
        BY TreeParts
    <2>4. ASSUME NEW q \in DOMAIN t
          PROVE  ~IsPrefix(p, q)
        <3>1. SUFFICES ASSUME IsPrefix(p, q)  PROVE FALSE
            OBVIOUS
        <3>2. q \in TreePaths
            BY <2>3 DEF AllPaths
        <3>3. IsPrefix(r, q)
            BY <2>2, <3>1, <3>2, PrefixOrder DEF TreePaths
        <3>4. r # q
            BY <2>2, <3>1, <3>2, PrefixOrder, PathParts DEF TreePaths
        <3>. QED  BY <2>1, <2>2, <3>3, <3>4, TreeAbove
    <2>5. DOMAIN Drop(t, p) = DOMAIN t /\ \A q \in DOMAIN t : Drop(t, p)[q] = t[q]
        BY <2>4, DropTree
    <2>6. IsFcn(Drop(t, p))
        BY WithoutIs DEF Drop
    <2>7. Drop(t, p) = t
        BY <2>3, <2>5, <2>6, FcnEqual
    <2>. QED  BY <1>2, <1>4, <2>7 DEF WhiteOut
<1>. QED  BY <1>3, <1>4

-----------------------------------------------------------------------------
(* Layers in parts. *)

\* One part of a layer is unpacked over what the one before it has left.
LEMMA ApplyParts ==
    ASSUME NEW acc \in Outcomes, NEW l \in Seq(Members), NEW m \in Seq(Members)
    PROVE  /\ Apply(acc, l) \in Outcomes
           /\ Apply(acc, l \o m) = Apply(Apply(acc, l), m)
<1>1. Len(l) \in Nat /\ Len(m) \in Nat
    BY LenProperties
<1>2. PICK g : /\ g[0] = acc /\ Apply(acc, l) = g[Len(l)]
               /\ \A i \in 1..Len(l) : g[i] = Unpack(g[i - 1], l[i])
               /\ \A i \in 0..Len(l) : g[i] \in Outcomes
    BY ApplyIs
<1>3. Apply(acc, l) \in Outcomes
    BY <1>1, <1>2
<1>4. PICK h : /\ h[0] = Apply(acc, l) /\ Apply(Apply(acc, l), m) = h[Len(m)]
               /\ \A i \in 1..Len(m) : h[i] = Unpack(h[i - 1], m[i])
    BY <1>3, ApplyIs
<1>5. /\ l \o m \in Seq(Members) /\ Len(l \o m) = Len(l) + Len(m)
      /\ \A i \in 1..Len(l) + Len(m) : (l \o m)[i] = IF i <= Len(l) THEN l[i] ELSE m[i - Len(l)]
    BY ConcatProperties
<1>6. PICK f : /\ f[0] = acc /\ Apply(acc, l \o m) = f[Len(l \o m)]
               /\ \A i \in 1..Len(l \o m) : f[i] = Unpack(f[i - 1], (l \o m)[i])
    <2>. DEFINE k == l \o m
    <2>1. k \in Seq(Members)
        BY <1>5
    <2>. HIDE DEF k
    <2>2. PICK f : /\ f[0] = acc /\ Apply(acc, k) = f[Len(k)]
                   /\ \A i \in 1..Len(k) : f[i] = Unpack(f[i - 1], k[i])
        BY <2>1, ApplyIs
    <2>. QED  BY <2>2 DEF k
<1>7. f[Len(l)] = g[Len(l)]
    <2>. DEFINE T == {i \in 0..Len(l) : f[i] = g[i]}
    <2>1. 0 \in T
        BY <1>1, <1>2, <1>6
    <2>2. ASSUME NEW i \in 1..Len(l), i - 1 \in T
          PROVE  i \in T
        <3>1. (l \o m)[i] = l[i] /\ i \in 1..Len(l \o m)
            BY <1>1, <1>5
        <3>. QED  BY <1>1, <1>2, <1>6, <2>2, <3>1
    <2>3. \A i \in 0..Len(l) : i \in T
        <3>. HIDE DEF T
        <3>. QED  BY <1>1, <2>1, <2>2, StepByStep
    <2>. QED  BY <1>1, <2>3
<1>8. f[Len(l) + Len(m)] = h[Len(m)]
    <2>. DEFINE T == {i \in 0..Len(m) : f[Len(l) + i] = h[i]}
    <2>1. 0 \in T
        BY <1>1, <1>2, <1>4, <1>7
    <2>2. ASSUME NEW i \in 1..Len(m), i - 1 \in T
          PROVE  i \in T
        <3>1. (l \o m)[Len(l) + i] = m[i] /\ Len(l) + i \in 1..Len(l \o m)
            BY <1>1, <1>5
        <3>2. (Len(l) + i) - 1 = Len(l) + (i - 1)
            BY <1>1
        <3>3. f[Len(l) + (i - 1)] = h[i - 1]
            BY <2>2
        <3>4. f[Len(l) + i] = Unpack(h[i - 1], m[i])
            BY <1>6, <3>1, <3>2, <3>3
        <3>. QED  BY <1>1, <1>4, <3>4
    <2>3. \A i \in 0..Len(m) : i \in T
        <3>. HIDE DEF T
        <3>. QED  BY <1>1, <2>1, <2>2, StepByStep
    <2>. QED  BY <1>1, <2>3
<1>. QED  BY <1>3, <1>4, <1>5, <1>6, <1>8

\* One part of a layer is read over what the one before it has left.
LEMMA BaselineParts ==
    ASSUME NEW b \in Shapes, NEW l \in Seq(Members), NEW m \in Seq(Members)
    PROVE  /\ Baseline(b, l) \in Shapes
           /\ Baseline(b, l \o m) = Baseline(Baseline(b, l), m)
<1>1. Len(l) \in Nat /\ Len(m) \in Nat
    BY LenProperties
<1>2. PICK g : /\ g[0] = b /\ Baseline(b, l) = g[Len(l)]
               /\ \A i \in 1..Len(l) : g[i] = BaselineMember(g[i - 1], l[i])
               /\ \A i \in 0..Len(l) : g[i] \in Shapes
    BY BaselineIs
<1>3. Baseline(b, l) \in Shapes
    BY <1>1, <1>2
<1>4. PICK h : /\ h[0] = Baseline(b, l) /\ Baseline(Baseline(b, l), m) = h[Len(m)]
               /\ \A i \in 1..Len(m) : h[i] = BaselineMember(h[i - 1], m[i])
    BY <1>3, BaselineIs
<1>5. /\ l \o m \in Seq(Members) /\ Len(l \o m) = Len(l) + Len(m)
      /\ \A i \in 1..Len(l) + Len(m) : (l \o m)[i] = IF i <= Len(l) THEN l[i] ELSE m[i - Len(l)]
    BY ConcatProperties
<1>6. PICK f : /\ f[0] = b /\ Baseline(b, l \o m) = f[Len(l \o m)]
               /\ \A i \in 1..Len(l \o m) : f[i] = BaselineMember(f[i - 1], (l \o m)[i])
    <2>. DEFINE k == l \o m
    <2>1. k \in Seq(Members)
        BY <1>5
    <2>. HIDE DEF k
    <2>2. PICK f : /\ f[0] = b /\ Baseline(b, k) = f[Len(k)]
                   /\ \A i \in 1..Len(k) : f[i] = BaselineMember(f[i - 1], k[i])
        BY <2>1, BaselineIs
    <2>. QED  BY <2>2 DEF k
<1>7. f[Len(l)] = g[Len(l)]
    <2>. DEFINE T == {i \in 0..Len(l) : f[i] = g[i]}
    <2>1. 0 \in T
        BY <1>1, <1>2, <1>6
    <2>2. ASSUME NEW i \in 1..Len(l), i - 1 \in T
          PROVE  i \in T
        <3>1. (l \o m)[i] = l[i] /\ i \in 1..Len(l \o m)
            BY <1>1, <1>5
        <3>. QED  BY <1>1, <1>2, <1>6, <2>2, <3>1
    <2>3. \A i \in 0..Len(l) : i \in T
        <3>. HIDE DEF T
        <3>. QED  BY <1>1, <2>1, <2>2, StepByStep
    <2>. QED  BY <1>1, <2>3
<1>8. f[Len(l) + Len(m)] = h[Len(m)]
    <2>. DEFINE T == {i \in 0..Len(m) : f[Len(l) + i] = h[i]}
    <2>1. 0 \in T
        BY <1>1, <1>2, <1>4, <1>7
    <2>2. ASSUME NEW i \in 1..Len(m), i - 1 \in T
          PROVE  i \in T
        <3>1. (l \o m)[Len(l) + i] = m[i] /\ Len(l) + i \in 1..Len(l \o m)
            BY <1>1, <1>5
        <3>2. (Len(l) + i) - 1 = Len(l) + (i - 1)
            BY <1>1
        <3>3. f[Len(l) + (i - 1)] = h[i - 1]
            BY <2>2
        <3>4. f[Len(l) + i] = BaselineMember(h[i - 1], m[i])
            BY <1>6, <3>1, <3>2, <3>3
        <3>. QED  BY <1>1, <1>4, <3>4
    <2>3. \A i \in 0..Len(m) : i \in T
        <3>. HIDE DEF T
        <3>. QED  BY <1>1, <2>1, <2>2, StepByStep
    <2>. QED  BY <1>1, <2>3
<1>. QED  BY <1>3, <1>4, <1>5, <1>6, <1>8

\* The first i paths of a set.
Done(K, i) == {Sorted(K)[j] : j \in 1..i}

\* A tree with what e says of the paths in D.
With(t, e, D) == [q \in DOMAIN t \union D |-> IF q \in D THEN e[q] ELSE t[q]]

\* One more path at a time, what is above it before it.
LEMMA DoneIs ==
    ASSUME NEW K, K \subseteq AllPaths, IsFiniteSet(K)
    PROVE  /\ Len(Sorted(K)) \in Nat /\ DOMAIN Sorted(K) = 1..Len(Sorted(K))
           /\ Done(K, 0) = {} /\ Done(K, Len(Sorted(K))) = K
           /\ \A i \in 1..Len(Sorted(K)) :
                /\ Sorted(K)[i] \in K /\ Sorted(K)[i] \notin Done(K, i - 1)
                /\ Done(K, i) = Done(K, i - 1) \union {Sorted(K)[i]}
                /\ \A q \in K : IsPrefix(q, Sorted(K)[i]) /\ q # Sorted(K)[i] => q \in Done(K, i - 1)
                /\ \A q \in Done(K, i - 1) : q \in K /\ ~IsPrefix(Sorted(K)[i], q)
<1>. DEFINE s == Sorted(K)
            n == Len(s)
<1>1. /\ n \in Nat /\ DOMAIN s = 1..n
      /\ \A i \in 1..n : s[i] \in K
      /\ \A p \in K : \E i \in 1..n : s[i] = p
      /\ \A i, j \in 1..n : s[i] = s[j] => i = j
      /\ \A i, j \in 1..n : IsPrefix(s[i], s[j]) => i <= j
    <2>1. K \subseteq TreePaths
        BY DEF AllPaths
    <2>. QED  BY <2>1, SortedIs
<1>2. \A i : Done(K, i) = {s[j] : j \in 1..i}
    BY DEF Done
<1>. HIDE DEF s, n
<1>3. Done(K, 0) = {}
    BY <1>2
<1>4. Done(K, n) = K
    <2>1. \A p \in Done(K, n) : p \in K
        BY <1>1, <1>2
    <2>2. \A p \in K : p \in Done(K, n)
        BY <1>1, <1>2
    <2>. QED  BY <2>1, <2>2
<1>5. ASSUME NEW i \in 1..n
      PROVE  /\ s[i] \in K /\ s[i] \notin Done(K, i - 1)
             /\ Done(K, i) = Done(K, i - 1) \union {s[i]}
             /\ \A q \in K : IsPrefix(q, s[i]) /\ q # s[i] => q \in Done(K, i - 1)
             /\ \A q \in Done(K, i - 1) : q \in K /\ ~IsPrefix(s[i], q)
    <2>1. s[i] \in K
        BY <1>1
    <2>2. \A j \in 1..(i - 1) : j \in 1..n /\ j # i /\ ~(i <= j)
        BY <1>1
    <2>3. s[i] \notin Done(K, i - 1)
        BY <1>1, <1>2, <2>2
    <2>4. Done(K, i) = Done(K, i - 1) \union {s[i]}
        <3>1. \A j \in Int : j \in 1..i <=> j \in 1..(i - 1) \/ j = i
            BY <1>1
        <3>. QED  BY <1>2, <3>1
    <2>5. ASSUME NEW q \in K, IsPrefix(q, s[i]), q # s[i]
          PROVE  q \in Done(K, i - 1)
        <3>1. PICK j \in 1..n : s[j] = q
            BY <1>1
        <3>2. j <= i /\ j # i
            BY <1>1, <2>5, <3>1
        <3>3. j \in 1..(i - 1)
            BY <1>1, <3>2
        <3>. QED  BY <1>2, <3>1, <3>3
    <2>6. ASSUME NEW q \in Done(K, i - 1)
          PROVE  q \in K /\ ~IsPrefix(s[i], q)
        <3>1. PICK j \in 1..(i - 1) : q = s[j]
            BY <1>2
        <3>. QED  BY <1>1, <2>2, <3>1
    <2>. QED  BY <2>1, <2>3, <2>4, <2>5, <2>6
<1>. QED  BY <1>1, <1>3, <1>4, <1>5 DEF s, n

\* Nothing more, and one more.
LEMMA WithMore ==
    ASSUME NEW t, IsFcn(t), NEW e, NEW D
    PROVE  /\ With(t, e, {}) = t
           /\ \A p : With(t, e, D \union {p}) = Put(With(t, e, D), p, e[p])
<1>1. With(t, e, {}) = t
    BY DEF With, IsFcn
<1>2. ASSUME NEW p
      PROVE  With(t, e, D \union {p}) = Put(With(t, e, D), p, e[p])
    <2>. DEFINE u == With(t, e, D)
                v == With(t, e, D \union {p})
                w == Put(u, p, e[p])
    <2>1. /\ DOMAIN u = DOMAIN t \union D
          /\ \A q \in D : u[q] = e[q]
          /\ \A q \in DOMAIN t \ D : u[q] = t[q]
        BY DEF With
    <2>2. /\ DOMAIN v = DOMAIN t \union D \union {p} /\ IsFcn(v)
          /\ \A q \in D \union {p} : v[q] = e[q]
          /\ \A q \in DOMAIN t \ (D \union {p}) : v[q] = t[q]
        BY DEF With, IsFcn
    <2>. HIDE DEF u, v
    <2>3. DOMAIN w = DOMAIN u \union {p} /\ IsFcn(w) /\ w[p] = e[p] /\ \A q \in DOMAIN u : q # p => w[q] = u[q]
        BY DEF Put, IsFcn
    <2>. HIDE DEF w
    <2>4. DOMAIN v = DOMAIN w /\ \A q \in DOMAIN v : v[q] = w[q]
        BY <2>1, <2>2, <2>3
    <2>5. v = w
        BY <2>2, <2>3, <2>4, FcnEqual
    <2>. QED  BY <2>5 DEF u, v, w
<1>. QED  BY <1>1, <1>2

\* The members for the paths of K.
Listed(K, w) == [i \in DOMAIN Sorted(K) |-> [path |-> Sorted(K)[i], entry |-> w[Sorted(K)[i]]]]

\* They are a layer.
LEMMA ListedIs ==
    ASSUME NEW K, K \subseteq AllPaths, IsFiniteSet(K), NEW w,
           \A p \in K : w[p] \in TreeEntries \union {Whiteout, Opaque}
    PROVE  /\ Listed(K, w) \in Seq(Members) /\ Len(Listed(K, w)) = Len(Sorted(K))
           /\ \A i \in 1..Len(Sorted(K)) :
                 Listed(K, w)[i] = [path |-> Sorted(K)[i], entry |-> w[Sorted(K)[i]]]
<1>. DEFINE s == Sorted(K)
            n == Len(s)
<1>1. n \in Nat /\ DOMAIN s = 1..n /\ \A i \in 1..n : s[i] \in K
    BY DoneIs
<1>2. Listed(K, w) = [i \in 1..n |-> [path |-> s[i], entry |-> w[s[i]]]]
    BY <1>1 DEF Listed
<1>. HIDE DEF s, n
<1>3. \A i \in 1..n : [path |-> s[i], entry |-> w[s[i]]] \in Members
    BY <1>1 DEF Members
<1>4. Listed(K, w) \in [1..n -> Members]
    BY <1>2, <1>3
<1>5. Listed(K, w) \in Seq(Members) /\ Len(Listed(K, w)) = n
    BY <1>1, <1>4, FcnSeq
<1>. QED  BY <1>2, <1>5 DEF s, n

\* Unpacking members that fit puts every one where it says.
LEMMA EntriesUnpack ==
    ASSUME NEW t, IsTree(t), Clean(t), NEW K, K \subseteq AllPaths, IsFiniteSet(K),
           NEW w, \A p \in K : w[p] \in Storable /\ Fits(t, p, w[p]),
           \A p \in K : \A q \in Above(p) :
              IF q \in K THEN w[q].kind = "dir" ELSE IsDir(t, q)
    PROVE  /\ Listed(K, w) \in Seq(Members)
           /\ Apply(Good(t), Listed(K, w)) = Good(With(t, [p \in K |-> Granted(w[p])], K))
<1>. DEFINE s == Sorted(K)
            n == Len(s)
            e == [p \in K |-> Granted(w[p])]
            l == Listed(K, w)
            state(i) == With(t, e, Done(K, i))
<1>1. /\ l \in Seq(Members) /\ Len(l) = n
      /\ \A i \in 1..n : l[i] = [path |-> s[i], entry |-> w[s[i]]]
    BY ListedIs DEF TreeEntries
<1>2. n \in Nat /\ Done(K, 0) = {} /\ Done(K, n) = K
    BY DoneIs
<1>3. ASSUME NEW i \in 1..n
      PROVE  /\ s[i] \in K /\ s[i] \notin Done(K, i - 1)
             /\ Done(K, i) = Done(K, i - 1) \union {s[i]}
             /\ \A q \in K : IsPrefix(q, s[i]) /\ q # s[i] => q \in Done(K, i - 1)
             /\ \A q \in Done(K, i - 1) : q \in K /\ ~IsPrefix(s[i], q)
    BY DoneIs
<1>4. Good(t) \in Outcomes
    BY OutcomesAre
<1>5. PICK f : /\ f[0] = Good(t) /\ Apply(Good(t), l) = f[Len(l)]
               /\ \A i \in 1..Len(l) : f[i] = Unpack(f[i - 1], l[i])
               /\ \A i \in 0..Len(l) : f[i] \in Outcomes
    <2>. HIDE DEF l
    <2>. QED  BY <1>1, <1>4, ApplyIs
<1>6. IsFcn(t) /\ DOMAIN t \subseteq AllPaths
    BY TreeParts
<1>7. \A p \in K : e[p] = Granted(w[p]) /\ Granted(w[p]).kind = w[p].kind
    BY GrantedOnce
<1>. DEFINE T == {i \in 0..n : f[i] = Good(state(i))}
<1>. HIDE DEF s, n, l, e
<1>8. 0 \in T
    <2>1. 0 \in 0..n
        BY <1>2
    <2>2. state(0) = t
        BY <1>2, <1>6, WithMore
    <2>. QED  BY <1>5, <2>1, <2>2
<1>9. ASSUME NEW i \in 1..n, i - 1 \in T
      PROVE  i \in T
    <2>. DEFINE p == s[i]
                u == state(i - 1)
    <2>1. i \in 0..n /\ i - 1 \in 0..n
        BY <1>2
    <2>2. f[i - 1] = Good(u) /\ Good(u).tree = u /\ Good(u).ok
        BY <1>9, OutcomesAre
    <2>3. IsTree(u)
        <3>1. f[i - 1] \in Outcomes
            BY <1>1, <1>5, <2>1
        <3>. HIDE DEF u
        <3>. QED  BY <2>2, <3>1, OutcomesAre
    <2>4. /\ DOMAIN u = DOMAIN t \union Done(K, i - 1)
          /\ \A q \in Done(K, i - 1) : u[q] = e[q]
          /\ \A q \in DOMAIN t \ Done(K, i - 1) : u[q] = t[q]
        BY DEF With
    <2>5. /\ p \in K /\ p \notin Done(K, i - 1)
          /\ Done(K, i) = Done(K, i - 1) \union {p}
          /\ \A q \in K : IsPrefix(q, p) /\ q # p => q \in Done(K, i - 1)
          /\ \A q \in Done(K, i - 1) : q \in K /\ ~IsPrefix(p, q)
        BY <1>3
    <2>. HIDE DEF u, p
    <2>6. p \in AllPaths /\ w[p] \in Storable /\ Fits(t, p, w[p])
        BY <2>5
    <2>7. ASSUME NEW q \in Above(p)
          PROVE  IsDir(u, q)
        <3>1. q \in AllPaths /\ IsPrefix(q, p) /\ q # p
            BY <2>6, <2>7, AboveBelow, LevelsAre DEF Above, AllPaths
        <3>2. CASE q \in K
            <4>1. q \in Done(K, i - 1) /\ w[q].kind = "dir"
                BY <2>5, <2>7, <3>1, <3>2
            <4>2. q \in DOMAIN u /\ u[q] = Granted(w[q]) /\ u[q].kind = "dir"
                BY <1>7, <2>4, <3>2, <4>1
            <4>. QED  BY <4>2 DEF IsDir, IsA
        <3>3. CASE q \notin K
            <4>1. IsDir(t, q) /\ q \notin Done(K, i - 1)
                BY <2>5, <2>7, <3>3
            <4>. QED  BY <2>4, <4>1 DEF IsDir, IsA
        <3>. QED  BY <3>2, <3>3
    <2>8. Fits(u, p, w[p])
        <3>1. p \in DOMAIN u <=> p \in DOMAIN t
            BY <2>4, <2>5
        <3>2. p \in DOMAIN t => u[p] = t[p]
            BY <2>4, <2>5
        <3>3. Below(u, p) = {q \in DOMAIN u : IsPrefix(p, q) /\ q # p}
            BY <2>3, <2>6, TreeParts, AboveBelow DEF AllPaths
        <3>4. Below(t, p) = {q \in DOMAIN t : IsPrefix(p, q) /\ q # p}
            BY <1>6, <2>6, AboveBelow DEF AllPaths
        <3>5. Below(u, p) \subseteq Below(t, p)
            BY <2>4, <2>5, <3>3, <3>4
        <3>6. IsDir(u, p) <=> IsDir(t, p)
            BY <3>1, <3>2 DEF IsDir, IsA
        <3>. QED  BY <2>6, <3>1, <3>2, <3>5, <3>6 DEF Fits
    <2>9. Extract(u, [path |-> p, entry |-> w[p]]) = Good(Put(u, p, Granted(w[p])))
        BY <2>3, <2>6, <2>7, <2>8, ExtractAt
    <2>10. f[i] = Extract(u, [path |-> p, entry |-> w[p]])
        <3>1. f[i] = Unpack(f[i - 1], l[i]) /\ l[i] = [path |-> p, entry |-> w[p]]
            BY <1>1, <1>5 DEF p
        <3>. QED  BY <2>2, <3>1 DEF Unpack
    <2>11. state(i) = Put(u, p, e[p])
        <3>1. With(t, e, Done(K, i - 1) \union {p}) = Put(With(t, e, Done(K, i - 1)), p, e[p])
            BY <1>6, WithMore
        <3>. QED  BY <2>5, <3>1 DEF u
    <2>12. e[p] = Granted(w[p])
        BY <1>7, <2>5
    <2>. QED  BY <2>1, <2>9, <2>10, <2>11, <2>12
<1>10. \A i \in 0..n : i \in T
    <2>. HIDE DEF T
    <2>. QED  BY <1>2, <1>8, <1>9, StepByStep
<1>11. f[n] = Good(With(t, e, K))
    BY <1>2, <1>10
<1>12. Apply(Good(t), l) = Good(With(t, e, K))
    BY <1>1, <1>5, <1>11
<1>. QED  BY <1>1, <1>12 DEF e, l

\* Reading members puts every one where it says.
LEMMA EntriesRead ==
    ASSUME NEW b \in Shapes, NEW K, K \subseteq AllPaths, IsFiniteSet(K),
           NEW w, \A p \in K : w[p] \in Storable
    PROVE  Baseline(b, Listed(K, w)) = With(b, [p \in K |-> Bare(w[p])], K)
<1>. DEFINE s == Sorted(K)
            n == Len(s)
            e == [p \in K |-> Bare(w[p])]
            l == Listed(K, w)
            state(i) == With(b, e, Done(K, i))
<1>1. /\ l \in Seq(Members) /\ Len(l) = n
      /\ \A i \in 1..n : l[i] = [path |-> s[i], entry |-> w[s[i]]]
    BY ListedIs DEF TreeEntries
<1>2. n \in Nat /\ Done(K, 0) = {} /\ Done(K, n) = K
    BY DoneIs
<1>3. ASSUME NEW i \in 1..n
      PROVE  s[i] \in K /\ Done(K, i) = Done(K, i - 1) \union {s[i]}
    BY DoneIs
<1>4. PICK f : /\ f[0] = b /\ Baseline(b, l) = f[Len(l)]
               /\ \A i \in 1..Len(l) : f[i] = BaselineMember(f[i - 1], l[i])
    <2>. HIDE DEF l
    <2>. QED  BY <1>1, BaselineIs
<1>5. IsFcn(b)
    BY ShapesAre
<1>6. \A p \in K : e[p] = Bare(w[p])
    OBVIOUS
<1>. DEFINE T == {i \in 0..n : f[i] = state(i)}
<1>. HIDE DEF s, n, l, e
<1>7. 0 \in T
    <2>1. 0 \in 0..n
        BY <1>2
    <2>2. state(0) = b
        BY <1>2, <1>5, WithMore
    <2>. QED  BY <1>4, <2>1, <2>2
<1>8. ASSUME NEW i \in 1..n, i - 1 \in T
      PROVE  i \in T
    <2>. DEFINE p == s[i]
                u == state(i - 1)
    <2>1. i \in 0..n
        BY <1>2
    <2>2. f[i - 1] = u
        BY <1>8
    <2>3. p \in K /\ Done(K, i) = Done(K, i - 1) \union {p}
        BY <1>3
    <2>4. f[i] = BaselineMember(u, [path |-> p, entry |-> w[p]])
        BY <1>1, <1>4, <2>2
    <2>. HIDE DEF p, u
    <2>5. w[p] \in Storable /\ w[p].kind \notin {"whiteout", "opaque"}
        BY <2>3, EntryKinds
    <2>6. BaselineMember(u, [path |-> p, entry |-> w[p]]) = Put(u, p, Bare(w[p]))
        BY <2>5 DEF BaselineMember, Bare
    <2>7. state(i) = Put(u, p, e[p])
        <3>1. With(b, e, Done(K, i - 1) \union {p}) = Put(With(b, e, Done(K, i - 1)), p, e[p])
            BY <1>5, WithMore
        <3>. QED  BY <2>3, <3>1 DEF u
    <2>8. f[i] = state(i)
        BY <1>6, <2>3, <2>4, <2>6, <2>7
    <2>. QED  BY <2>1, <2>8
<1>9. \A i \in 0..n : i \in T
    <2>. HIDE DEF T
    <2>. QED  BY <1>2, <1>7, <1>8, StepByStep
<1>10. f[n] = With(b, e, K)
    BY <1>2, <1>9
<1>11. Baseline(b, l) = With(b, e, K)
    BY <1>1, <1>4, <1>10
<1>. QED  BY <1>11 DEF e, l

\* What is at the paths of K or below one of them.
Under(K) == {q \in AllPaths : \E p \in K : IsPrefix(p, q)}

\* One more path at a time.
LEMMA UnderMore ==
    ASSUME NEW t, IsFcn(t), DOMAIN t \subseteq AllPaths, NEW D
    PROVE  /\ Without(t, Under({})) = t
           /\ \A p \in AllPaths :
                Without(t, Under(D \union {p})) = Drop(Without(t, Under(D)), p)
<1>1. Without(t, Under({})) = t
    <2>1. Under({}) = {}
        BY DEF Under
    <2>2. DOMAIN t \ {} = DOMAIN t
        OBVIOUS
    <2>. QED  BY <2>1, <2>2 DEF Without, IsFcn
<1>2. ASSUME NEW p \in AllPaths
      PROVE  Without(t, Under(D \union {p})) = Drop(Without(t, Under(D)), p)
    <2>. DEFINE u == Without(t, Under(D))
                v == Without(t, Under(D \union {p}))
                B == Below(u, p) \union {p}
    <2>1. DOMAIN u = DOMAIN t \ Under(D) /\ \A q \in DOMAIN u : u[q] = t[q]
        BY DEF Without
    <2>2. DOMAIN v = DOMAIN t \ Under(D \union {p}) /\ IsFcn(v) /\ \A q \in DOMAIN v : v[q] = t[q]
        BY DEF Without, IsFcn
    <2>. HIDE DEF u, v
    <2>3. \A q \in DOMAIN u : q \in B <=> IsPrefix(p, q)
        <3>1. p \in TreePaths /\ DOMAIN u \subseteq AllPaths
            BY <2>1 DEF AllPaths
        <3>2. Below(u, p) = {q \in DOMAIN u : IsPrefix(p, q) /\ q # p}
            BY <3>1, AboveBelow
        <3>3. IsPrefix(p, p)
            BY <3>1, PrefixOrder DEF TreePaths
        <3>. QED  BY <3>2, <3>3
    <2>. HIDE DEF B
    <2>4. DOMAIN Without(u, B) = DOMAIN u \ B /\ IsFcn(Without(u, B)) /\ \A q \in DOMAIN u \ B : Without(u, B)[q] = u[q]
        BY DEF Without, IsFcn
    <2>5. DOMAIN v = DOMAIN u \ B
        <3>1. \A q \in DOMAIN t : q \in Under(D \union {p}) <=> q \in Under(D) \/ IsPrefix(p, q)
            BY DEF Under
        <3>. QED  BY <2>1, <2>2, <2>3, <3>1
    <2>6. v = Without(u, B)
        BY <2>1, <2>2, <2>4, <2>5, FcnEqual
    <2>. QED  BY <2>6 DEF u, v, B, Drop
<1>. QED  BY <1>1, <1>2

\* Whiteouts are a list like any other.
LEMMA WhiteoutsAre ==
    ASSUME NEW K, K \subseteq AllPaths, IsFiniteSet(K)
    PROVE  /\ Whiteouts(K) \in Seq(Members) /\ Len(Whiteouts(K)) = Len(Sorted(K))
           /\ \A i \in 1..Len(Sorted(K)) : Whiteouts(K)[i] = [path |-> Sorted(K)[i], entry |-> Whiteout]
<1>. DEFINE w == [p \in K |-> Whiteout]
<1>1. \A p \in K : w[p] = Whiteout
    OBVIOUS
<1>2. DOMAIN Sorted(K) = 1..Len(Sorted(K)) /\ \A i \in 1..Len(Sorted(K)) : Sorted(K)[i] \in K
    BY DoneIs
<1>. HIDE DEF w
<1>3. Whiteouts(K) = Listed(K, w)
    BY <1>1, <1>2 DEF Whiteouts, Listed
<1>4. \A p \in K : w[p] \in TreeEntries \union {Whiteout, Opaque}
    BY <1>1
<1>5. /\ Listed(K, w) \in Seq(Members) /\ Len(Listed(K, w)) = Len(Sorted(K))
      /\ \A i \in 1..Len(Sorted(K)) : Listed(K, w)[i] = [path |-> Sorted(K)[i], entry |-> w[Sorted(K)[i]]]
    BY <1>4, ListedIs
<1>. QED  BY <1>1, <1>2, <1>3, <1>5

\* Unpacking whiteouts that no link leads elsewhere takes what is under them.
LEMMA WhiteoutsUnpack ==
    ASSUME NEW t, IsTree(t), Clean(t), NEW K, K \subseteq AllPaths, IsFiniteSet(K),
           \A p \in K : \A q \in Above(p) : q \in DOMAIN t => IsDir(t, q)
    PROVE  Apply(Good(t), Whiteouts(K)) = Good(Without(t, Under(K)))
<1>. DEFINE s == Sorted(K)
            n == Len(s)
            l == Whiteouts(K)
            state(i) == Without(t, Under(Done(K, i)))
<1>1. /\ l \in Seq(Members) /\ Len(l) = n
      /\ \A i \in 1..n : l[i] = [path |-> s[i], entry |-> Whiteout]
    BY WhiteoutsAre
<1>2. n \in Nat /\ Done(K, 0) = {} /\ Done(K, n) = K
    BY DoneIs
<1>3. ASSUME NEW i \in 1..n
      PROVE  s[i] \in K /\ Done(K, i) = Done(K, i - 1) \union {s[i]}
    BY DoneIs
<1>4. Good(t) \in Outcomes
    BY OutcomesAre
<1>5. PICK f : /\ f[0] = Good(t) /\ Apply(Good(t), l) = f[Len(l)]
               /\ \A i \in 1..Len(l) : f[i] = Unpack(f[i - 1], l[i])
               /\ \A i \in 0..Len(l) : f[i] \in Outcomes
    <2>. HIDE DEF l
    <2>. QED  BY <1>1, <1>4, ApplyIs
<1>6. IsFcn(t) /\ DOMAIN t \subseteq AllPaths
    BY TreeParts
<1>. DEFINE T == {i \in 0..n : f[i] = Good(state(i))}
<1>. HIDE DEF s, n, l
<1>7. 0 \in T
    <2>1. 0 \in 0..n
        BY <1>2
    <2>2. state(0) = t
        BY <1>2, <1>6, UnderMore
    <2>. QED  BY <1>5, <2>1, <2>2
<1>8. ASSUME NEW i \in 1..n, i - 1 \in T
      PROVE  i \in T
    <2>. DEFINE p == s[i]
                u == state(i - 1)
    <2>1. i \in 0..n /\ i - 1 \in 0..n
        BY <1>2
    <2>2. f[i - 1] = Good(u) /\ Good(u).tree = u /\ Good(u).ok
        BY <1>8, OutcomesAre
    <2>3. IsTree(u)
        <3>1. f[i - 1] \in Outcomes
            BY <1>1, <1>5, <2>1
        <3>. HIDE DEF u
        <3>. QED  BY <2>2, <3>1, OutcomesAre
    <2>4. DOMAIN u \subseteq DOMAIN t /\ \A q \in DOMAIN u : u[q] = t[q]
        BY DEF Without
    <2>5. p \in K /\ Done(K, i) = Done(K, i - 1) \union {p}
        BY <1>3
    <2>. HIDE DEF u, p
    <2>6. p \in AllPaths /\ \A q \in Above(p) : q \in DOMAIN u => IsDir(u, q)
        BY <2>4, <2>5 DEF IsDir, IsA
    <2>7. Extract(u, [path |-> p, entry |-> Whiteout]) = Good(Drop(u, p))
        BY <2>3, <2>6, WhiteoutAt
    <2>8. f[i] = Extract(u, [path |-> p, entry |-> Whiteout])
        <3>1. f[i] = Unpack(f[i - 1], l[i]) /\ l[i] = [path |-> p, entry |-> Whiteout]
            BY <1>1, <1>5 DEF p
        <3>. QED  BY <2>2, <3>1 DEF Unpack
    <2>9. state(i) = Drop(u, p)
        <3>1. Without(t, Under(Done(K, i - 1) \union {p})) = Drop(Without(t, Under(Done(K, i - 1))), p)
            BY <1>6, <2>6, UnderMore
        <3>. QED  BY <2>5, <3>1 DEF u
    <2>. QED  BY <2>1, <2>7, <2>8, <2>9
<1>9. \A i \in 0..n : i \in T
    <2>. HIDE DEF T
    <2>. QED  BY <1>2, <1>7, <1>8, StepByStep
<1>10. f[n] = Good(Without(t, Under(K)))
    BY <1>2, <1>9
<1>11. Apply(Good(t), l) = Good(Without(t, Under(K)))
    BY <1>1, <1>5, <1>10
<1>. QED  BY <1>11 DEF l

\* Reading whiteouts takes what is under them.
LEMMA WhiteoutsRead ==
    ASSUME NEW b \in Shapes, NEW K, K \subseteq AllPaths, IsFiniteSet(K)
    PROVE  Baseline(b, Whiteouts(K)) = Without(b, Under(K))
<1>. DEFINE s == Sorted(K)
            n == Len(s)
            l == Whiteouts(K)
            state(i) == Without(b, Under(Done(K, i)))
<1>1. /\ l \in Seq(Members) /\ Len(l) = n
      /\ \A i \in 1..n : l[i] = [path |-> s[i], entry |-> Whiteout]
    BY WhiteoutsAre
<1>2. n \in Nat /\ Done(K, 0) = {} /\ Done(K, n) = K
    BY DoneIs
<1>3. ASSUME NEW i \in 1..n
      PROVE  s[i] \in K /\ Done(K, i) = Done(K, i - 1) \union {s[i]}
    BY DoneIs
<1>4. PICK f : /\ f[0] = b /\ Baseline(b, l) = f[Len(l)]
               /\ \A i \in 1..Len(l) : f[i] = BaselineMember(f[i - 1], l[i])
    <2>. HIDE DEF l
    <2>. QED  BY <1>1, BaselineIs
<1>5. IsFcn(b) /\ DOMAIN b \subseteq AllPaths
    BY ShapesAre
<1>. DEFINE T == {i \in 0..n : f[i] = state(i)}
<1>. HIDE DEF s, n, l
<1>6. 0 \in T
    <2>1. 0 \in 0..n
        BY <1>2
    <2>2. state(0) = b
        BY <1>2, <1>5, UnderMore
    <2>. QED  BY <1>4, <2>1, <2>2
<1>7. ASSUME NEW i \in 1..n, i - 1 \in T
      PROVE  i \in T
    <2>. DEFINE p == s[i]
                u == state(i - 1)
    <2>1. i \in 0..n
        BY <1>2
    <2>2. f[i - 1] = u
        BY <1>7
    <2>3. p \in K /\ Done(K, i) = Done(K, i - 1) \union {p}
        BY <1>3
    <2>4. f[i] = BaselineMember(u, [path |-> p, entry |-> Whiteout])
        BY <1>1, <1>4, <2>2
    <2>. HIDE DEF p, u
    <2>5. BaselineMember(u, [path |-> p, entry |-> Whiteout]) = Drop(u, p)
        BY DEF BaselineMember, Whiteout
    <2>6. state(i) = Drop(u, p)
        <3>1. Without(b, Under(Done(K, i - 1) \union {p})) = Drop(Without(b, Under(Done(K, i - 1))), p)
            BY <1>5, <2>3, UnderMore
        <3>. QED  BY <2>3, <3>1 DEF u
    <2>. QED  BY <2>1, <2>4, <2>5, <2>6
<1>8. \A i \in 0..n : i \in T
    <2>. HIDE DEF T
    <2>. QED  BY <1>2, <1>6, <1>7, StepByStep
<1>9. f[n] = Without(b, Under(K))
    BY <1>2, <1>8
<1>10. Baseline(b, l) = Without(b, Under(K))
    BY <1>1, <1>4, <1>9
<1>. QED  BY <1>10 DEF l

-----------------------------------------------------------------------------
(* The layer of a RUN. *)

\* A tree as `diff` sees it.
Coarse(t) == [p \in DOMAIN t |-> Bare(t[p])]

\* It does not see the modes unpacking grants.
LEMMA CoarseIs ==
    /\ \A t : DOMAIN Coarse(t) = DOMAIN t /\ IsFcn(Coarse(t)) /\ \A p \in DOMAIN t : Coarse(t)[p] = Bare(t[p])
    /\ \A t : IsTree(t) => Coarse(t) \in Shapes
    /\ \A e \in Storable : Bare(Granted(e)) = Bare(e)
<1>1. ASSUME NEW t
      PROVE  DOMAIN Coarse(t) = DOMAIN t /\ IsFcn(Coarse(t)) /\ \A p \in DOMAIN t : Coarse(t)[p] = Bare(t[p])
    BY DEF Coarse, IsFcn
<1>2. ASSUME NEW t, IsTree(t)
      PROVE  Coarse(t) \in Shapes
    <2>1. DOMAIN t \subseteq AllPaths /\ \A p \in DOMAIN t : t[p] \in TreeEntries
        BY <1>2, TreeParts
    <2>2. \A p \in DOMAIN t : Bare(t[p]) \in TreeEntries \union {[kind |-> "dir"]}
        BY <2>1 DEF Bare
    <2>. DEFINE E == TreeEntries \union {[kind |-> "dir"]}
    <2>. HIDE DEF E
    <2>3. Coarse(t) \in [DOMAIN t -> E]
        BY <2>2 DEF Coarse, E
    <2>4. DOMAIN t \in SUBSET AllPaths
        BY <2>1
    <2>5. Shapes = UNION {[D -> E] : D \in SUBSET AllPaths}
        BY DEF Shapes, E
    <2>. QED  BY <2>3, <2>4, <2>5
<1>3. ASSUME NEW e \in Storable
      PROVE  Bare(Granted(e)) = Bare(e)
    BY DEF Granted, Bare, Dir
<1>. QED  BY <1>1, <1>2, <1>3

\* The entries of a RUN's layer are a list of what is on disk.
LEMMA DiffTyped ==
    ASSUME NEW live, IsTree(live), NEW packed, NEW gone, gone \subseteq AllPaths, IsFiniteSet(gone)
    PROVE  /\ packed \intersect DOMAIN Snapshot(live) \subseteq AllPaths
           /\ IsFiniteSet(packed \intersect DOMAIN Snapshot(live))
           /\ OnDisk(live, packed) = Listed(packed \intersect DOMAIN Snapshot(live), live)
           /\ OnDisk(live, packed) \in Seq(Members) /\ Whiteouts(gone) \in Seq(Members)
           /\ PackDiff(live, packed, gone) \in Seq(Members)
<1>. DEFINE K == packed \intersect DOMAIN Snapshot(live)
<1>1. IsTree(Snapshot(live))
    BY SnapshotIs
<1>2. K \subseteq AllPaths /\ IsFiniteSet(K)
    <2>1. DOMAIN Snapshot(live) \subseteq AllPaths /\ IsFiniteSet(DOMAIN Snapshot(live))
        BY <1>1, TreeParts
    <2>. QED  BY <2>1, FS_Subset
<1>3. \A p \in K : live[p] \in TreeEntries \union {Whiteout, Opaque}
    BY SnapshotIs DEF TreeEntries
<1>4. OnDisk(live, packed) = Listed(K, live)
    BY DEF OnDisk, Listed
<1>. HIDE DEF K
<1>5. Listed(K, live) \in Seq(Members)
    BY <1>2, <1>3, ListedIs
<1>6. Whiteouts(gone) \in Seq(Members)
    BY WhiteoutsAre
<1>7. PackDiff(live, packed, gone) \in Seq(Members)
    BY <1>4, <1>5, <1>6, ConcatProperties DEF PackDiff
<1>. QED  BY <1>2, <1>4, <1>5, <1>6, <1>7 DEF K

\* Where nothing is retyped, what a RUN packs unpacks over the tree before to the
\* tree after, and `diff` takes it for that.
THEOREM DiffPacked ==
    ASSUME NEW live, IsTree(live), NEW b, IsTree(b), Snapshot(b) = b,
           NEW a, a = Snapshot(live), ~Retyped(b, a),
           NEW l, l = PackDiff(live, Added(b, a) \union Modified(b, a), Deleted(b, a))
    PROVE  /\ Apply(Good(AsUnpacked(b)), l) = Good(AsUnpacked(live))
           /\ Baseline(Coarse(AsUnpacked(b)), l) = Coarse(AsUnpacked(live))
<1>. DEFINE K == (Added(b, a) \union Modified(b, a)) \intersect DOMAIN a
            D == Deleted(b, a)
            t == AsUnpacked(b)
            v == AsUnpacked(live)
            e == [p \in K |-> Granted(live[p])]
            g == [p \in K |-> Bare(live[p])]
            w == With(t, e, K)
            x == With(Coarse(t), g, K)
<1>1. /\ K = {p \in DOMAIN a : p \in DOMAIN b => a[p] # b[p]}
      /\ D = DOMAIN b \ DOMAIN a
    BY DEF Added, Modified, Deleted
<1>2. /\ IsTree(a) /\ IsFcn(a) /\ DOMAIN a = {p \in DOMAIN live : live[p] # Special}
      /\ \A p \in DOMAIN a : a[p] = live[p] /\ live[p] \in Storable
    BY SnapshotIs
<1>3. \A p \in DOMAIN b : b[p] \in Storable
    BY SnapshotIs
<1>4. /\ IsTree(t) /\ Clean(t) /\ IsFcn(t) /\ DOMAIN t = DOMAIN b
      /\ \A p \in DOMAIN b : t[p] = Granted(b[p]) /\ t[p].kind = b[p].kind
    <2>1. DOMAIN b = {p \in DOMAIN b : b[p] # Special}
        BY <1>3, EntryKinds
    <2>2. /\ IsTree(t) /\ Clean(t) /\ IsFcn(t) /\ DOMAIN t = DOMAIN b
          /\ \A p \in DOMAIN b : t[p] = Granted(b[p])
        BY <2>1, UnpackedIs
    <2>. HIDE DEF t
    <2>. QED  BY <1>3, <2>2, GrantedOnce
<1>5. /\ IsTree(v) /\ IsFcn(v) /\ DOMAIN v = DOMAIN a
      /\ \A p \in DOMAIN a : v[p] = Granted(a[p])
    BY <1>2, UnpackedIs
<1>6. DOMAIN a \subseteq AllPaths /\ DOMAIN b \subseteq AllPaths /\ IsFiniteSet(DOMAIN a) /\ IsFiniteSet(DOMAIN b)
    BY <1>2, TreeParts
<1>7. K \subseteq AllPaths /\ IsFiniteSet(K) /\ D \subseteq AllPaths /\ IsFiniteSet(D)
    BY <1>1, <1>6, FS_Subset
<1>8. l = Listed(K, live) \o Whiteouts(D) /\ Listed(K, live) \in Seq(Members) /\ Whiteouts(D) \in Seq(Members)
    BY <1>7, DiffTyped DEF PackDiff
<1>9. \A p, q : p \in AllPaths /\ q \in Above(p) => q \in AllPaths /\ IsPrefix(q, p) /\ q # p /\ q # <<>>
    BY <1>6, AboveBelow DEF AllPaths
<1>10. \A p \in DOMAIN a : \A q \in Above(p) : q \in DOMAIN a /\ a[q].kind = "dir"
    BY <1>2, <1>6, <1>9 DEF IsTree, IsDir, IsA
<1>11. \A p \in DOMAIN b : \A q \in Above(p) : q \in DOMAIN b /\ b[q].kind = "dir"
    BY <1>6, <1>9 DEF IsTree, IsDir, IsA
<1>12. \A p \in DOMAIN a \intersect DOMAIN b :
          /\ b[p].kind = "dir"  => a[p].kind \in {"dir", "link"}
          /\ b[p].kind = "file" => a[p].kind \in {"file", "link"}
          /\ b[p].kind = "dir" /\ a[p].kind = "link" => Below(b, p) = {}
    <2>1. \A p \in DOMAIN a \intersect DOMAIN b :
              a[p].kind \in {"dir", "file", "link"} /\ b[p].kind \in {"dir", "file", "link"}
        BY <1>2, <1>3, EntryKinds
    <2>. QED  BY <2>1 DEF Retyped, IsA
<1>. HIDE DEF K, D, t, v
<1>13. \A p \in K : live[p] \in Storable /\ Fits(t, p, live[p])
    <2>. SUFFICES ASSUME NEW p \in K
                  PROVE  live[p] \in Storable /\ Fits(t, p, live[p])
        OBVIOUS
    <2>1. p \in DOMAIN a /\ a[p] = live[p] /\ live[p] \in Storable /\ p \in AllPaths
        BY <1>1, <1>2, <1>7
    <2>2. live[p].kind \in {"dir", "file", "link"}
        BY <2>1, EntryKinds
    <2>3. p # <<>> /\ p \in TreePaths
        BY <2>1 DEF AllPaths
    <2>4. CASE live[p].kind = "dir"
        <3>1. p \in DOMAIN b => b[p].kind \in {"dir", "link"}
            BY <1>3, <1>12, <2>1, <2>4, EntryKinds
        <3>. QED  BY <1>4, <2>1, <2>4, <3>1 DEF Fits
    <2>5. CASE live[p].kind = "file"
        <3>1. ~IsDir(t, p)
            BY <1>4, <1>12, <2>1, <2>3, <2>5 DEF IsDir, IsA
        <3>. QED  BY <2>1, <2>5, <3>1 DEF Fits
    <2>6. CASE live[p].kind = "link"
        <3>1. CASE IsDir(b, p)
            <4>1. p \in DOMAIN b /\ b[p].kind = "dir"
                BY <2>3, <3>1 DEF IsDir, IsA
            <4>2. Below(b, p) = {}
                BY <1>12, <2>1, <2>6, <4>1
            <4>. QED  BY <1>4, <2>1, <2>6, <4>2 DEF Fits, Below
        <3>2. CASE ~IsDir(b, p)
            <4>1. Below(b, p) = {}
                BY <2>3, <3>2, TreeLeaf
            <4>. QED  BY <1>4, <2>1, <2>6, <4>1 DEF Fits, Below
        <3>. QED  BY <3>1, <3>2
    <2>. QED  BY <2>1, <2>2, <2>4, <2>5, <2>6
<1>14. \A p \in K : \A q \in Above(p) : IF q \in K THEN live[q].kind = "dir" ELSE IsDir(t, q)
    <2>. SUFFICES ASSUME NEW p \in K, NEW q \in Above(p)
                  PROVE  IF q \in K THEN live[q].kind = "dir" ELSE IsDir(t, q)
        OBVIOUS
    <2>1. q \in DOMAIN a /\ a[q].kind = "dir" /\ a[q] = live[q]
        BY <1>1, <1>2, <1>10
    <2>2. q \notin K => q \in DOMAIN b /\ b[q] = a[q]
        BY <1>1, <2>1
    <2>. QED  BY <1>4, <2>1, <2>2 DEF IsDir, IsA
<1>15. Apply(Good(t), Listed(K, live)) = Good(w)
    BY <1>4, <1>7, <1>13, <1>14, EntriesUnpack
<1>16. /\ DOMAIN w = DOMAIN b \union K /\ IsFcn(w)
       /\ \A q \in K : w[q] = Granted(a[q])
       /\ \A q \in DOMAIN b \ K : w[q] = Granted(b[q])
    <2>1. /\ DOMAIN w = DOMAIN b \union K /\ IsFcn(w)
          /\ \A q \in K : w[q] = Granted(live[q])
          /\ \A q \in DOMAIN b \ K : w[q] = Granted(b[q])
        BY <1>4 DEF With, IsFcn
    <2>. HIDE DEF w
    <2>2. \A q \in K : a[q] = live[q]
        BY <1>1, <1>2
    <2>. QED  BY <2>1, <2>2
<1>17. Good(t) \in Outcomes /\ IsTree(w) /\ Clean(w)
    <2>1. Good(t) \in Outcomes
        BY <1>4, OutcomesAre
    <2>2. Good(w) \in Outcomes
        BY <1>8, <1>15, <2>1, ApplyParts
    <2>. HIDE DEF w
    <2>. QED  BY <2>1, <2>2, OutcomesAre
<1>18. \A p \in D : \A q \in Above(p) : q \in DOMAIN w => IsDir(w, q)
    <2>. HIDE DEF w
    <2>. SUFFICES ASSUME NEW p \in D, NEW q \in Above(p), q \in DOMAIN w
                  PROVE  IsDir(w, q)
        OBVIOUS
    <2>1. p \in DOMAIN b /\ p \in AllPaths /\ q \in DOMAIN b /\ b[q].kind = "dir"
        BY <1>1, <1>6, <1>11
    <2>2. p \in Below(b, q)
        <3>1. q \in TreePaths /\ IsPrefix(q, p) /\ q # p
            BY <1>9, <2>1 DEF AllPaths
        <3>. QED  BY <1>6, <2>1, <3>1, AboveBelow
    <2>3. CASE q \in K
        <3>1. q \in DOMAIN a /\ a[q].kind = "dir"
            BY <1>1, <1>12, <2>1, <2>2, <2>3
        <3>2. w[q].kind = "dir"
            BY <1>2, <1>16, <2>3, <3>1, GrantedOnce
        <3>. QED  BY <3>2 DEF IsDir, IsA
    <2>4. CASE q \notin K
        <3>1. w[q].kind = "dir"
            BY <1>3, <1>16, <2>1, <2>4, GrantedOnce
        <3>. QED  BY <3>1 DEF IsDir, IsA
    <2>. QED  BY <2>3, <2>4
<1>19. Apply(Good(w), Whiteouts(D)) = Good(Without(w, Under(D)))
    <2>. HIDE DEF w
    <2>. QED  BY <1>7, <1>17, <1>18, WhiteoutsUnpack
<1>20. (DOMAIN b \union K) \ Under(D) = DOMAIN a
    <2>1. ASSUME NEW q \in (DOMAIN b \union K) \ Under(D)
          PROVE  q \in DOMAIN a
        <3>1. CASE q \in D
            <4>1. q \in AllPaths /\ IsPrefix(q, q)
                BY <1>7, <3>1, PrefixOrder DEF AllPaths, TreePaths
            <4>. QED  BY <2>1, <3>1, <4>1 DEF Under
        <3>. QED  BY <1>1, <2>1, <3>1
    <2>2. ASSUME NEW q \in DOMAIN a
          PROVE  q \in (DOMAIN b \union K) \ Under(D)
        <3>1. ASSUME NEW p \in D, IsPrefix(p, q)
              PROVE  FALSE
            <4>1. p \in DOMAIN b /\ p \notin DOMAIN a /\ p # q /\ p \in AllPaths /\ q \in AllPaths
                BY <1>1, <1>6, <2>2
            <4>2. p \in Above(q)
                BY <1>6, <3>1, <4>1, AboveBelow
            <4>. QED  BY <1>10, <2>2, <4>1, <4>2
        <3>2. q \notin Under(D)
            BY <3>1 DEF Under
        <3>. QED  BY <1>1, <2>2, <3>2
    <2>. QED  BY <2>1, <2>2
<1>21. Without(w, Under(D)) = v
    <2>. HIDE DEF w
    <2>1. /\ DOMAIN Without(w, Under(D)) = DOMAIN a /\ IsFcn(Without(w, Under(D)))
          /\ \A q \in DOMAIN a : Without(w, Under(D))[q] = w[q]
        BY <1>16, <1>20 DEF Without, IsFcn
    <2>2. \A q \in DOMAIN a : w[q] = Granted(a[q])
        BY <1>1, <1>16, <1>20
    <2>. QED  BY <1>5, <2>1, <2>2, FcnEqual
<1>22. Apply(Good(t), l) = Good(v)
    <2>. DEFINE lk == Listed(K, live)
                ld == Whiteouts(D)
    <2>. HIDE DEF w, lk, ld
    <2>1. lk \in Seq(Members) /\ ld \in Seq(Members) /\ l = lk \o ld
        BY <1>8 DEF lk, ld
    <2>2. Apply(Good(t), lk \o ld) = Apply(Apply(Good(t), lk), ld)
        BY <1>17, <2>1, ApplyParts
    <2>3. Apply(Good(t), lk) = Good(w) /\ Apply(Good(w), ld) = Good(v)
        BY <1>15, <1>19, <1>21 DEF lk, ld
    <2>. QED  BY <2>1, <2>2, <2>3
<1>23. Coarse(t) \in Shapes
    BY <1>4, CoarseIs
<1>24. Baseline(Coarse(t), Listed(K, live)) = x
    BY <1>7, <1>13, <1>23, EntriesRead
<1>25. x \in Shapes
    BY <1>8, <1>23, <1>24, BaselineParts
<1>26. Baseline(x, Whiteouts(D)) = Without(x, Under(D))
    <2>. HIDE DEF x
    <2>. QED  BY <1>7, <1>25, WhiteoutsRead
<1>27. /\ DOMAIN x = DOMAIN b \union K /\ IsFcn(x)
       /\ \A q \in K : x[q] = Bare(a[q])
       /\ \A q \in DOMAIN b \ K : x[q] = Bare(b[q])
    <2>1. /\ DOMAIN Coarse(t) = DOMAIN b /\ \A p \in DOMAIN b : Coarse(t)[p] = Bare(b[p])
        BY <1>3, <1>4, CoarseIs
    <2>2. /\ DOMAIN x = DOMAIN b \union K /\ IsFcn(x)
          /\ \A q \in K : x[q] = Bare(live[q])
          /\ \A q \in DOMAIN b \ K : x[q] = Bare(b[q])
        BY <2>1 DEF With, IsFcn
    <2>. HIDE DEF x
    <2>3. \A q \in K : a[q] = live[q]
        BY <1>1, <1>2
    <2>. QED  BY <2>2, <2>3
<1>28. Without(x, Under(D)) = Coarse(v)
    <2>. HIDE DEF x
    <2>1. /\ DOMAIN Without(x, Under(D)) = DOMAIN a /\ IsFcn(Without(x, Under(D)))
          /\ \A q \in DOMAIN a : Without(x, Under(D))[q] = x[q]
        BY <1>20, <1>27 DEF Without, IsFcn
    <2>2. \A q \in DOMAIN a : x[q] = Bare(a[q])
        BY <1>1, <1>20, <1>27
    <2>3. DOMAIN Coarse(v) = DOMAIN a /\ IsFcn(Coarse(v)) /\ \A q \in DOMAIN a : Coarse(v)[q] = Bare(a[q])
        BY <1>2, <1>5, CoarseIs
    <2>. QED  BY <2>1, <2>2, <2>3, FcnEqual
<1>29. Baseline(Coarse(t), l) = Coarse(v)
    <2>. DEFINE lk == Listed(K, live)
                ld == Whiteouts(D)
    <2>. HIDE DEF x, lk, ld
    <2>1. lk \in Seq(Members) /\ ld \in Seq(Members) /\ l = lk \o ld
        BY <1>8 DEF lk, ld
    <2>2. Baseline(Coarse(t), lk \o ld) = Baseline(Baseline(Coarse(t), lk), ld)
        BY <1>23, <2>1, BaselineParts
    <2>3. Baseline(Coarse(t), lk) = x /\ Baseline(x, ld) = Coarse(v)
        BY <1>24, <1>26, <1>28 DEF lk, ld
    <2>. QED  BY <2>1, <2>2, <2>3
<1>. QED  BY <1>22, <1>29 DEF t, v

-----------------------------------------------------------------------------
(* The layer of a file map. *)

LevelsAbove(D) == UNION {Above(p) : p \in D}

Contents(src, m) == [p \in DOMAIN m |-> Content(src, m[p])]

\* A tree with the paths of D as c has them, in directories of mode 755.
Written(t, c, D) ==
    [q \in DOMAIN t \union LevelsAbove(D) \union D |->
        IF q \in D THEN c[q] ELSE IF q \in LevelsAbove(D) THEN Dir(755) ELSE t[q]]

\* What an entry of a map is.
LEMMA MapEntryIs ==
    ASSUME NEW src, IsTree(src), NEW e \in MapEntries
    PROVE  /\ e.kind \in {"dir", "link", "file", "from"}
           /\ e.kind = "from" => e.rel \in TreePaths
           /\ e.kind # "from" => e \in Storable /\ Content(src, e) = e /\ Readable(src, e)
           /\ Readable(src, e) =>
                /\ Content(src, e) \in Storable
                /\ Content(src, e).kind = "dir" <=> e.kind = "dir"
                /\ e.kind = "from" => Content(src, e).kind = "file"
<1>1. CASE e \in Storable
    <2>1. e.kind \in {"dir", "file", "link"}
        BY <1>1, EntryKinds
    <2>2. e.kind # "from"
        BY <2>1
    <2>3. Content(src, e) = e /\ Readable(src, e)
        BY <2>2 DEF Content, Readable
    <2>. QED  BY <1>1, <2>1, <2>2, <2>3
<1>2. CASE e \in [kind : {"from"}, rel : TreePaths]
    <2>1. e.kind = "from" /\ e.rel \in TreePaths
        BY <1>2
    <2>2. ASSUME Readable(src, e)
          PROVE  Content(src, e) \in Storable /\ Content(src, e).kind = "file"
        <3>1. IsA("file", src, e.rel) /\ Content(src, e) = src[e.rel]
            BY <2>1, <2>2 DEF Readable, Content
        <3>2. e.rel \in DOMAIN src /\ src[e.rel].kind = "file"
            BY <3>1 DEF IsA
        <3>3. src[e.rel] \in TreeEntries /\ src[e.rel] # Special
            BY <3>2, TreeParts DEF Special
        <3>. QED  BY <3>1, <3>2, <3>3, EntryKinds
    <2>. QED  BY <2>1, <2>2
<1>. QED  BY <1>1, <1>2 DEF MapEntries

\* A map says something of the paths below the root.
LEMMA MapEntriesAre ==
    ASSUME NEW m, IsMap(m), NEW p \in DOMAIN m
    PROVE  p \in AllPaths /\ m[p] \in MapEntries
BY DEF IsMap

\* What is above the paths of a set.
LEMMA LevelsAboveAre ==
    ASSUME NEW D, D \subseteq AllPaths
    PROVE  /\ LevelsAbove(D) \subseteq AllPaths
           /\ IsFiniteSet(D) => IsFiniteSet(LevelsAbove(D))
           /\ \A p \in D \union LevelsAbove(D) : Above(p) \subseteq LevelsAbove(D)
<1>1. \A p \in D : Above(p) \subseteq AllPaths
    BY LevelsAre DEF Above, AllPaths
<1>2. LevelsAbove(D) \subseteq AllPaths
    BY <1>1 DEF LevelsAbove
<1>3. ASSUME IsFiniteSet(D)
      PROVE  IsFiniteSet(LevelsAbove(D))
    <2>1. IsFiniteSet({Above(p) : p \in D})
        <3>. DEFINE S == {Above(p) : p \in D}
                    f == [p \in D |-> Above(p)]
        <3>1. f \in [D -> S] /\ \A x \in S : \E p \in D : f[p] = x
            OBVIOUS
        <3>2. f \in Surjection(D, S)
            <4>. HIDE DEF f, S
            <4>. QED  BY <3>1 DEF Surjection
        <3>. HIDE DEF f, S
        <3>3. IsFiniteSet(S)
            BY <1>3, <3>2, FS_Surjection
        <3>. QED  BY <3>3 DEF S
    <2>2. \A S \in {Above(p) : p \in D} : IsFiniteSet(S)
        <3>1. \A p \in D : IsFiniteSet(LevelsOf(p)) /\ Above(p) \subseteq LevelsOf(p)
            BY LevelsAre DEF Above, AllPaths
        <3>. QED  BY <3>1, FS_Subset
    <2>. QED  BY <2>1, <2>2, FS_UNION DEF LevelsAbove
<1>4. ASSUME NEW p \in D
      PROVE  Above(p) \subseteq LevelsAbove(D)
    BY DEF LevelsAbove
<1>5. ASSUME NEW p \in LevelsAbove(D), NEW q \in Above(p)
      PROVE  q \in LevelsAbove(D)
    <2>1. PICK r \in D : p \in Above(r)
        BY DEF LevelsAbove
    <2>2. r \in AllPaths /\ p \in AllPaths /\ q \in AllPaths
        BY <1>1, <1>2, LevelsAre DEF Above, AllPaths
    <2>3. IsPrefix(q, p) /\ q # p /\ IsPrefix(p, r) /\ p # r
        BY <2>1, <2>2, <1>5, LevelsAre DEF Above, AllPaths
    <2>4. IsPrefix(q, r) /\ q # r
        <3>1. q \in Seq(Range(Names)) /\ p \in Seq(Range(Names)) /\ r \in Seq(Range(Names))
            BY <2>2 DEF AllPaths, TreePaths
        <3>2. Len(q) < Len(p) /\ Len(p) < Len(r) /\ IsPrefix(q, r)
            BY <2>3, <3>1, PrefixOrder
        <3>. QED  BY <3>1, <3>2, LenProperties
    <2>5. q \in Above(r)
        BY <2>2, <2>4, LevelsAre DEF Above, AllPaths
    <2>. QED  BY <1>4, <2>5
<1>. QED  BY <1>2, <1>3, <1>4, <1>5

\* A file map's layer is one list of directories and one of entries.
LEMMA PackTyped ==
    ASSUME NEW src, IsTree(src), NEW m, IsMap(m)
    PROVE  /\ PackFiles(src, m) \in Seq(Members)
           /\ (\A p \in DOMAIN m : Readable(src, m[p])) =>
                /\ PackFiles(src, m) = Listed(LevelsAbove(DOMAIN m), [q \in LevelsAbove(DOMAIN m) |-> Dir(755)])
                                         \o Listed(DOMAIN m, Contents(src, m))
                /\ Listed(LevelsAbove(DOMAIN m), [q \in LevelsAbove(DOMAIN m) |-> Dir(755)]) \in Seq(Members)
                /\ Listed(DOMAIN m, Contents(src, m)) \in Seq(Members)
<1>. DEFINE L == LevelsAbove(DOMAIN m)
            d == [q \in L |-> Dir(755)]
            E == {p \in DOMAIN m : Readable(src, m[p])}
            c == Contents(src, m)
<1>1. DOMAIN m \subseteq AllPaths /\ IsFiniteSet(DOMAIN m)
    BY DEF IsMap
<1>2. L \subseteq AllPaths /\ IsFiniteSet(L)
    BY <1>1, LevelsAboveAre
<1>3. E \subseteq AllPaths /\ IsFiniteSet(E) /\ E \subseteq DOMAIN m
    BY <1>1, FS_Subset
<1>4. \A q \in L : d[q] = Dir(755) /\ Dir(755) \in Storable
    BY GrantedOnce
<1>5. \A p \in E : c[p] = Content(src, m[p]) /\ c[p] \in Storable
    BY MapEntriesAre, MapEntryIs DEF Contents
<1>6. \A i \in DOMAIN Sorted(L) : Sorted(L)[i] \in L
    BY <1>2, DoneIs
<1>7. \A i \in DOMAIN Sorted(E) : Sorted(E)[i] \in E
    BY <1>3, DoneIs
<1>8. PackFiles(src, m) = Listed(L, d) \o Listed(E, c)
    <2>. DEFINE ls == Sorted(L)
                es == Sorted(E)
                pl == [i \in DOMAIN ls |-> [path |-> ls[i], entry |-> Dir(755)]]
                pe == [i \in DOMAIN es |-> [path |-> es[i], entry |-> Content(src, m[es[i]])]]
    <2>1. PackFiles(src, m) = pl \o pe
        BY DEF PackFiles, LevelsAbove
    <2>. HIDE DEF L, d, E, c
    <2>2. pl = Listed(L, d)
        BY <1>4, <1>6 DEF Listed
    <2>3. pe = Listed(E, c)
        BY <1>5, <1>7 DEF Listed
    <2>. QED  BY <2>1, <2>2, <2>3
<1>. HIDE DEF L, d, E, c
<1>9. Listed(L, d) \in Seq(Members) /\ Listed(E, c) \in Seq(Members)
    BY <1>2, <1>3, <1>4, <1>5, ListedIs DEF TreeEntries
<1>10. PackFiles(src, m) \in Seq(Members)
    BY <1>8, <1>9, ConcatProperties
<1>11. ASSUME \A p \in DOMAIN m : Readable(src, m[p])
       PROVE  E = DOMAIN m
    BY <1>11 DEF E
<1>. QED  BY <1>8, <1>9, <1>10, <1>11 DEF L, d, c

\* Where a map goes without anything else going: no level on the way is other
\* than one the layer makes, and nothing is replaced by what it does not resist.
Placed(t, m) ==
    /\ \A q \in LevelsAbove(DOMAIN m) \ DOMAIN m : q \in DOMAIN t => t[q] = Dir(755)
    /\ \A p \in DOMAIN m : IF m[p].kind = "dir" THEN p \in DOMAIN t => t[p].kind \in {"dir", "link"}
                           ELSE ~IsDir(t, p)

\* What has been written is a tree.
LEMMA WrittenTree ==
    ASSUME NEW t, IsTree(t), NEW src, IsTree(src), NEW m, IsMap(m), PlainMap(m), Placed(t, m),
           \A p \in DOMAIN m : Readable(src, m[p])
    PROVE  IsTree(Written(t, Contents(src, m), DOMAIN m))
<1>. DEFINE L == LevelsAbove(DOMAIN m)
            c == Contents(src, m)
            D == DOMAIN m
            u == Written(t, c, D)
<1>1. D \subseteq AllPaths /\ IsFiniteSet(D)
    BY DEF IsMap
<1>2. L \subseteq AllPaths /\ IsFiniteSet(L) /\ \A p \in D \union L : Above(p) \subseteq L
    BY <1>1, LevelsAboveAre
<1>3. /\ IsFcn(t) /\ DOMAIN t \subseteq AllPaths /\ IsFiniteSet(DOMAIN t)
      /\ \A p \in DOMAIN t : t[p] \in TreeEntries
    BY TreeParts
<1>4. \A p \in D : c[p] \in Storable /\ (c[p].kind = "dir" <=> m[p].kind = "dir")
    BY MapEntriesAre, MapEntryIs DEF Contents
<1>5. Dir(755) \in TreeEntries /\ Dir(755).kind = "dir"
    BY EntryKinds DEF TreeEntries
<1>. HIDE DEF L, c, D
<1>6. /\ DOMAIN u = DOMAIN t \union L \union D /\ IsFcn(u)
      /\ \A q \in D : u[q] = c[q]
      /\ \A q \in L \ D : u[q] = Dir(755)
      /\ \A q \in DOMAIN t \ (D \union L) : u[q] = t[q]
    <2>1. u = [q \in DOMAIN t \union L \union D |->
                 IF q \in D THEN c[q] ELSE IF q \in L THEN Dir(755) ELSE t[q]]
        BY DEF Written, L, D
    <2>. HIDE DEF u
    <2>. QED  BY <2>1 DEF IsFcn
<1>. HIDE DEF u
<1>7. DOMAIN u \subseteq AllPaths /\ IsFiniteSet(DOMAIN u)
    <2>1. IsFiniteSet(DOMAIN t \union L)
        BY <1>2, <1>3, FS_Union
    <2>2. IsFiniteSet((DOMAIN t \union L) \union D)
        BY <1>1, <2>1, FS_Union
    <2>. QED  BY <1>1, <1>2, <1>3, <1>6, <2>2
<1>8. \A p \in DOMAIN u : u[p] \in TreeEntries
    BY <1>3, <1>4, <1>5, <1>6 DEF TreeEntries
<1>9. ASSUME NEW q \in DOMAIN u, NEW r \in AllPaths, IsPrefix(r, q), r # q
      PROVE  IsDir(u, r)
    <2>1. q \in AllPaths /\ r \in Above(q)
        BY <1>7, <1>9, LevelsAre DEF Above, AllPaths
    <2>2. CASE r \in D
        <3>1. m[r].kind = "dir"
            <4>1. CASE q \in D \union L
                <5>1. PICK p \in D : r \in Above(p)
                    BY <1>2, <2>1, <4>1 DEF LevelsAbove, L, D
                <5>. QED  BY <2>2, <5>1 DEF PlainMap, D
            <4>2. CASE q \in DOMAIN t
                <5>1. IsDir(t, r)
                    BY <1>9, <4>2, TreeAbove DEF AllPaths
                <5>. QED  BY <2>2, <5>1 DEF Placed, D
            <4>. QED  BY <1>6, <4>1, <4>2
        <3>2. u[r].kind = "dir"
            BY <1>4, <1>6, <2>2, <3>1
        <3>. QED  BY <1>6, <2>2, <3>2 DEF IsDir, IsA
    <2>3. CASE r \in L \ D
        BY <1>5, <1>6, <2>3 DEF IsDir, IsA
    <2>4. CASE r \notin D \union L
        <3>1. q \in DOMAIN t
            BY <1>2, <1>6, <2>1, <2>4
        <3>2. IsDir(t, r) /\ r # <<>>
            BY <1>9, <3>1, TreeAbove DEF AllPaths
        <3>. QED  BY <1>6, <2>4, <3>2 DEF IsDir, IsA
    <2>. QED  BY <2>2, <2>3, <2>4
<1>10. IsTree(u)
    BY <1>6, <1>7, <1>8, <1>9, TreeIf
<1>. QED  BY <1>10 DEF u, c, D

\* What a map packs unpacks over the tree before to the tree with the map
\* written, and `diff` takes it for that.
THEOREM MapPacked ==
    ASSUME NEW t, IsTree(t), NEW src, IsTree(src), NEW m, IsMap(m), PlainMap(m), Placed(t, m),
           \A p \in DOMAIN m : Readable(src, m[p]),
           NEW v, v = AsUnpacked(Written(t, Contents(src, m), DOMAIN m))
    PROVE  /\ Apply(Good(AsUnpacked(t)), PackFiles(src, m)) = Good(v)
           /\ Baseline(Coarse(AsUnpacked(t)), PackFiles(src, m)) = Coarse(v)
<1>. DEFINE L == LevelsAbove(DOMAIN m)
            c == Contents(src, m)
            D == DOMAIN m
            d == [q \in L |-> Dir(755)]
            b == AsUnpacked(t)
            u == Written(t, c, D)
            w == With(b, [q \in L |-> Granted(d[q])], L)
            x == With(w, [q \in D |-> Granted(c[q])], D)
            wb == With(Coarse(b), [q \in L |-> Bare(d[q])], L)
            xb == With(wb, [q \in D |-> Bare(c[q])], D)
            ld == Listed(L, d)
            le == Listed(D, c)
<1>1. D \subseteq AllPaths /\ IsFiniteSet(D)
    BY DEF IsMap
<1>2. L \subseteq AllPaths /\ IsFiniteSet(L) /\ \A p \in D \union L : Above(p) \subseteq L
    BY <1>1, LevelsAboveAre
<1>3. \A p \in D : c[p] \in Storable /\ (c[p].kind = "dir" <=> m[p].kind = "dir")
    BY MapEntriesAre, MapEntryIs DEF Contents
<1>4. Dir(755) \in Storable /\ Dir(755).kind = "dir" /\ Granted(Dir(755)) = Dir(755)
    BY EntryKinds, GrantedOnce
<1>5. \A q \in L : d[q] = Dir(755)
    OBVIOUS
<1>6. PackFiles(src, m) = ld \o le /\ ld \in Seq(Members) /\ le \in Seq(Members)
    BY PackTyped
<1>7. /\ IsTree(b) /\ Clean(b) /\ IsFcn(b) /\ DOMAIN b = {p \in DOMAIN t : t[p] # Special}
      /\ \A p \in DOMAIN b : b[p] = Granted(t[p]) /\ t[p] \in Storable /\ b[p].kind = t[p].kind
    <2>1. /\ IsTree(b) /\ Clean(b) /\ IsFcn(b) /\ DOMAIN b = {p \in DOMAIN t : t[p] # Special}
          /\ \A p \in DOMAIN b : b[p] = Granted(t[p]) /\ t[p] \in Storable
        BY UnpackedIs
    <2>. HIDE DEF b
    <2>. QED  BY <2>1, GrantedOnce
<1>. HIDE DEF L, c, D, d, b
<1>8. /\ \A q \in L \ D : q \in DOMAIN t => t[q] = Dir(755)
      /\ \A p \in D : IF m[p].kind = "dir" THEN p \in DOMAIN t => t[p].kind \in {"dir", "link"}
                      ELSE ~IsDir(t, p)
    BY DEF Placed, L, D
<1>9. \A q \in L \intersect D : m[q].kind = "dir"
    BY DEF L, D, LevelsAbove, PlainMap
<1>10. Apply(Good(b), ld) = Good(w)
    <2>1. ASSUME NEW q \in L
          PROVE  d[q] \in Storable /\ Fits(b, q, d[q])
        <3>1. q \in DOMAIN b => b[q].kind \in {"dir", "link"}
            BY <1>4, <1>7, <1>8, <1>9, <2>1
        <3>. QED  BY <1>4, <1>5, <2>1, <3>1 DEF Fits
    <2>2. \A p \in L : \A q \in Above(p) : IF q \in L THEN d[q].kind = "dir" ELSE IsDir(b, q)
        BY <1>2, <1>4, <1>5
    <2>. HIDE DEF w
    <2>3. /\ Listed(L, d) \in Seq(Members)
          /\ Apply(Good(b), Listed(L, d)) = Good(With(b, [p \in L |-> Granted(d[p])], L))
        BY <1>2, <1>7, <2>1, <2>2, EntriesUnpack
    <2>. QED  BY <2>3 DEF w
<1>11. Good(b) \in Outcomes
    BY <1>7, OutcomesAre
<1>12. IsTree(w) /\ Clean(w)
    <2>1. Good(w) \in Outcomes
        <3>1. Apply(Good(b), ld) \in Outcomes
            <4>. HIDE DEF ld
            <4>. QED  BY <1>6, <1>11, ApplyParts
        <3>. QED  BY <1>10, <3>1
    <2>. HIDE DEF w
    <2>. QED  BY <2>1, OutcomesAre
<1>13. /\ DOMAIN w = DOMAIN b \union L /\ IsFcn(w)
       /\ \A q \in L : w[q] = Dir(755)
       /\ \A q \in DOMAIN b \ L : w[q] = b[q]
    BY <1>4, <1>5 DEF With, IsFcn
<1>14. Apply(Good(w), le) = Good(x)
    <2>. HIDE DEF w
    <2>1. ASSUME NEW p \in D
          PROVE  c[p] \in Storable /\ Fits(w, p, c[p])
        <3>1. c[p].kind \in {"dir", "file", "link"} /\ c[p] \in Storable
            BY <1>3, EntryKinds
        <3>2. CASE c[p].kind = "dir"
            <4>1. p \in DOMAIN w => w[p].kind \in {"dir", "link"}
                BY <1>3, <1>4, <1>7, <1>8, <1>13, <3>2
            <4>. QED  BY <3>1, <3>2, <4>1 DEF Fits
        <3>3. CASE c[p].kind # "dir"
            <4>1. p \notin L /\ ~IsDir(t, p)
                BY <1>3, <1>8, <1>9, <3>3
            <4>2. ~IsDir(w, p)
                BY <1>7, <1>13, <4>1 DEF IsDir, IsA
            <4>3. Below(w, p) = {}
                BY <1>1, <1>12, <4>2, TreeLeaf DEF AllPaths
            <4>. QED  BY <3>1, <3>3, <4>2, <4>3 DEF Fits
        <3>. QED  BY <3>2, <3>3
    <2>2. \A p \in D : \A q \in Above(p) : IF q \in D THEN c[q].kind = "dir" ELSE IsDir(w, q)
        <3>. SUFFICES ASSUME NEW p \in D, NEW q \in Above(p)
                      PROVE  IF q \in D THEN c[q].kind = "dir" ELSE IsDir(w, q)
            OBVIOUS
        <3>1. q \in L
            BY <1>2
        <3>. QED  BY <1>3, <1>4, <1>9, <1>13, <3>1 DEF IsDir, IsA
    <2>. HIDE DEF x
    <2>3. /\ Listed(D, c) \in Seq(Members)
          /\ Apply(Good(w), Listed(D, c)) = Good(With(w, [p \in D |-> Granted(c[p])], D))
        BY <1>1, <1>12, <2>1, <2>2, EntriesUnpack
    <2>. QED  BY <2>3 DEF x
<1>15. IsTree(u)
    BY WrittenTree DEF c, D
<1>16. /\ DOMAIN u = DOMAIN t \union L \union D
       /\ \A q \in D : u[q] = c[q]
       /\ \A q \in L \ D : u[q] = Dir(755)
       /\ \A q \in DOMAIN t \ (D \union L) : u[q] = t[q]
    BY DEF Written, L, D
<1>. HIDE DEF u
<1>17. /\ IsFcn(v) /\ DOMAIN v = {p \in DOMAIN u : u[p] # Special}
       /\ \A p \in DOMAIN v : v[p] = Granted(u[p])
    <2>1. v = AsUnpacked(u)
        BY DEF u, c, D
    <2>. QED  BY <1>15, <2>1, UnpackedIs
<1>18. DOMAIN v = DOMAIN b \union L \union D
    <2>1. \A e \in Storable : e # Special
        BY EntryKinds
    <2>. QED  BY <1>3, <1>4, <1>7, <1>16, <1>17, <2>1
<1>19. /\ \A q \in D : v[q] = Granted(c[q])
       /\ \A q \in L \ D : v[q] = Dir(755)
       /\ \A q \in DOMAIN b \ (D \union L) : v[q] = b[q]
    BY <1>4, <1>7, <1>16, <1>17, <1>18
<1>20. x = v
    <2>. HIDE DEF w
    <2>1. /\ DOMAIN x = DOMAIN w \union D /\ IsFcn(x)
          /\ \A q \in D : x[q] = Granted(c[q])
          /\ \A q \in DOMAIN w \ D : x[q] = w[q]
        BY DEF With, IsFcn
    <2>. HIDE DEF x
    <2>2. DOMAIN x = DOMAIN v
        BY <1>13, <1>18, <2>1
    <2>3. \A q \in DOMAIN v : x[q] = v[q]
        BY <1>13, <1>18, <1>19, <2>1
    <2>. QED  BY <1>17, <2>1, <2>2, <2>3, FcnEqual
<1>21. Apply(Good(b), PackFiles(src, m)) = Good(v)
    <2>. HIDE DEF w, x, ld, le
    <2>1. Apply(Good(b), ld \o le) = Apply(Apply(Good(b), ld), le)
        BY <1>6, <1>11, ApplyParts
    <2>. QED  BY <1>6, <1>10, <1>14, <1>20, <2>1
<1>22. Coarse(b) \in Shapes /\ DOMAIN Coarse(b) = DOMAIN b /\ \A q \in DOMAIN b : Coarse(b)[q] = Bare(b[q])
    BY <1>7, CoarseIs
<1>23. Baseline(Coarse(b), ld) = wb
    BY <1>2, <1>4, <1>5, <1>22, EntriesRead
<1>24. wb \in Shapes
    <2>1. Baseline(Coarse(b), ld) \in Shapes
        <3>. HIDE DEF ld
        <3>. QED  BY <1>6, <1>22, BaselineParts
    <2>. QED  BY <1>23, <2>1
<1>25. Baseline(wb, le) = xb
    <2>. HIDE DEF wb
    <2>. QED  BY <1>1, <1>3, <1>24, EntriesRead
<1>26. /\ DOMAIN wb = DOMAIN b \union L
       /\ \A q \in L : wb[q] = Bare(Dir(755))
       /\ \A q \in DOMAIN b \ L : wb[q] = Bare(b[q])
    <2>1. /\ DOMAIN wb = DOMAIN Coarse(b) \union L
          /\ \A q \in L : wb[q] = Bare(d[q])
          /\ \A q \in DOMAIN Coarse(b) \ L : wb[q] = Coarse(b)[q]
        BY DEF With
    <2>. HIDE DEF wb
    <2>. QED  BY <1>5, <1>22, <2>1
<1>27. xb = Coarse(v)
    <2>. HIDE DEF wb
    <2>1. /\ DOMAIN xb = DOMAIN wb \union D /\ IsFcn(xb)
          /\ \A q \in D : xb[q] = Bare(c[q])
          /\ \A q \in DOMAIN wb \ D : xb[q] = wb[q]
        BY DEF With, IsFcn
    <2>. HIDE DEF xb
    <2>2. DOMAIN Coarse(v) = DOMAIN v /\ IsFcn(Coarse(v)) /\ \A q \in DOMAIN v : Coarse(v)[q] = Bare(v[q])
        BY CoarseIs
    <2>3. DOMAIN xb = DOMAIN v
        BY <1>18, <1>26, <2>1
    <2>4. \A q \in DOMAIN v : xb[q] = Bare(v[q])
        <3>1. \A q \in D : Bare(Granted(c[q])) = Bare(c[q])
            BY <1>3, CoarseIs
        <3>. QED  BY <1>18, <1>19, <1>26, <2>1, <3>1
    <2>. QED  BY <2>1, <2>2, <2>3, <2>4, FcnEqual
<1>28. Baseline(Coarse(b), PackFiles(src, m)) = Coarse(v)
    <2>. HIDE DEF wb, xb, ld, le
    <2>1. Baseline(Coarse(b), ld \o le) = Baseline(Baseline(Coarse(b), ld), le)
        BY <1>6, <1>22, BaselineParts
    <2>. QED  BY <1>6, <1>23, <1>25, <1>27, <2>1
<1>. QED  BY <1>21, <1>28 DEF b

-----------------------------------------------------------------------------
(* A file map on disk. *)

Trees == {t \in UNION {[D -> TreeEntries] : D \in SUBSET AllPaths} : IsTree(t)}
States == [ok : BOOLEAN, tree : Trees]

\* What a state is.
LEMMA StatesAre ==
    /\ \A t : IsTree(t) <=> t \in Trees
    /\ \A o \in States : o.ok \in BOOLEAN /\ IsTree(o.tree) /\ o \in {Good(o.tree), Bad(o.tree)}
                          /\ (o.ok => o = Good(o.tree))
    /\ \A t : IsTree(t) => Good(t) \in States /\ Bad(t) \in States
    /\ \A t : Good(t).ok /\ Good(t).tree = t /\ ~Bad(t).ok /\ Bad(t).tree = t
<1>1. ASSUME NEW t, IsTree(t)
      PROVE  t \in Trees
    <2>1. t \in [DOMAIN t -> TreeEntries] /\ DOMAIN t \in SUBSET AllPaths
        BY <1>1 DEF IsTree
    <2>. QED  BY <1>1, <2>1 DEF Trees
<1>2. \A t \in Trees : IsTree(t)
    BY DEF Trees
<1>3. \A t : Good(t).ok /\ Good(t).tree = t /\ ~Bad(t).ok /\ Bad(t).tree = t
    BY DEF Good, Bad
<1>4. \A t \in Trees : Good(t) \in States /\ Bad(t) \in States
    BY DEF Good, Bad, States
<1>5. ASSUME NEW o \in States
      PROVE  o.ok \in BOOLEAN /\ o.tree \in Trees /\ o \in {Good(o.tree), Bad(o.tree)} /\ (o.ok => o = Good(o.tree))
    BY DEF Good, Bad, States
<1>. QED  BY <1>1, <1>2, <1>3, <1>4, <1>5

\* Writing one entry leaves a tree.
LEMMA EntryTyped ==
    ASSUME NEW t, IsTree(t), NEW p \in AllPaths, IsDir(t, Front(p)), NEW src, IsTree(src), NEW e \in MapEntries
    PROVE  MaterialiseEntry(t, p, src, e) \in States
<1>1. e.kind \in {"dir", "link", "file", "from"}
    BY MapEntryIs
<1>2. p \in TreePaths
    BY DEF AllPaths
<1>3. ASSUME NEW c \in Storable, c.kind = "dir" \/ ~IsDir(t, p)
      PROVE  Good(Put(t, p, c)) \in States
    <2>1. ~IsDir(t, p) => Below(t, p) = {}
        BY <1>2, TreeLeaf
    <2>2. IsTree(Put(t, p, c))
        BY <1>3, <2>1, PutTree DEF TreeEntries
    <2>. QED  BY <2>2, StatesAre
<1>4. Good(t) \in States /\ Bad(t) \in States
    BY StatesAre
<1>5. CASE e.kind = "dir"
    <2>1. e \in Storable
        BY <1>5, MapEntryIs
    <2>2. MaterialiseEntry(t, p, src, e) \in {Good(t), Good(Put(t, p, e))}
        BY <1>5 DEF MaterialiseEntry
    <2>. QED  BY <1>3, <1>4, <1>5, <2>1, <2>2
<1>6. CASE e.kind = "link"
    <2>1. e \in Storable
        BY <1>6, MapEntryIs
    <2>2. MaterialiseEntry(t, p, src, e) = IF IsDir(t, p) THEN Bad(t) ELSE Good(Put(t, p, e))
        BY <1>6 DEF MaterialiseEntry
    <2>. QED  BY <1>3, <1>4, <2>1, <2>2
<1>7. CASE e.kind = "file"
    <2>1. e \in Storable
        BY <1>7, MapEntryIs
    <2>2. MaterialiseEntry(t, p, src, e) = IF IsDir(t, p) THEN Bad(t) ELSE Good(Put(t, p, e))
        BY <1>7 DEF MaterialiseEntry, WriteFile
    <2>. QED  BY <1>3, <1>4, <2>1, <2>2
<1>8. CASE e.kind = "from"
    <2>1. MaterialiseEntry(t, p, src, e) =
             IF ~Readable(src, e) \/ IsDir(t, p) THEN Bad(t) ELSE Good(Put(t, p, Content(src, e)))
        BY <1>8 DEF MaterialiseEntry, WriteFile
    <2>2. Readable(src, e) => Content(src, e) \in Storable
        BY MapEntryIs
    <2>. QED  BY <1>3, <1>4, <2>1, <2>2
<1>. QED  BY <1>1, <1>5, <1>6, <1>7, <1>8

\* And so does one path.
LEMMA OneTyped ==
    ASSUME NEW acc \in States, NEW arc \in AllPaths, NEW src, IsTree(src), NEW e \in MapEntries
    PROVE  MaterialiseOne(acc, arc, src, e) \in States
<1>. DEFINE dir  == Resolve(acc.tree, Front(arc))
            made == MakeDirs(acc.tree, dir)
            p    == Append(dir, Last(arc))
<1>1. MaterialiseOne(acc, arc, src, e) =
        IF ~acc.ok \/ dir = NoPath THEN acc
        ELSE IF ~made.ok THEN made ELSE MaterialiseEntry(made.tree, p, src, e)
    BY DEF MaterialiseOne
<1>2. IsTree(acc.tree)
    BY StatesAre
<1>3. Front(arc) \in TreePaths /\ Last(arc) \in Range(Names) /\ Front(arc) \in Seq(Components)
    BY FrontAndLast, ComponentsAre
<1>4. dir \in TreePaths \union {NoPath}
    BY <1>2, <1>3, ResolveTyped
<1>. HIDE DEF dir
<1>5. ASSUME dir \in TreePaths
      PROVE  /\ made \in {Good(made.tree), Bad(made.tree)} /\ IsTree(made.tree)
             /\ made.ok => IsDir(made.tree, dir)
    BY <1>2, <1>5, MadeDirs
<1>6. ASSUME dir \in TreePaths
      PROVE  p \in AllPaths /\ Front(p) = dir
    BY <1>3, <1>6, FrontAndLast
<1>. HIDE DEF made, p
<1>7. ASSUME dir \in TreePaths
      PROVE  made \in States
    BY <1>5, <1>7, StatesAre
<1>8. ASSUME dir \in TreePaths, made.ok
      PROVE  MaterialiseEntry(made.tree, p, src, e) \in States
    BY <1>5, <1>6, <1>8, EntryTyped
<1>. QED  BY <1>1, <1>4, <1>7, <1>8

\* A map is written from its first path to its last.
LEMMA MaterialiseIs ==
    ASSUME NEW t, IsTree(t), NEW src, IsTree(src), NEW m, IsMap(m)
    PROVE  \E f : /\ f[0] = Good(t) /\ Materialise(t, src, m) = f[Len(Sorted(DOMAIN m))]
                  /\ \A i \in 1..Len(Sorted(DOMAIN m)) : f[i] = MaterialiseOne(f[i - 1], Sorted(DOMAIN m)[i], src, m[Sorted(DOMAIN m)[i]])
                  /\ \A i \in 0..Len(Sorted(DOMAIN m)) : f[i] \in States
<1>. DEFINE n == Len(Sorted(DOMAIN m))
            F == [i \in 1..n |-> [x \in States |-> MaterialiseOne(x, Sorted(DOMAIN m)[i], src, m[Sorted(DOMAIN m)[i]])]]
            Eq(f) == f = [i \in 0..n |-> IF i = 0 THEN Good(t) ELSE MaterialiseOne(f[i - 1], Sorted(DOMAIN m)[i], src, m[Sorted(DOMAIN m)[i]])]
<1>1. n \in Nat
    <2>1. DOMAIN m \subseteq AllPaths /\ IsFiniteSet(DOMAIN m)
        BY DEF IsMap
    <2>. QED  BY <2>1, DoneIs
<1>2. Good(t) \in States
    BY StatesAre
<1>3. ASSUME NEW i \in 1..n, NEW x \in States
      PROVE  MaterialiseOne(x, Sorted(DOMAIN m)[i], src, m[Sorted(DOMAIN m)[i]]) \in States
    <2>1. DOMAIN m \subseteq AllPaths /\ IsFiniteSet(DOMAIN m)
        BY DEF IsMap
    <2>2. Sorted(DOMAIN m)[i] \in DOMAIN m
        BY <2>1, DoneIs
    <2>3. Sorted(DOMAIN m)[i] \in AllPaths /\ m[Sorted(DOMAIN m)[i]] \in MapEntries
        BY <2>2, MapEntriesAre
    <2>. QED  BY <2>3, OneTyped
<1>. HIDE DEF n
<1>4. F \in [1..n -> [States -> States]]
    BY <1>3
<1>5. PICK g : Iterates(g, n, States, Good(t), F)
    <2>. HIDE DEF F
    <2>. QED  BY <1>1, <1>2, <1>4, Recursion
<1>6. Eq(g)
    <2>1. /\ g \in [0..n -> States] /\ g[0] = Good(t)
          /\ \A i \in 1..n : g[i] = F[i][g[i - 1]]
        <3>. HIDE DEF F
        <3>. QED  BY <1>5 DEF Iterates
    <2>2. ASSUME NEW i \in 0..n, i # 0
          PROVE  g[i] = MaterialiseOne(g[i - 1], Sorted(DOMAIN m)[i], src, m[Sorted(DOMAIN m)[i]])
        <3>1. i \in 1..n /\ i - 1 \in 0..n
            BY <1>1, <2>2
        <3>2. g[i - 1] \in States /\ g[i] = F[i][g[i - 1]]
            <4>. HIDE DEF F
            <4>. QED  BY <2>1, <3>1
        <3>3. F[i][g[i - 1]] = MaterialiseOne(g[i - 1], Sorted(DOMAIN m)[i], src, m[Sorted(DOMAIN m)[i]])
            BY <3>1, <3>2
        <3>. QED  BY <3>2, <3>3
    <2>3. IsFcn(g) /\ DOMAIN g = 0..n
        <3>. HIDE DEF F
        <3>. QED  BY <2>1 DEF IsFcn
    <2>. HIDE DEF F
    <2>. QED  BY <2>1, <2>2, <2>3 DEF IsFcn
<1>. DEFINE f == CHOOSE f : Eq(f)
<1>7. Eq(f)
    <2>. HIDE DEF Eq
    <2>. QED  BY <1>6
<1>8. f[0] = Good(t) /\ \A i \in 1..n : f[i] = MaterialiseOne(f[i - 1], Sorted(DOMAIN m)[i], src, m[Sorted(DOMAIN m)[i]])
    <2>. HIDE DEF f
    <2>1. 0 \in 0..n /\ \A i \in 1..n : i \in 0..n /\ i # 0
        BY <1>1
    <2>. QED  BY <1>7, <2>1
<1>9. \A i \in 0..n : f[i] \in States
    <2>. DEFINE T == {i \in 0..n : f[i] \in States}
    <2>. HIDE DEF f
    <2>1. 0 \in T
        BY <1>1, <1>2, <1>8
    <2>2. ASSUME NEW i \in 1..n, i - 1 \in T
          PROVE  i \in T
        BY <1>1, <1>3, <1>8, <2>2
    <2>3. \A i \in 0..n : i \in T
        <3>. HIDE DEF T
        <3>. QED  BY <1>1, <2>1, <2>2, StepByStep
    <2>. QED  BY <2>3
<1>10. Materialise(t, src, m) = f[n]
    BY DEF Materialise, n
<1>. QED
    <2>. HIDE DEF f
    <2>1. /\ f[0] = Good(t) /\ Materialise(t, src, m) = f[n]
          /\ \A i \in 1..n : f[i] = MaterialiseOne(f[i - 1], Sorted(DOMAIN m)[i], src, m[Sorted(DOMAIN m)[i]])
          /\ \A i \in 0..n : f[i] \in States
        BY <1>8, <1>9, <1>10
    <2>. QED  BY <2>1 DEF n

\* The levels of the directory a path is in are what is above the path.
LEMMA FrontLevels ==
    ASSUME NEW p \in AllPaths
    PROVE  LevelsOf(Front(p)) = Above(p)
<1>1. IsTree(EmptyTree)
    BY NothingUnpacked
<1>2. \A q \in Above(p) : q \in DOMAIN EmptyTree => IsDir(EmptyTree, q)
    BY DEF EmptyTree
<1>. QED  BY <1>1, <1>2, StraightUp

\* A map none of whose names leads elsewhere or to what is in its way.
Straight(t, m) ==
    /\ \A q \in LevelsAbove(DOMAIN m) : ~IsA("file", t, q)
    /\ \A q \in LevelsAbove(DOMAIN m) \ DOMAIN m :
          ~IsA("link", t, q) /\ (IsA("dir", t, q) => t[q].mode = 755)
    /\ \A p \in DOMAIN m : m[p].kind = "dir" /\ p \in DOMAIN t => t[p].kind \notin {"file", "special"}

\* How far a map has been written.
Halfway(t, src, m, D) ==
    /\ D \subseteq DOMAIN m /\ IsTree(Written(t, Contents(src, m), D))
    /\ \A x \in D : Readable(src, m[x]) /\ \A q \in DOMAIN m : IsPrefix(q, x) => q \in D
    /\ \A q \in LevelsAbove(D) \ DOMAIN m : q \in DOMAIN t => t[q] = Dir(755)

\* The next path of a map, over what has been written.
LEMMA OneWritten ==
    ASSUME NEW t, IsTree(t), NEW src, IsTree(src), NEW m, IsMap(m), PlainMap(m), Straight(t, m),
           NEW D, Halfway(t, src, m, D), NEW p \in DOMAIN m, p \notin D,
           \A q \in DOMAIN m : IsPrefix(q, p) /\ q # p => q \in D,
           MaterialiseOne(Good(Written(t, Contents(src, m), D)), p, src, m[p]).ok
    PROVE  /\ MaterialiseOne(Good(Written(t, Contents(src, m), D)), p, src, m[p])
                = Good(Written(t, Contents(src, m), D \union {p}))
           /\ Readable(src, m[p]) /\ (m[p].kind # "dir" => ~IsDir(t, p))
           /\ \A q \in Above(p) \ DOMAIN m : q \in DOMAIN t => t[q] = Dir(755)
<1>. DEFINE c == Contents(src, m)
            u == Written(t, c, D)
            r == MaterialiseOne(Good(u), p, src, m[p])
<1>0. /\ D \subseteq DOMAIN m /\ IsTree(u)
      /\ \A q \in D : Readable(src, m[q])
      /\ \A x \in D : \A q \in DOMAIN m : IsPrefix(q, x) => q \in D
      /\ \A q \in LevelsAbove(D) \ DOMAIN m : q \in DOMAIN t => t[q] = Dir(755)
      /\ c = Contents(src, m) /\ u = Written(t, c, D)
      /\ r = MaterialiseOne(Good(u), p, src, m[p]) /\ r.ok
    BY DEF Halfway
<1>. HIDE DEF c, u, r
<1>. USE <1>0
<1>. DEFINE dir  == Front(p)
            made == MakeDirs(u, dir)
            L    == LevelsAbove(D)
            e    == m[p]
<1>1. p \in AllPaths /\ D \subseteq AllPaths /\ e \in MapEntries /\ DOMAIN m \subseteq AllPaths
    BY MapEntriesAre
<1>2. Above(p) = {q \in AllPaths : IsPrefix(q, p) /\ q # p}
    BY <1>1, LevelsAre DEF Above, AllPaths
<1>3. \A q \in DOMAIN m : c[q] = Content(src, m[q])
    BY DEF Contents
<1>4. \A q \in D : c[q] \in Storable /\ (c[q].kind = "dir" <=> m[q].kind = "dir")
    BY <1>3, MapEntriesAre, MapEntryIs
<1>5. /\ DOMAIN u = DOMAIN t \union L \union D
      /\ \A q \in D : u[q] = c[q]
      /\ \A q \in L \ D : u[q] = Dir(755)
      /\ \A q \in DOMAIN t \ (D \union L) : u[q] = t[q]
    BY DEF Written
<1>6. Dir(755).kind = "dir" /\ Dir(755).mode = 755
    BY EntryKinds
<1>7. p \notin L /\ L \intersect DOMAIN m \subseteq D
    <2>1. ASSUME NEW q \in L, q \in DOMAIN m
          PROVE  q \in D
        <3>1. PICK x \in D : q \in Above(x)
            BY <2>1 DEF LevelsAbove
        <3>2. IsPrefix(q, x)
            BY <1>1, <3>1, LevelsAre DEF Above, AllPaths
        <3>. QED  BY <2>1, <3>1, <3>2
    <2>. QED  BY <2>1
<1>8. Above(p) \subseteq LevelsAbove(DOMAIN m) /\ Above(p) \subseteq AllPaths
    BY <1>2 DEF LevelsAbove
<1>9. \A q \in Above(p) : q \in DOMAIN m => q \in D /\ q \in DOMAIN u /\ u[q].kind = "dir"
    <2>1. \A q \in Above(p) : q \in DOMAIN m => q \in D /\ m[q].kind = "dir"
        BY <1>2 DEF PlainMap
    <2>. QED  BY <1>4, <1>5, <2>1
<1>10. \A q \in Above(p) \ DOMAIN m :
          /\ q \notin D
          /\ q \in L => q \in DOMAIN u /\ u[q] = Dir(755)
          /\ q \notin L => (q \in DOMAIN u <=> q \in DOMAIN t) /\ (q \in DOMAIN u => u[q] = t[q])
    BY <1>5
<1>11. \A q \in Above(p) : ~IsA("link", u, q)
    BY <1>6, <1>8, <1>9, <1>10 DEF Straight, IsA
<1>12. /\ LevelsOf(dir) = Above(p) /\ dir \in TreePaths /\ Append(dir, Last(p)) = p
       /\ Resolve(u, dir) = dir /\ dir # NoPath
    <2>1. dir \in TreePaths /\ Append(dir, Last(p)) = p
        BY <1>1, FrontAndLast
    <2>2. LevelsOf(dir) = Above(p)
        BY <1>1, FrontLevels
    <2>3. Resolve(u, dir) = dir
        BY <1>11, <2>1, <2>2, ResolvePlain
    <2>. QED  BY <2>1, <2>2, <2>3, NoPathIsNone
<1>13. r = IF ~made.ok THEN made ELSE MaterialiseEntry(made.tree, p, src, e)
    <2>1. Good(u).ok /\ Good(u).tree = u
        BY StatesAre
    <2>. HIDE DEF made, dir
    <2>. QED  BY <1>12, <2>1 DEF MaterialiseOne, made, dir
<1>14. made.ok
    BY <1>13
<1>15. /\ \A q \in Above(p) : q \in DOMAIN u => IsDir(u, q)
       /\ DOMAIN made.tree = Above(p) \union DOMAIN u
       /\ \A q \in DOMAIN u : made.tree[q] = u[q]
       /\ \A q \in Above(p) \ DOMAIN u : made.tree[q] = Dir(755)
    BY <1>12, <1>14, MadeDirs
<1>. DEFINE v == made.tree
            w == Written(t, c, D \union {p})
<1>16. \A q \in Above(p) \ DOMAIN m : q \in DOMAIN t => t[q] = Dir(755)
    <2>. SUFFICES ASSUME NEW q \in Above(p) \ DOMAIN m, q \in DOMAIN t
                  PROVE  t[q] = Dir(755)
        OBVIOUS
    <2>1. CASE q \in L
        BY <2>1
    <2>2. CASE q \notin L
        <3>1. q \in DOMAIN u /\ u[q] = t[q] /\ q # <<>>
            BY <1>8, <1>10, <2>2 DEF AllPaths
        <3>2. t[q].kind = "dir"
            BY <1>15, <3>1 DEF IsDir, IsA
        <3>3. t[q].mode = 755
            BY <1>8, <3>2 DEF Straight, IsA
        <3>4. t[q] \in TreeEntries
            BY TreeParts
        <3>. QED  BY <3>2, <3>3, <3>4, EntryKinds
    <2>. QED  BY <2>1, <2>2
<1>17. /\ p \in DOMAIN v <=> p \in DOMAIN t
       /\ p \in DOMAIN t => v[p] = t[p]
       /\ IsDir(v, p) <=> IsDir(t, p)
    <2>1. p \notin Above(p)
        BY <1>2
    <2>2. p \in DOMAIN v <=> p \in DOMAIN t
        BY <1>5, <1>7, <1>15, <2>1
    <2>3. p \in DOMAIN t => v[p] = t[p]
        BY <1>5, <1>7, <1>15, <2>1
    <2>. QED  BY <2>2, <2>3 DEF IsDir, IsA
<1>. HIDE DEF made
<1>18. /\ r = Good(Put(v, p, c[p]))
       /\ Readable(src, e) /\ (e.kind # "dir" => ~IsDir(t, p))
    <2>1. r = MaterialiseEntry(v, p, src, e)
        BY <1>13, <1>14
    <2>2. c[p] = Content(src, e)
        BY <1>3
    <2>3. ~Bad(v).ok
        BY StatesAre
    <2>4. e.kind \in {"dir", "link", "file", "from"} /\ (e.kind # "from" => Content(src, e) = e /\ Readable(src, e))
        BY <1>1, MapEntryIs
    <2>. HIDE DEF v, e
    <2>5. CASE e.kind = "dir"
        <3>1. p \in DOMAIN v => v[p].kind \in {"dir", "link"}
            <4>1. p \in DOMAIN t => t[p].kind \notin {"file", "special"} /\ t[p] \in TreeEntries
                BY <2>5, TreeParts DEF Straight, e
            <4>2. p \in DOMAIN t => t[p].kind \in {"dir", "link"}
                BY <4>1, EntryKinds
            <4>. QED  BY <1>17, <4>2
        <3>. QED  BY <2>1, <2>2, <2>4, <2>5, <3>1 DEF MaterialiseEntry
    <2>6. CASE e.kind = "link"
        <3>1. r = IF IsDir(v, p) THEN Bad(v) ELSE Good(Put(v, p, e))
            BY <2>1, <2>6 DEF MaterialiseEntry
        <3>. QED  BY <1>17, <2>2, <2>3, <2>4, <2>6, <3>1
    <2>7. CASE e.kind = "file"
        <3>1. r = IF IsDir(v, p) THEN Bad(v) ELSE Good(Put(v, p, e))
            BY <2>1, <2>7 DEF MaterialiseEntry, WriteFile
        <3>. QED  BY <1>17, <2>2, <2>3, <2>4, <2>7, <3>1
    <2>8. CASE e.kind = "from"
        <3>1. r = IF ~Readable(src, e) \/ IsDir(v, p) THEN Bad(v) ELSE Good(Put(v, p, Content(src, e)))
            BY <2>1, <2>8 DEF MaterialiseEntry, WriteFile
        <3>. QED  BY <1>17, <2>2, <2>3, <3>1
    <2>. QED  BY <2>4, <2>5, <2>6, <2>7, <2>8
<1>19. LevelsAbove(D \union {p}) = L \union Above(p)
    BY DEF LevelsAbove
<1>20. Put(v, p, c[p]) = w
    <2>1. /\ DOMAIN w = DOMAIN t \union L \union Above(p) \union D \union {p} /\ IsFcn(w)
          /\ \A q \in DOMAIN w : w[q] = IF q \in D \union {p} THEN c[q]
                                     ELSE IF q \in L \union Above(p) THEN Dir(755) ELSE t[q]
        BY <1>19 DEF Written, IsFcn
    <2>. HIDE DEF v, w, L
    <2>2. /\ DOMAIN Put(v, p, c[p]) = DOMAIN v \union {p} /\ IsFcn(Put(v, p, c[p]))
          /\ \A q \in DOMAIN v \union {p} : Put(v, p, c[p])[q] = IF q = p THEN c[p] ELSE v[q]
        BY DEF Put, IsFcn
    <2>3. DOMAIN Put(v, p, c[p]) = DOMAIN w
        BY <1>5, <1>15, <2>1, <2>2 DEF v
    <2>4. ASSUME NEW q \in DOMAIN w, q # p
          PROVE  v[q] = w[q]
        <3>1. CASE q \in D
            BY <1>5, <1>15, <2>1, <3>1 DEF v
        <3>2. CASE q \notin D /\ q \in L
            BY <1>5, <1>15, <2>1, <2>4, <3>2 DEF v
        <3>3. CASE q \notin D \union L /\ q \in Above(p)
            <4>1. w[q] = Dir(755)
                BY <2>1, <2>4, <3>3
            <4>2. q \in DOMAIN t => q \notin DOMAIN m /\ t[q] = Dir(755)
                BY <1>9, <1>16, <3>3
            <4>3. q \in DOMAIN u <=> q \in DOMAIN t
                BY <1>5, <3>3
            <4>4. q \in DOMAIN u => u[q] = t[q]
                BY <1>5, <3>3
            <4>. QED  BY <1>15, <3>3, <4>1, <4>2, <4>3, <4>4 DEF v
        <3>4. CASE q \notin D \union L \union Above(p)
            BY <1>5, <1>15, <2>1, <2>4, <3>4 DEF v
        <3>. QED  BY <3>1, <3>2, <3>3, <3>4
    <2>5. w[p] = c[p]
        BY <2>1
    <2>. QED  BY <2>1, <2>2, <2>3, <2>4, <2>5, FcnEqual
<1>. QED  BY <1>16, <1>18, <1>20 DEF c, u, r

\* Where a straight map is written without an error, it is on disk what the
\* layer says, and nothing is in the way of the layer.
LEMMA MapOnDisk ==
    ASSUME NEW t, IsTree(t), NEW src, IsTree(src), NEW m, IsMap(m), PlainMap(m), Straight(t, m),
           Materialise(t, src, m).ok
    PROVE  /\ Materialise(t, src, m) = Good(Written(t, Contents(src, m), DOMAIN m))
           /\ Placed(t, m) /\ \A p \in DOMAIN m : Readable(src, m[p])
<1>. DEFINE K == DOMAIN m
            s == Sorted(K)
            n == Len(s)
            c == Contents(src, m)
            Says(D) == /\ \A p \in D : Readable(src, m[p]) /\ (m[p].kind # "dir" => ~IsDir(t, p))
                       /\ \A q \in LevelsAbove(D) \ K : q \in DOMAIN t => t[q] = Dir(755)
            Closed(D) == \A x \in D : \A q \in K : IsPrefix(q, x) => q \in D
<1>1. K \subseteq AllPaths /\ IsFiniteSet(K)
    BY DEF IsMap
<1>2. n \in Nat /\ Done(K, 0) = {} /\ Done(K, n) = K
    BY <1>1, DoneIs
<1>3. ASSUME NEW i \in 1..n
      PROVE  /\ s[i] \in K /\ s[i] \notin Done(K, i - 1)
             /\ Done(K, i) = Done(K, i - 1) \union {s[i]}
             /\ \A q \in K : IsPrefix(q, s[i]) /\ q # s[i] => q \in Done(K, i - 1)
             /\ \A q \in Done(K, i - 1) : q \in K
    BY <1>1, DoneIs
<1>4. PICK f : /\ f[0] = Good(t) /\ Materialise(t, src, m) = f[n]
               /\ \A i \in 1..n : f[i] = MaterialiseOne(f[i - 1], s[i], src, m[s[i]])
               /\ \A i \in 0..n : f[i] \in States
    BY MaterialiseIs
<1>. DEFINE T == {i \in 0..n : /\ Closed(Done(K, i))
                               /\ f[i].ok => f[i] = Good(Written(t, c, Done(K, i))) /\ Says(Done(K, i))}
<1>. HIDE DEF s, n, c, K
<1>5. 0 \in T
    <2>1. 0 \in 0..n
        BY <1>2
    <2>2. LevelsAbove({}) = {}
        BY DEF LevelsAbove
    <2>3. Written(t, c, {}) = t
        <3>1. IsFcn(t) /\ DOMAIN t \union {} \union {} = DOMAIN t
            BY TreeParts
        <3>. QED  BY <2>2, <3>1 DEF Written, IsFcn
    <2>4. Closed({}) /\ Says({})
        BY <2>2
    <2>. HIDE DEF Closed, Says
    <2>. QED  BY <1>2, <1>4, <2>1, <2>3, <2>4
<1>6. ASSUME NEW i \in 1..n, i - 1 \in T
      PROVE  i \in T
    <2>. DEFINE D == Done(K, i - 1)
                p == s[i]
                u == Written(t, c, D)
    <2>1. i \in 0..n /\ i - 1 \in 0..n
        BY <1>2
    <2>2. /\ p \in K /\ p \notin D /\ Done(K, i) = D \union {p} /\ D \subseteq K
          /\ \A q \in K : IsPrefix(q, p) /\ q # p => q \in D
        BY <1>3
    <2>3. Closed(D) /\ (f[i - 1].ok => f[i - 1] = Good(u) /\ Says(D))
        BY <1>6
    <2>4. f[i] = MaterialiseOne(f[i - 1], p, src, m[p])
        BY <1>4
    <2>. HIDE DEF D, p
    <2>5. Closed(D \union {p})
        BY <2>2, <2>3
    <2>6. ASSUME f[i].ok
          PROVE  f[i] = Good(Written(t, c, D \union {p})) /\ Says(D \union {p})
        <3>1. f[i - 1].ok
            BY <2>4, <2>6 DEF MaterialiseOne
        <3>2. f[i - 1] = Good(u) /\ Says(D)
            BY <2>3, <3>1
        <3>3. IsTree(u)
            <4>1. f[i - 1] \in States
                BY <1>4, <2>1
            <4>. HIDE DEF u
            <4>. QED  BY <3>2, <4>1, StatesAre
        <3>. HIDE DEF u
        <3>4. /\ f[i] = Good(Written(t, c, D \union {p}))
              /\ Readable(src, m[p]) /\ (m[p].kind # "dir" => ~IsDir(t, p))
              /\ \A q \in Above(p) \ K : q \in DOMAIN t => t[q] = Dir(755)
            <4>1. Halfway(t, src, m, D)
                BY <2>2, <2>3, <3>2, <3>3 DEF Halfway, K, c, u
            <4>2. p \in DOMAIN m /\ p \notin D /\ \A q \in DOMAIN m : IsPrefix(q, p) /\ q # p => q \in D
                BY <2>2 DEF K
            <4>3. f[i] = MaterialiseOne(Good(Written(t, Contents(src, m), D)), p, src, m[p])
                BY <2>4, <3>2 DEF c, u
            <4>. HIDE DEF Says, Closed
            <4>4. MaterialiseOne(Good(Written(t, Contents(src, m), D)), p, src, m[p]).ok
                BY <2>6, <4>3
            <4>5. /\ MaterialiseOne(Good(Written(t, Contents(src, m), D)), p, src, m[p])
                         = Good(Written(t, Contents(src, m), D \union {p}))
                  /\ Readable(src, m[p]) /\ (m[p].kind # "dir" => ~IsDir(t, p))
                  /\ \A q \in Above(p) \ DOMAIN m : q \in DOMAIN t => t[q] = Dir(755)
                BY <4>1, <4>2, <4>4, OneWritten
            <4>. QED  BY <4>3, <4>5 DEF K, c
        <3>5. LevelsAbove(D \union {p}) = LevelsAbove(D) \union Above(p)
            BY DEF LevelsAbove
        <3>6. \A q \in D \union {p} : Readable(src, m[q]) /\ (m[q].kind # "dir" => ~IsDir(t, q))
            BY <3>2, <3>4
        <3>7. \A q \in LevelsAbove(D \union {p}) \ K : q \in DOMAIN t => t[q] = Dir(755)
            <4>1. \A q \in LevelsAbove(D) \ K : q \in DOMAIN t => t[q] = Dir(755)
                BY <3>2
            <4>2. \A q \in Above(p) \ K : q \in DOMAIN t => t[q] = Dir(755)
                BY <3>4
            <4>. QED  BY <3>5, <4>1, <4>2
        <3>. QED  BY <3>4, <3>6, <3>7
    <2>. HIDE DEF Says, Closed
    <2>. QED  BY <2>1, <2>2, <2>5, <2>6
<1>7. \A i \in 0..n : i \in T
    <2>. HIDE DEF T
    <2>. QED  BY <1>2, <1>5, <1>6, StepByStep
<1>8. f[n] = Good(Written(t, c, K)) /\ Says(K)
    <2>. HIDE DEF Says, Closed
    <2>1. n \in 0..n /\ f[n].ok
        BY <1>2, <1>4
    <2>. QED  BY <1>2, <1>7, <2>1
<1>9. Placed(t, m)
    <2>1. \A p \in DOMAIN m : m[p].kind = "dir" /\ p \in DOMAIN t => t[p].kind \in {"dir", "link"}
        <3>1. \A p \in DOMAIN t : t[p] \in TreeEntries
            BY TreeParts
        <3>2. \A p \in DOMAIN t : t[p].kind \in {"dir", "link", "file", "special"}
            BY <3>1, EntryKinds
        <3>. QED  BY <3>2 DEF Straight
    <2>. QED  BY <1>8, <2>1 DEF Placed, K
<1>. QED  BY <1>4, <1>8, <1>9 DEF c, K

\* Whatever comes of writing a map, the tree stays one.
LEMMA MapTyped ==
    ASSUME NEW t, IsTree(t), NEW src, IsTree(src), NEW m, IsMap(m)
    PROVE  Materialise(t, src, m) \in States
<1>1. Len(Sorted(DOMAIN m)) \in Nat
    BY DoneIs DEF IsMap
<1>2. PICK f : /\ Materialise(t, src, m) = f[Len(Sorted(DOMAIN m))]
               /\ \A i \in 0..Len(Sorted(DOMAIN m)) : f[i] \in States
    BY MaterialiseIs
<1>. QED  BY <1>1, <1>2

-----------------------------------------------------------------------------
(* What the steps do to a tree. *)

\* An edit leaves a tree.
LEMMA EditedTyped ==
    ASSUME NEW t, IsTree(t), NEW u \in Edited(t)
    PROVE  IsTree(u)
<1>. DEFINE at == {p \in Paths : IsDir(t, Front(p))}
<1>1. \/ \E p \in at \intersect DOMAIN t : u = Drop(t, p)
      \/ \E p \in at, e \in Entries : u = Put(Drop(t, p), p, e)
      \/ \E p \in {q \in at : IsA("dir", t, q)}, m \in {500, 755} : u = Put(t, p, Dir(m))
    BY DEF Edited
<1>2. \A p \in at : p \in AllPaths /\ IsDir(t, Front(p))
    BY BuildAssumption
<1>. HIDE DEF at
<1>3. ASSUME NEW p \in at \intersect DOMAIN t, u = Drop(t, p)
      PROVE  IsTree(u)
    BY <1>2, <1>3, DropTree
<1>4. ASSUME NEW p \in at, NEW e \in Entries, u = Put(Drop(t, p), p, e)
      PROVE  IsTree(u)
    <2>1. e \in TreeEntries
        BY BuildAssumption
    <2>. QED  BY <1>2, <1>4, <2>1, PutDropped
<1>5. ASSUME NEW p \in {q \in at : IsA("dir", t, q)}, NEW m \in {500, 755}, u = Put(t, p, Dir(m))
      PROVE  IsTree(u)
    <2>1. Dir(m) \in TreeEntries /\ Dir(m).kind = "dir"
        BY EntryKinds DEF TreeEntries
    <2>. QED  BY <1>2, <1>5, <2>1, PutTree
<1>. QED  BY <1>1, <1>3, <1>4, <1>5

\* The script is an entry of its own at the top.
LEMMA ScriptIs ==
    ASSUME NEW t, IsTree(t)
    PROVE  /\ Script \notin DOMAIN t =>
                /\ IsTree(Put(t, Script, ScriptFile)) /\ Script \in DOMAIN Put(t, Script, ScriptFile)
                /\ IsA("file", Snapshot(Put(t, Script, ScriptFile)), Script)
                /\ AsUnpacked(Without(Snapshot(Put(t, Script, ScriptFile)), {Script})) = AsUnpacked(t)
           /\ IsA("file", t, Script) => IsTree(Without(t, {Script}))
           /\ IsTree(Drop(t, Script))
<1>1. Script \in AllPaths /\ Script \in TreePaths /\ Front(Script) = <<>>
    <2>1. Script \in AllPaths /\ Script \in TreePaths
        BY BuildAssumption DEF AllPaths
    <2>2. Len(Script) = 1
        BY DEF Script
    <2>3. Len(Front(Script)) = 0 /\ Front(Script) \in Seq(Range(Names))
        BY <2>1, <2>2, FrontIsAbove DEF AllPaths, TreePaths
    <2>. QED  BY <2>1, <2>3, EmptySeq
<1>2. ScriptFile \in TreeEntries /\ ScriptFile \in Storable /\ ScriptFile.kind = "file" /\ ScriptFile # Special
    <2>1. ScriptFile = [kind |-> "file", data |-> "script"]
        BY DEF ScriptFile, File
    <2>2. "script" \in STRING
        <3>1. Script \in Seq(Range(Names)) /\ Len(Script) = 1 /\ Script[1] = "script"
            BY <1>1 DEF TreePaths, Script
        <3>2. "script" \in Range(Names)
            <4>. HIDE DEF Script
            <4>. QED  BY <3>1, ElementOfSeq
        <3>3. Names \in Seq(STRING)
            BY BuildAssumption
        <3>. QED  BY <3>2, <3>3, ElementOfSeq DEF Range
    <2>3a. ScriptFile \in [kind : {"file"}, data : STRING]
        BY <2>1, <2>2
    <2>3. ScriptFile \in Storable
        BY <2>3a DEF Storable
    <2>. QED  BY <2>1, <2>3, EntryKinds DEF TreeEntries
<1>3. ASSUME IsA("file", t, Script)
      PROVE  IsTree(Without(t, {Script}))
    <2>1. ~IsDir(t, Script)
        BY <1>1, <1>3 DEF IsDir, IsA, Script
    <2>2. Below(t, Script) = {}
        BY <1>1, <2>1, TreeLeaf
    <2>. QED  BY <2>2, WithoutTree
<1>4. IsTree(Drop(t, Script))
    BY <1>1, DropTree
<1>5. ASSUME Script \notin DOMAIN t
      PROVE  /\ IsTree(Put(t, Script, ScriptFile)) /\ Script \in DOMAIN Put(t, Script, ScriptFile)
             /\ IsA("file", Snapshot(Put(t, Script, ScriptFile)), Script)
             /\ AsUnpacked(Without(Snapshot(Put(t, Script, ScriptFile)), {Script})) = AsUnpacked(t)
    <2>. DEFINE u == Put(t, Script, ScriptFile)
                s == Snapshot(u)
                w == Without(s, {Script})
    <2>1. ~IsDir(t, Script)
        BY <1>5 DEF IsDir, IsA, Script
    <2>2. Below(t, Script) = {}
        BY <1>1, <2>1, TreeLeaf
    <2>3. IsTree(u)
        BY <1>1, <1>2, <2>2, PutTree DEF IsDir
    <2>4. DOMAIN u = DOMAIN t \union {Script} /\ u[Script] = ScriptFile /\ \A q \in DOMAIN t : u[q] = t[q]
        BY <1>5 DEF Put
    <2>. HIDE DEF u
    <2>5. /\ IsTree(s) /\ IsFcn(s) /\ DOMAIN s = {p \in DOMAIN u : u[p] # Special}
          /\ \A p \in DOMAIN s : s[p] = u[p] /\ u[p] \in Storable
        BY <2>3, SnapshotIs
    <2>. HIDE DEF s
    <2>6. IsA("file", s, Script)
        BY <1>2, <2>4, <2>5 DEF IsA
    <2>7. IsTree(w)
        <3>1. ~IsDir(s, Script)
            BY <1>1, <2>6 DEF IsDir, IsA, Script
        <3>2. Below(s, Script) = {}
            BY <1>1, <2>5, <3>1, TreeLeaf
        <3>. QED  BY <2>5, <3>2, WithoutTree
    <2>8. DOMAIN w = {p \in DOMAIN t : t[p] # Special} /\ \A q \in DOMAIN w : w[q] = t[q] /\ w[q] \in Storable
        BY <1>5, <2>4, <2>5 DEF Without
    <2>. HIDE DEF w
    <2>9. /\ IsFcn(AsUnpacked(w)) /\ DOMAIN AsUnpacked(w) = {p \in DOMAIN w : w[p] # Special}
          /\ \A p \in DOMAIN AsUnpacked(w) : AsUnpacked(w)[p] = Granted(w[p])
        BY <2>7, UnpackedIs
    <2>10. /\ IsFcn(AsUnpacked(t)) /\ DOMAIN AsUnpacked(t) = {p \in DOMAIN t : t[p] # Special}
           /\ \A p \in DOMAIN AsUnpacked(t) : AsUnpacked(t)[p] = Granted(t[p])
        BY UnpackedIs
    <2>11. AsUnpacked(w) = AsUnpacked(t)
        <3>1. DOMAIN AsUnpacked(w) = DOMAIN AsUnpacked(t)
            BY <2>8, <2>9, <2>10
        <3>. QED  BY <2>8, <2>9, <2>10, <3>1, FcnEqual
    <2>. QED  BY <2>3, <2>4, <2>6, <2>11 DEF u, s, w
<1>. QED  BY <1>3, <1>4, <1>5

\* A tree of what a layer can hold is its own snapshot.
Kept(t) == \A p \in DOMAIN t : t[p] \in Storable

\* Its own snapshot: a snapshot is one, and stays one without some of its paths.
LEMMA KeptIs ==
    /\ \A t : IsTree(t) => Kept(Snapshot(t)) /\ AsUnpacked(Snapshot(t)) = AsUnpacked(t)
    /\ \A t : IsTree(t) /\ Kept(t) => Snapshot(t) = t
    /\ \A t, S : Kept(t) => Kept(Without(t, S))
    /\ IsTree(EmptyTree) /\ Kept(EmptyTree) /\ IsMap(EmptyTree) /\ IsFiniteSet(DOMAIN EmptyTree)
<1>1. ASSUME NEW t, IsTree(t), Kept(t)
      PROVE  Snapshot(t) = t
    <2>1. IsFcn(t)
        BY <1>1, TreeParts
    <2>2. DOMAIN Snapshot(t) = DOMAIN t /\ IsFcn(Snapshot(t)) /\ \A p \in DOMAIN t : Snapshot(t)[p] = t[p]
        <3>. DEFINE s == Snapshot(t)
        <3>1. IsFcn(s) /\ DOMAIN s = {p \in DOMAIN t : t[p] # Special} /\ \A p \in DOMAIN s : s[p] = t[p]
            BY <1>1, SnapshotIs
        <3>. HIDE DEF s
        <3>2. \A p \in DOMAIN t : t[p] # Special
            BY <1>1, EntryKinds DEF Kept
        <3>3. DOMAIN s = DOMAIN t
            BY <3>1, <3>2
        <3>. QED  BY <3>1, <3>3 DEF s
    <2>. QED  BY <2>1, <2>2, FcnEqual
<1>2. ASSUME NEW t, IsTree(t)
      PROVE  Kept(Snapshot(t)) /\ AsUnpacked(Snapshot(t)) = AsUnpacked(t)
    <2>. DEFINE s == Snapshot(t)
    <2>1. /\ IsTree(s) /\ DOMAIN s = {p \in DOMAIN t : t[p] # Special}
          /\ \A p \in DOMAIN s : s[p] = t[p] /\ t[p] \in Storable
        BY <1>2, SnapshotIs
    <2>. HIDE DEF s
    <2>2. Kept(s)
        BY <2>1 DEF Kept
    <2>3. /\ IsFcn(AsUnpacked(s)) /\ DOMAIN AsUnpacked(s) = {p \in DOMAIN s : s[p] # Special}
          /\ \A p \in DOMAIN AsUnpacked(s) : AsUnpacked(s)[p] = Granted(s[p])
        BY <2>1, UnpackedIs
    <2>4. /\ IsFcn(AsUnpacked(t)) /\ DOMAIN AsUnpacked(t) = {p \in DOMAIN t : t[p] # Special}
          /\ \A p \in DOMAIN AsUnpacked(t) : AsUnpacked(t)[p] = Granted(t[p])
        BY <1>2, UnpackedIs
    <2>5. DOMAIN AsUnpacked(s) = DOMAIN AsUnpacked(t)
        BY <2>1, <2>3, <2>4
    <2>6. AsUnpacked(s) = AsUnpacked(t)
        BY <2>1, <2>3, <2>4, <2>5, FcnEqual
    <2>. QED  BY <2>2, <2>6 DEF s
<1>3. ASSUME NEW t, NEW S, Kept(t)
      PROVE  Kept(Without(t, S))
    BY <1>3 DEF Kept, Without
<1>4. IsTree(EmptyTree) /\ DOMAIN EmptyTree = {} /\ IsFiniteSet({})
    BY NothingUnpacked, FS_EmptySet DEF EmptyTree
<1>5. EmptyTree \in [DOMAIN EmptyTree -> MapEntries]
    BY DEF EmptyTree
<1>. QED  BY <1>1, <1>2, <1>3, <1>4, <1>5 DEF Kept, IsMap

-----------------------------------------------------------------------------
(* What COPY enumerates. *)

\* The rest of a path, and the same rest elsewhere.
LEMMA RestOf ==
    ASSUME NEW S, NEW a \in Seq(S), NEW p \in Seq(S), IsPrefix(a, p)
    PROVE  /\ SubSeq(p, Len(a) + 1, Len(p)) \in Seq(S)
           /\ a \o SubSeq(p, Len(a) + 1, Len(p)) = p
<1>1. /\ Len(a) \in Nat /\ Len(p) \in Nat /\ Len(a) <= Len(p)
      /\ \A i \in 1..Len(a) : a[i] = p[i]
    BY PrefixAgrees, LenProperties
<1>. DEFINE r == SubSeq(p, Len(a) + 1, Len(p))
<1>2. r \in Seq(S)
    BY SubSeqProperties, <1>1
<1>3. Len(r) = Len(p) - Len(a) /\ \A i \in 1..Len(r) : r[i] = p[Len(a) + i]
    <2>1. CASE Len(a) = Len(p)
        BY <1>1, <2>1, SubSeqProperties
    <2>2. CASE Len(a) < Len(p)
        BY <1>1, <2>2, SubSeqProperties
    <2>3. Len(a) = Len(p) \/ Len(a) < Len(p)
        BY <1>1
    <2>. QED  BY <2>1, <2>2, <2>3
<1>. HIDE DEF r
<1>4. /\ a \o r \in Seq(S) /\ Len(a \o r) = Len(p)
      /\ \A i \in 1..Len(p) : (a \o r)[i] = IF i <= Len(a) THEN a[i] ELSE r[i - Len(a)]
    BY <1>1, <1>2, <1>3, ConcatProperties
<1>5. \A i \in 1..Len(p) : (a \o r)[i] = p[i]
    <2>. TAKE i \in 1..Len(p)
    <2>1. CASE i <= Len(a)
        BY <1>1, <1>4, <2>1
    <2>2. CASE i > Len(a)
        <3>1. i - Len(a) \in 1..Len(r) /\ Len(a) + (i - Len(a)) = i
            BY <1>1, <1>3, <2>2
        <3>2. r[i - Len(a)] = p[Len(a) + (i - Len(a))]
            BY <1>3, <3>1
        <3>. QED  BY <1>1, <1>4, <2>2, <3>1, <3>2
    <2>3. i <= Len(a) \/ i > Len(a)
        BY <1>1
    <2>. QED  BY <2>1, <2>2, <2>3
<1>6. a \o r = p
    BY <1>4, <1>5, SeqEqual
<1>. QED  BY <1>2, <1>6 DEF r

\* Paths below a directory begin and differ as what is below it does.
LEMMA PrefixMoves ==
    ASSUME NEW S, NEW a \in Seq(S), NEW x \in Seq(S), NEW y \in Seq(S)
    PROVE  /\ a \o x \in Seq(S)
           /\ IsPrefix(a \o x, a \o y) <=> IsPrefix(x, y)
           /\ a \o x = a \o y <=> x = y
<1>1. Len(a) \in Nat /\ Len(x) \in Nat /\ Len(y) \in Nat
    <2>1. \A z \in Seq(S) : Len(z) \in Nat
        BY LenProperties
    <2>. QED  BY <2>1
<1>2. \A z \in Seq(S) : /\ a \o z \in Seq(S) /\ Len(a \o z) = Len(a) + Len(z)
                        /\ \A i \in 1..(Len(a) + Len(z)) : (a \o z)[i] = IF i <= Len(a) THEN a[i] ELSE z[i - Len(a)]
    BY ConcatProperties
<1>. DEFINE ax == a \o x
            ay == a \o y
<1>3. /\ ax \in Seq(S) /\ Len(ax) = Len(a) + Len(x)
      /\ \A i \in 1..(Len(a) + Len(x)) : ax[i] = IF i <= Len(a) THEN a[i] ELSE x[i - Len(a)]
    BY <1>2
<1>4. /\ ay \in Seq(S) /\ Len(ay) = Len(a) + Len(y)
      /\ \A i \in 1..(Len(a) + Len(y)) : ay[i] = IF i <= Len(a) THEN a[i] ELSE y[i - Len(a)]
    BY <1>2
<1>. HIDE DEF ax, ay
<1>5. ASSUME IsPrefix(ax, ay)
      PROVE  IsPrefix(x, y)
    <2>1. Len(ax) <= Len(ay) /\ \A i \in 1..Len(ax) : ax[i] = ay[i]
        <3>1. ax \in Seq(S) /\ ay \in Seq(S)
            BY <1>3, <1>4
        <3>. QED  BY <1>5, <3>1, PrefixAgrees
    <2>2. Len(x) <= Len(y)
        BY <1>1, <1>3, <1>4, <2>1
    <2>3. ASSUME NEW i \in 1..Len(x)
          PROVE  x[i] = y[i]
        <3>. DEFINE k == Len(a) + i
        <3>1. k \in 1..(Len(a) + Len(x)) /\ k \in 1..(Len(a) + Len(y)) /\ ~(k <= Len(a)) /\ k - Len(a) = i
            BY <1>1, <2>2
        <3>. HIDE DEF k
        <3>2. ax[k] = x[i] /\ ay[k] = y[i]
            BY <1>3, <1>4, <3>1
        <3>. QED  BY <1>3, <2>1, <3>1, <3>2
    <2>. QED  BY <2>2, <2>3, PrefixAgrees
<1>6. ASSUME IsPrefix(x, y)
      PROVE  IsPrefix(ax, ay)
    <2>1. Len(x) <= Len(y) /\ \A i \in 1..Len(x) : x[i] = y[i]
        BY <1>6, PrefixAgrees
    <2>2. Len(ax) <= Len(ay)
        BY <1>1, <1>3, <1>4, <2>1
    <2>3. ASSUME NEW k \in 1..Len(ax)
          PROVE  ax[k] = ay[k]
        <3>1. k \in 1..(Len(a) + Len(x)) /\ k \in 1..(Len(a) + Len(y))
            BY <1>1, <1>3, <2>1
        <3>2. CASE k <= Len(a)
            BY <1>3, <1>4, <3>1, <3>2
        <3>3. CASE ~(k <= Len(a))
            <4>1. k - Len(a) \in 1..Len(x)
                BY <1>1, <3>1, <3>3
            <4>2. x[k - Len(a)] = y[k - Len(a)]
                BY <2>1, <4>1
            <4>. QED  BY <1>3, <1>4, <3>1, <3>3, <4>2
        <3>. QED  BY <3>2, <3>3
    <2>. QED  BY <1>3, <1>4, <2>2, <2>3, PrefixAgrees
<1>7. ax = ay => x = y
    <2>. SUFFICES ASSUME ax = ay PROVE x = y
        OBVIOUS
    <2>1. IsPrefix(ax, ay)
        BY <1>3, PrefixOrder
    <2>2. IsPrefix(x, y) /\ Len(x) = Len(y)
        BY <1>1, <1>3, <1>4, <1>5, <2>1
    <2>. QED  BY <1>1, <2>2, PrefixOrder
<1>. QED  BY <1>3, <1>5, <1>6, <1>7 DEF ax, ay

\* What is taken of a tree is a plain map.
LEMMA MappedIs ==
    ASSUME IsTree(source), NEW src \in {<<>>} \union DOMAIN source, NEW dest \in {<<>>} \union Targets,
           NEW m, m = Mapped(src, dest), <<>> \notin DOMAIN m
    PROVE  IsMap(m) /\ PlainMap(m)
<1>. DEFINE entry(q) == IF IsA("file", source, q) THEN [kind |-> "from", rel |-> q] ELSE source[q]
            strip(q) == SubSeq(q, Len(src) + 1, Len(q))
            taken    == IF IsDir(source, src) THEN Below(source, src) ELSE {src}
            found    == {q \in taken : source[q].kind # "special"}
            to       == [q \in found |-> dest \o strip(q)]
            got(arc) == CHOOSE q \in found : dest \o strip(q) = arc
<1>1. m = [arc \in {dest \o strip(q) : q \in found} |-> entry(got(arc))]
    BY DEF Mapped
<1>2. src \in TreePaths /\ dest \in TreePaths
    <2>1. <<>> \in TreePaths /\ DOMAIN source \subseteq AllPaths /\ Targets \subseteq AllPaths
        BY ComponentsAre, TreeParts, BuildAssumption
    <2>. QED  BY <2>1 DEF AllPaths
<1>3. \A q \in found : /\ q \in DOMAIN source /\ source[q] \in Storable /\ q \in TreePaths /\ IsPrefix(src, q)
                       /\ (IsDir(source, src) \/ q = src)
    <2>. SUFFICES ASSUME NEW q \in found
                  PROVE  /\ q \in DOMAIN source /\ source[q] \in Storable /\ q \in TreePaths /\ IsPrefix(src, q)
                         /\ (IsDir(source, src) \/ q = src)
        OBVIOUS
    <2>1. q \in taken /\ source[q].kind # "special"
        OBVIOUS
    <2>2. Below(source, src) = {x \in DOMAIN source : IsPrefix(src, x) /\ x # src}
        BY <1>2, TreeParts, AboveBelow
    <2>3. IsPrefix(src, src)
        BY <1>2, PrefixOrder DEF TreePaths
    <2>4. ~IsDir(source, src) => src \in DOMAIN source
        BY DEF IsDir
    <2>5. q \in DOMAIN source /\ IsPrefix(src, q) /\ (IsDir(source, src) \/ q = src)
        BY <2>1, <2>2, <2>3, <2>4
    <2>6. q \in AllPaths /\ source[q] \in TreeEntries
        BY <2>5, TreeParts
    <2>. QED  BY <2>1, <2>5, <2>6, EntryKinds DEF AllPaths
<1>4. IsFiniteSet(found)
    <2>1. found \subseteq DOMAIN source /\ IsFiniteSet(DOMAIN source)
        BY <1>3, TreeParts
    <2>. QED  BY <2>1, FS_Subset
<1>5. \A q \in found : /\ strip(q) \in TreePaths /\ src \o strip(q) = q /\ dest \o strip(q) \in TreePaths
    <2>. SUFFICES ASSUME NEW q \in found
                  PROVE  strip(q) \in TreePaths /\ src \o strip(q) = q /\ dest \o strip(q) \in TreePaths
        OBVIOUS
    <2>1. q \in TreePaths /\ IsPrefix(src, q)
        BY <1>3
    <2>2. strip(q) \in TreePaths /\ src \o strip(q) = q
        BY <1>2, <2>1, RestOf DEF TreePaths
    <2>. QED  BY <1>2, <2>2, PrefixMoves DEF TreePaths
<1>. HIDE DEF found, strip, taken
<1>6. DOMAIN m = {dest \o strip(q) : q \in found}
    BY <1>1
<1>7. \A arc \in DOMAIN m : got(arc) \in found /\ dest \o strip(got(arc)) = arc /\ m[arc] = entry(got(arc))
    <2>. SUFFICES ASSUME NEW arc \in DOMAIN m
                  PROVE  got(arc) \in found /\ dest \o strip(got(arc)) = arc /\ m[arc] = entry(got(arc))
        OBVIOUS
    <2>1. \E q \in found : dest \o strip(q) = arc
        BY <1>6
    <2>2. got(arc) \in found /\ dest \o strip(got(arc)) = arc
        BY <2>1
    <2>. HIDE DEF got, entry
    <2>. QED  BY <1>1, <1>6, <2>2
<1>. HIDE DEF got
<1>8. \A q \in found : /\ entry(q) \in MapEntries
                       /\ source[q].kind = "dir" => entry(q).kind = "dir"
    <2>. SUFFICES ASSUME NEW q \in found
                  PROVE  entry(q) \in MapEntries /\ (source[q].kind = "dir" => entry(q).kind = "dir")
        OBVIOUS
    <2>1. source[q] \in Storable /\ q \in TreePaths
        BY <1>3
    <2>2. CASE IsA("file", source, q)
        BY <2>1, <2>2 DEF MapEntries, IsA
    <2>3. CASE ~IsA("file", source, q)
        BY <2>1, <2>3 DEF MapEntries
    <2>. QED  BY <2>2, <2>3
<1>. HIDE DEF entry
<1>9. m \in [DOMAIN m -> MapEntries]
    <2>1. \A arc \in DOMAIN m : m[arc] \in MapEntries
        BY <1>7, <1>8
    <2>2. m = [arc \in DOMAIN m |-> m[arc]]
        BY <1>1
    <2>. QED  BY <2>1, <2>2
<1>10. DOMAIN m \subseteq AllPaths
    BY <1>5, <1>6 DEF AllPaths
<1>11. IsFiniteSet(DOMAIN m)
    <2>1. to \in Surjection(found, DOMAIN m)
        <3>1. to \in [found -> DOMAIN m] /\ \A x \in DOMAIN m : \E q \in found : to[q] = x
            BY <1>6
        <3>. HIDE DEF to
        <3>. QED  BY <3>1 DEF Surjection
    <2>. HIDE DEF to
    <2>. QED  BY <1>4, <2>1, FS_Surjection
<1>12. PlainMap(m)
    <2>. SUFFICES ASSUME NEW p \in DOMAIN m, NEW r \in Above(p) \intersect DOMAIN m
                  PROVE  m[r].kind = "dir"
        BY DEF PlainMap
    <2>. DEFINE q == got(p)
                x == got(r)
    <2>1. /\ q \in found /\ dest \o strip(q) = p
          /\ x \in found /\ dest \o strip(x) = r /\ m[r] = entry(x)
        BY <1>7
    <2>. HIDE DEF q, x
    <2>2. p \in AllPaths /\ r \in AllPaths /\ IsPrefix(r, p) /\ r # p
        BY <1>10, LevelsAre DEF Above, AllPaths
    <2>3. /\ strip(q) \in TreePaths /\ src \o strip(q) = q
          /\ strip(x) \in TreePaths /\ src \o strip(x) = x
        BY <1>5, <2>1
    <2>4. IsPrefix(strip(x), strip(q)) /\ strip(x) # strip(q)
        BY <1>2, <2>1, <2>2, <2>3, PrefixMoves DEF TreePaths
    <2>5. IsPrefix(x, q) /\ x # q
        <3>. DEFINE a == strip(x)
                    b == strip(q)
        <3>1. a \in Seq(Range(Names)) /\ b \in Seq(Range(Names)) /\ src \in Seq(Range(Names)) /\ IsPrefix(a, b) /\ a # b
            BY <1>2, <2>3, <2>4 DEF TreePaths
        <3>. HIDE DEF a, b
        <3>2. IsPrefix(src \o a, src \o b) /\ src \o a # src \o b
            BY <3>1, PrefixMoves
        <3>. QED  BY <2>3, <3>2 DEF a, b
    <2>6. q \in DOMAIN source /\ x \in DOMAIN source /\ x \in TreePaths
        BY <1>3, <2>1
    <2>7. IsDir(source, x)
        BY <2>5, <2>6, TreeAbove
    <2>8. x # <<>>
        BY <2>6, TreeParts DEF AllPaths
    <2>9. source[x].kind = "dir"
        BY <2>7, <2>8 DEF IsDir, IsA
    <2>. QED  BY <1>8, <2>1, <2>9
<1>. QED  BY <1>9, <1>10, <1>11, <1>12 DEF IsMap

-----------------------------------------------------------------------------
(* What WORKDIR makes. *)

\* The directories of WORKDIR are a plain map, and stamping leaves a tree.
LEMMA WorkdirTyped ==
    ASSUME NEW t, IsTree(t), NEW p \in TreePaths, MakeDirs(t, p).ok,
           NEW missing, missing = LevelsOf(p) \ DOMAIN t,
           NEW m, m = [q \in missing |-> Dir(700)]
    PROVE  /\ IsTree(Stamped(MakeDirs(t, p).tree, p, missing))
           /\ IsMap(m) /\ PlainMap(m) /\ DOMAIN m = missing /\ IsTree(EmptyTree)
           /\ \A q \in missing : Readable(EmptyTree, m[q]) /\ m[q] = Dir(700) /\ Contents(EmptyTree, m)[q] = Dir(700)
<1>. DEFINE u == MakeDirs(t, p).tree
            v == Stamped(u, p, missing)
<1>1. Dir(700) \in Storable /\ Dir(700).kind = "dir" /\ Dir(700) \in TreeEntries /\ Dir(700) \in MapEntries
    BY EntryKinds DEF TreeEntries, MapEntries
<1>2. IsTree(u)
    BY MadeDirs
<1>3. IsTree(v)
    <2>. HIDE DEF u
    <2>1. DOMAIN v = DOMAIN u /\ IsFcn(v)
        BY DEF Stamped, IsFcn
    <2>2. \A q \in DOMAIN u : v[q] \in {Dir(700), u[q]}
        BY DEF Stamped
    <2>3. \A q \in DOMAIN u : u[q] \in TreeEntries
        BY <1>2, TreeParts
    <2>. HIDE DEF v
    <2>. QED  BY <1>1, <1>2, <2>1, <2>2, <2>3, SameDirsTree
<1>4. missing \subseteq AllPaths /\ IsFiniteSet(missing)
    <2>1. LevelsOf(p) \subseteq AllPaths /\ IsFiniteSet(LevelsOf(p))
        BY LevelsAre
    <2>. QED  BY <2>1, FS_Subset
<1>5. DOMAIN m = missing /\ \A q \in missing : m[q] = Dir(700)
    OBVIOUS
<1>6. m \in [DOMAIN m -> MapEntries]
    BY <1>1
<1>7. IsMap(m) /\ PlainMap(m)
    BY <1>1, <1>4, <1>5, <1>6 DEF IsMap, PlainMap
<1>8. IsTree(EmptyTree)
    BY NothingUnpacked
<1>9. Readable(EmptyTree, Dir(700)) /\ Content(EmptyTree, Dir(700)) = Dir(700)
    <2>1. Dir(700).kind # "from"
        BY <1>1
    <2>. QED  BY <1>1, <1>8, <2>1, MapEntryIs
<1>. QED  BY <1>3, <1>5, <1>7, <1>8, <1>9 DEF Contents

\* Where no level that was there has a mode of its own, they are written as the
\* layer has them.
LEMMA WorkdirWrites ==
    ASSUME NEW t, IsTree(t), NEW p \in TreePaths, MakeDirs(t, p).ok,
           NEW missing, missing = LevelsOf(p) \ DOMAIN t,
           NEW m, m = [q \in missing |-> Dir(700)],
           \A q \in LevelsAbove(missing) \ missing : IsA("dir", t, q) => t[q].mode = 755,
           IsA("dir", t, p) => t[p].mode = 700
    PROVE  /\ missing = {} => Stamped(MakeDirs(t, p).tree, p, missing) = t
           /\ missing # {} => /\ Placed(t, m)
                              /\ Stamped(MakeDirs(t, p).tree, p, missing) = Written(t, Contents(EmptyTree, m), missing)
<1>. DEFINE u == MakeDirs(t, p).tree
            v == Stamped(u, p, missing)
<1>1. /\ \A q \in LevelsOf(p) : q \in DOMAIN t => IsDir(t, q)
      /\ DOMAIN u = LevelsOf(p) \union DOMAIN t /\ IsFcn(u)
      /\ \A q \in DOMAIN t : u[q] = t[q]
    BY MadeDirs
<1>2. LevelsOf(p) \subseteq AllPaths /\ (p # <<>> => p \in LevelsOf(p)) /\ (p = <<>> => LevelsOf(p) = {})
    <2>1. LevelsOf(p) \subseteq AllPaths /\ (p # <<>> => p \in LevelsOf(p))
        BY LevelsAre
    <2>2. p = <<>> => LevelsOf(p) = {}
        BY DEF LevelsOf
    <2>. QED  BY <2>1, <2>2
<1>3. \A q \in LevelsOf(p) : q \in DOMAIN t => t[q].kind = "dir" /\ t[q] \in Storable
    <2>1. \A q \in LevelsOf(p) : q \in DOMAIN t => t[q].kind = "dir"
        BY <1>1, <1>2 DEF IsDir, IsA, AllPaths
    <2>2. \A q \in DOMAIN t : t[q] \in TreeEntries
        BY TreeParts
    <2>. QED  BY <2>1, <2>2, EntryKinds DEF Special
<1>4. /\ IsFcn(t) /\ DOMAIN t \subseteq AllPaths
    BY TreeParts
<1>. HIDE DEF u
<1>5. /\ DOMAIN v = LevelsOf(p) \union DOMAIN t /\ IsFcn(v)
      /\ \A q \in DOMAIN v : v[q] = IF q \in missing \union {p} THEN Dir(700) ELSE u[q]
    BY <1>1 DEF Stamped, IsFcn
<1>. HIDE DEF v
<1>6. ASSUME missing = {}
      PROVE  v = t
    <2>1. DOMAIN v = DOMAIN t
        BY <1>5, <1>6
    <2>2. ASSUME p \in DOMAIN t
          PROVE  t[p] = Dir(700)
        <3>1. p \in LevelsOf(p)
            BY <1>2, <1>4, <2>2 DEF AllPaths
        <3>2. t[p].kind = "dir" /\ t[p] \in Storable
            BY <1>3, <2>2, <3>1
        <3>. QED  BY <2>2, <3>2, EntryKinds DEF IsA
    <2>3. \A q \in DOMAIN t : v[q] = t[q]
        BY <1>1, <1>5, <1>6, <2>1, <2>2
    <2>. QED  BY <1>4, <1>5, <2>1, <2>3, FcnEqual
<1>7. ASSUME missing # {}
      PROVE  Placed(t, m) /\ v = Written(t, Contents(EmptyTree, m), missing)
    <2>. DEFINE L == LevelsAbove(missing)
                w == Written(t, Contents(EmptyTree, m), missing)
    <2>1. p \in missing
        <3>1. PICK q \in LevelsOf(p) : q \notin DOMAIN t
            BY <1>7
        <3>2. p \in LevelsOf(p) /\ q \in TreePaths /\ IsPrefix(q, p) /\ q # <<>>
            BY <1>2, LevelsAre DEF AllPaths
        <3>3. p \in DOMAIN t => q \in DOMAIN t
            <4>. SUFFICES ASSUME p \in DOMAIN t PROVE q \in DOMAIN t
                OBVIOUS
            <4>1. q = p \/ IsDir(t, q)
                BY <3>2, TreeAbove
            <4>. QED  BY <3>2, <4>1 DEF IsDir, IsA
        <3>. QED  BY <3>1, <3>2, <3>3
    <2>2. L \subseteq LevelsOf(p)
        <3>. SUFFICES ASSUME NEW q \in L PROVE q \in LevelsOf(p)
            OBVIOUS
        <3>1. PICK x \in missing : q \in Above(x)
            BY DEF LevelsAbove
        <3>2. x \in AllPaths /\ x \in LevelsOf(p)
            BY <1>2
        <3>3. q \in AllPaths /\ IsPrefix(q, x)
            BY <3>1, <3>2, LevelsAre DEF Above, AllPaths
        <3>. QED  BY <3>2, <3>3, LevelsAre
    <2>3. \A q \in L \ missing : q \in DOMAIN t /\ t[q] = Dir(755)
        <3>. SUFFICES ASSUME NEW q \in L \ missing PROVE q \in DOMAIN t /\ t[q] = Dir(755)
            OBVIOUS
        <3>1. q \in DOMAIN t /\ t[q].kind = "dir" /\ t[q] \in Storable
            <4>. HIDE DEF L, w
            <4>1. q \in LevelsOf(p) /\ q \in DOMAIN t
                BY <2>2
            <4>. QED  BY <1>3, <4>1
        <3>2. t[q].mode = 755
            <4>1. q \in LevelsAbove(missing) \ missing
                OBVIOUS
            <4>2. IsA("dir", t, q)
                BY <3>1 DEF IsA
            <4>. HIDE DEF L
            <4>. QED  BY <4>1, <4>2
        <3>. QED  BY <3>1, <3>2, EntryKinds
    <2>4. DOMAIN m = missing /\ \A q \in missing : m[q].kind = "dir" /\ q \notin DOMAIN t
        BY EntryKinds
    <2>5. Placed(t, m)
        BY <2>3, <2>4 DEF Placed
    <2>6. \A q \in missing : Contents(EmptyTree, m)[q] = Dir(700)
        BY WorkdirTyped
    <2>7. /\ DOMAIN w = DOMAIN t \union L \union missing /\ IsFcn(w)
          /\ \A q \in DOMAIN w : w[q] = IF q \in missing THEN Contents(EmptyTree, m)[q]
                                     ELSE IF q \in L THEN Dir(755) ELSE t[q]
        BY DEF Written, IsFcn
    <2>. HIDE DEF L, w
    <2>8. DOMAIN v = DOMAIN w
        BY <1>5, <2>2, <2>7
    <2>9. \A q \in DOMAIN w : v[q] = w[q]
        <3>. SUFFICES ASSUME NEW q \in DOMAIN w PROVE v[q] = w[q]
            OBVIOUS
        <3>1. CASE q \in missing
            BY <1>5, <2>6, <2>7, <2>8, <3>1
        <3>2. CASE q \notin missing
            <4>1. q \in DOMAIN t /\ v[q] = t[q]
                BY <1>1, <1>5, <2>1, <2>3, <2>7, <2>8, <3>2
            <4>. QED  BY <2>3, <2>7, <3>2, <4>1
        <3>. QED  BY <3>1, <3>2
    <2>10. v = w
        BY <1>5, <2>7, <2>8, <2>9, FcnEqual
    <2>. QED  BY <2>5, <2>10 DEF w
<1>. QED  BY <1>6, <1>7 DEF u, v

-----------------------------------------------------------------------------
(* The type invariant. *)

TypeInv ==
    /\ TypeOK
    /\ Clean(image.tree) /\ Kept(before)
    /\ planted /\ pc \in {"running", "exited"} => IsA("file", before, Script)

\* What a layer adds to leaves an image.
LEMMA LayerAdded ==
    ASSUME NEW im, im \in {Good(im.tree), Bad(im.tree)}, IsTree(im.tree), Clean(im.tree),
           NEW layer \in Seq(Members), NEW r, r = Apply(im, layer)
    PROVE  /\ r \in {Good(r.tree), Bad(r.tree)} /\ IsTree(r.tree) /\ Clean(r.tree)
           /\ im \in Outcomes /\ r \in Outcomes
<1>1. im \in Outcomes
    BY OutcomesAre
<1>2. r \in Outcomes
    BY <1>1, ApplyParts
<1>. QED  BY <1>1, <1>2, OutcomesAre

\* Every stage starts typed.
LEMMA TypeInit == Init => TypeInv
<1>. SUFFICES ASSUME Init PROVE TypeInv
    OBVIOUS
<1>1. PICK layers \in Bases : image = Unpacked(layers) /\ rootfs = Unpacked(layers).tree
    BY DEF Init
<1>2. layers \in Seq(Seq(Members))
    BY BuildAssumption
<1>3. image \in Outcomes
    <2>1. PICK f : /\ Unpacked(layers) = f[Len(layers)] /\ \A i \in 0..Len(layers) : f[i] \in Outcomes
        BY <1>2, LayersUnpack
    <2>2. Len(layers) \in 0..Len(layers)
        BY <1>2, LenProperties
    <2>. QED  BY <1>1, <2>1, <2>2
<1>4. image \in {Good(image.tree), Bad(image.tree)} /\ IsTree(image.tree) /\ Clean(image.tree)
    BY <1>3, OutcomesAre
<1>5. IsTree(source) /\ rootfs = image.tree
    BY <1>1, BuildAssumption DEF Init
<1>6. IsTree(EmptyTree) /\ Kept(EmptyTree) /\ IsMap(EmptyTree)
    BY KeptIs
<1>7. 0 \in 0..MaxSteps /\ 0 \in 0..MaxEdits
    BY BuildAssumption
<1>. QED  BY <1>4, <1>5, <1>6, <1>7 DEF Init, TypeInv, TypeOK

\* Every step keeps the types, and the script of a RUN in the snapshot before it.
LEMMA TypeStep == TypeInv /\ [Next]_vars => TypeInv'
<1>. SUFFICES ASSUME TypeInv, [Next]_vars PROVE TypeInv'
    OBVIOUS
<1>0. /\ IsTree(source) /\ IsTree(rootfs) /\ IsTree(before) /\ IsTree(after) /\ IsTree(image.tree)
      /\ image \in {Good(image.tree), Bad(image.tree)} /\ IsMap(map)
      /\ Clean(image.tree) /\ Kept(before)
    BY DEF TypeInv, TypeOK
<1>1. IsTree(EmptyTree) /\ Kept(EmptyTree) /\ IsMap(EmptyTree)
    BY KeptIs
<1>2. MaxSteps \in Nat /\ MaxEdits \in Nat
    BY BuildAssumption
<1>3. steps \in 0..MaxSteps => (steps < MaxSteps => steps + 1 \in 0..MaxSteps)
    BY <1>2
<1>4. edits \in 0..MaxEdits => (edits < MaxEdits => edits + 1 \in 0..MaxEdits)
    BY <1>2
<1>5. 0 \in 0..MaxEdits
    BY <1>2
<1>6. CASE RunBegins
    <2>1. IsTree(rootfs') /\ (planted' => IsA("file", before', Script))
        BY <1>0, <1>6, ScriptIs DEF RunBegins
    <2>2. IsTree(before') /\ Kept(before')
        <3>1. before' = Snapshot(rootfs')
            BY <1>6 DEF RunBegins
        <3>. QED  BY <2>1, <3>1, SnapshotIs, KeptIs
    <2>. QED  BY <1>3, <1>5, <1>6, <2>1, <2>2 DEF RunBegins, Begins, CanBegin, TypeInv, TypeOK
<1>7. CASE RunEdits
    <2>1. IsTree(rootfs')
        BY <1>0, <1>7, EditedTyped DEF RunEdits
    <2>. QED  BY <1>4, <1>7, <2>1 DEF RunEdits, TypeInv, TypeOK, run
<1>8. CASE RunExits
    BY <1>8 DEF RunExits, TypeInv, TypeOK, stage
<1>9. CASE StrayEdits
    <2>1. IsTree(rootfs')
        BY <1>0, <1>9, EditedTyped DEF StrayEdits
    <2>. QED  BY <1>4, <1>9, <2>1 DEF StrayEdits, TypeInv, TypeOK, run
<1>10. CASE StopStep
    <2>1. /\ pc = "exited" /\ RemoveScript /\ pc' = "settled" /\ stray' \in {FALSE, stray}
          /\ drift' = (IF stray' THEN drift \union {"stray"} ELSE drift)
          /\ UNCHANGED <<source, image, base, after, planted, map, steps, edits>>
        BY <1>10 DEF StopStep
    <2>2. IsTree(rootfs') /\ IsTree(before') /\ Kept(before')
        <3>1. CASE ~planted
            BY <1>0, <2>1, <3>1 DEF RemoveScript
        <3>2. CASE planted
            <4>1. IsA("file", before, Script)
                BY <2>1, <3>2 DEF TypeInv
            <4>2. rootfs' \in {rootfs, Drop(rootfs, Script)} /\ before' = Without(before, {Script})
                BY <2>1, <3>2 DEF RemoveScript
            <4>. QED  BY <1>0, <4>1, <4>2, ScriptIs, KeptIs
        <3>. QED  BY <3>1, <3>2
    <2>3. drift' \subseteq Reasons
        BY <2>1 DEF TypeInv, TypeOK, Reasons
    <2>. QED  BY <2>1, <2>2, <2>3 DEF TypeInv, TypeOK
<1>11. CASE RunFails
    BY <1>11 DEF RunFails, TypeInv, TypeOK, stage, run
<1>12. CASE Compare
    <2>1. IsTree(after')
        BY <1>0, <1>12, SnapshotIs DEF Compare
    <2>2. drift' \subseteq Reasons
        BY <1>12 DEF Compare, TypeInv, TypeOK, Reasons
    <2>. QED  BY <1>12, <2>1, <2>2 DEF Compare, TypeInv, TypeOK, stage
<1>13. CASE PackRun
    <2>. DEFINE layer == PackDiff(rootfs, Added(before, after) \union Modified(before, after), Deleted(before, after))
    <2>1. layer \in Seq(Members)
        <3>1. DOMAIN before \subseteq AllPaths /\ IsFiniteSet(DOMAIN before)
            BY <1>0, TreeParts
        <3>2. Deleted(before, after) \subseteq AllPaths /\ IsFiniteSet(Deleted(before, after))
            BY <3>1, FS_Subset DEF Deleted
        <3>. QED  BY <1>0, <3>2, DiffTyped
    <2>2. image' = Apply(image, layer)
        BY <1>13 DEF PackRun, AddLayer
    <2>3. image' \in {Good(image'.tree), Bad(image'.tree)} /\ IsTree(image'.tree) /\ Clean(image'.tree)
        <3>. HIDE DEF layer
        <3>. QED  BY <1>0, <2>1, <2>2, LayerAdded
    <2>. QED  BY <1>1, <1>13, <2>3 DEF PackRun, TypeInv, TypeOK
<1>14. CASE Enumerate
    <2>1. PICK m \in Maps : /\ <<>> \notin DOMAIN m /\ map' = m
                            /\ pc' = IF m = EmptyTree THEN "idle" ELSE "enumerated"
        BY <1>14 DEF Enumerate
    <2>2. IsMap(m)
        <3>1. CASE m \in Archives
            BY <3>1, BuildAssumption
        <3>2. CASE m \notin Archives
            <4>1. PICK src \in {<<>>} \union DOMAIN source, dest \in {<<>>} \union Targets : m = Mapped(src, dest)
                BY <2>1, <3>2 DEF Maps
            <4>. QED  BY <1>0, <2>1, <4>1, MappedIs
        <3>. QED  BY <3>1, <3>2
    <2>. QED  BY <1>3, <1>5, <1>14, <2>1, <2>2 DEF Enumerate, Begins, CanBegin, TypeInv, TypeOK, stage, run
<1>15. CASE SourceChanges
    <2>1. IsTree(source')
        BY <1>0, <1>15, EditedTyped DEF SourceChanges
    <2>2. drift' \subseteq Reasons
        BY <1>15 DEF SourceChanges, TypeInv, TypeOK, Reasons
    <2>. QED  BY <1>4, <1>15, <2>1, <2>2 DEF SourceChanges, TypeInv, TypeOK, stage, run
<1>16. CASE WriteMap
    <2>1. Materialise(rootfs, source, map) \in States
        BY <1>0, MapTyped
    <2>2. IsTree(rootfs')
        <3>1. rootfs' = Materialise(rootfs, source, map).tree
            BY <1>16 DEF WriteMap
        <3>. QED  BY <2>1, <3>1, StatesAre
    <2>3. drift' \subseteq Reasons
        BY <1>16 DEF WriteMap, CopyReasons, TypeInv, TypeOK
    <2>4. /\ pc = "enumerated" /\ UNCHANGED <<source, image, base, run, steps, edits>>
          /\ \/ pc' = "written" /\ map' = map
             \/ pc' = "failed" /\ map' = EmptyTree
        BY <1>16 DEF WriteMap
    <2>. QED  BY <1>1, <2>2, <2>3, <2>4 DEF TypeInv, TypeOK, run
<1>17. CASE PackMap
    <2>1. PackFiles(source, map) \in Seq(Members)
        BY <1>0, PackTyped
    <2>2. image' = Apply(image, PackFiles(source, map))
        BY <1>17 DEF PackMap, AddLayer
    <2>3. image' \in {Good(image'.tree), Bad(image'.tree)} /\ IsTree(image'.tree) /\ Clean(image'.tree)
        BY <1>0, <2>1, <2>2, LayerAdded
    <2>. QED  BY <1>1, <1>17, <2>3 DEF PackMap, TypeInv, TypeOK, run
<1>18. CASE Workdir
    <2>. DEFINE kept == UNCHANGED <<stage, drift>>
    <2>1. PICK path \in Targets :
            LET p       == Resolve(rootfs, path)
                made    == MakeDirs(rootfs, p)
                missing == LevelsOf(p) \ DOMAIN rootfs
                reasons == {r \in Reasons :
                            \/ r = "stamped" /\ IsA("dir", rootfs, p) /\ rootfs[p].mode # 700
                            \/ r = "leveled" /\ Leveled(missing)}
            IN  IF p = NoPath \/ ~made.ok THEN UNCHANGED <<stage, drift>>
                ELSE /\ rootfs' = Stamped(made.tree, p, missing)
                     /\ IF missing = {} THEN UNCHANGED <<image, base>>
                        ELSE AddLayer(PackFiles(EmptyTree, [q \in missing |-> Dir(700)]))
                     /\ drift' = drift \union reasons
        BY <1>18 DEF Workdir
    <2>. DEFINE p       == Resolve(rootfs, path)
                missing == LevelsOf(p) \ DOMAIN rootfs
                m       == [q \in missing |-> Dir(700)]
    <2>2. p \in TreePaths \union {NoPath}
        <3>1. path \in Seq(Components)
            BY BuildAssumption, ComponentsAre DEF AllPaths
        <3>. QED  BY <1>0, <3>1, ResolveTyped
    <2>3. /\ IsTree(rootfs') /\ drift' \subseteq Reasons
          /\ image' \in {Good(image'.tree), Bad(image'.tree)} /\ IsTree(image'.tree) /\ Clean(image'.tree)
        <3>1. CASE p = NoPath \/ ~MakeDirs(rootfs, p).ok
            BY <1>0, <2>1, <3>1 DEF TypeInv, TypeOK, stage
        <3>2. CASE p \in TreePaths /\ p # NoPath /\ MakeDirs(rootfs, p).ok
            <4>1. /\ IsTree(Stamped(MakeDirs(rootfs, p).tree, p, missing))
                  /\ IsMap(m) /\ IsTree(EmptyTree)
                BY <1>0, <3>2, WorkdirTyped
            <4>2. PackFiles(EmptyTree, m) \in Seq(Members)
                BY <4>1, PackTyped
            <4>3. /\ rootfs' = Stamped(MakeDirs(rootfs, p).tree, p, missing)
                  /\ image' = image \/ image' = Apply(image, PackFiles(EmptyTree, m))
                BY <2>1, <3>2 DEF AddLayer
            <4>4. drift' \subseteq Reasons
                BY <2>1, <3>2 DEF TypeInv, TypeOK
            <4>. HIDE DEF p, missing, m
            <4>5. image' \in {Good(image'.tree), Bad(image'.tree)} /\ IsTree(image'.tree) /\ Clean(image'.tree)
                BY <1>0, <4>2, <4>3, LayerAdded
            <4>. QED  BY <4>1, <4>3, <4>4, <4>5
        <3>. QED  BY <2>2, <3>1, <3>2
    <2>4. /\ Begins /\ UNCHANGED <<source, pc, run, map, edits>>
        BY <1>18 DEF Workdir
    <2>. QED  BY <1>3, <2>3, <2>4 DEF Begins, CanBegin, TypeInv, TypeOK, run
<1>19. CASE FromStage
    <2>1. IsTree(source') /\ IsTree(rootfs')
        BY <1>0, <1>19, SnapshotIs DEF FromStage
    <2>. QED  BY <1>3, <1>19, <2>1 DEF FromStage, Begins, CanBegin, TypeInv, TypeOK, run
<1>20. CASE Over \/ UNCHANGED vars
    BY <1>20 DEF Over, TypeInv, TypeOK, vars, stage, run
<1>. QED  BY <1>6, <1>7, <1>8, <1>9, <1>10, <1>11, <1>12, <1>13, <1>14, <1>15, <1>16, <1>17, <1>18, <1>19, <1>20 DEF Next

\* Every reachable state has its type: trees stay trees, whatever a command or a
\* layer does to them, an image is what a layer can give (TypeOK).
THEOREM TypeCorrect == Spec => []TypeOK
<1>1. TypeInv => TypeOK
    BY DEF TypeInv
<1>. QED  BY <1>1, TypeInit, TypeStep, PTL DEF Spec

-----------------------------------------------------------------------------
(* The layers and the rootfs. *)

\* Archives that keep what they say apart from links of their own.
PlainArchives == \A m \in Archives : PlainMap(m)

\* What may have made the two differ: an archive that is not plain.
Excused == IF PlainArchives THEN {"archive"} ELSE {}

\* What a RUN is compared with, without its script.
Start == IF planted THEN Without(before, {Script}) ELSE before

\* What a RUN will pack.
ThisDiff == PackDiff(rootfs, Added(before, after) \union Modified(before, after), Deleted(before, after))

LayersInv ==
    /\ pc \in {"enumerated", "written"} /\ map \notin Archives => PlainMap(map)
    /\ stray /\ pc \in {"settled", "compared"} => "stray" \in drift
    /\ drift \subseteq Excused =>
         /\ pc \in {"idle", "enumerated"}  => image = Good(AsUnpacked(rootfs))
         /\ pc \in {"running", "exited"}   => image = Good(AsUnpacked(Start))
         /\ pc = "settled"                 => image = Good(AsUnpacked(before))
         /\ pc = "compared" => Apply(image, ThisDiff) = Good(AsUnpacked(rootfs))
         /\ pc = "written"  => Apply(image, PackFiles(source, map)) = Good(AsUnpacked(rootfs))

\* What is excused is one reason at most.
LEMMA ExcusedIs == Excused \subseteq {"archive"} /\ ("archive" \in Excused <=> PlainArchives)
BY DEF Excused

\* The type invariant, for the proofs below.
LEMMA TypedParts ==
    ASSUME TypeInv
    PROVE  /\ IsTree(source) /\ IsTree(rootfs) /\ IsTree(before) /\ IsTree(after) /\ IsTree(image.tree)
           /\ image \in {Good(image.tree), Bad(image.tree)} /\ IsMap(map)
           /\ Clean(image.tree) /\ Kept(before) /\ drift \subseteq Reasons
BY DEF TypeInv, TypeOK

\* A comparison without a reason finds what turns the one tree into the other.
LEMMA CompareGives ==
    ASSUME TypeInv, Compare, drift' \subseteq Excused
    PROVE  /\ Apply(Good(AsUnpacked(before)), ThisDiff') = Good(AsUnpacked(rootfs))
           /\ Baseline(Coarse(AsUnpacked(before)), ThisDiff') = Coarse(AsUnpacked(rootfs))
           /\ drift' = drift
<1>1. /\ after' = Snapshot(rootfs) /\ rootfs' = rootfs /\ before' = before
      /\ drift' = IF Retyped(before, after') THEN drift \union {"retyped"} ELSE drift
    BY DEF Compare, stage
<1>2. ~Retyped(before, after') /\ drift' = drift
    BY <1>1, ExcusedIs
<1>3. IsTree(rootfs) /\ IsTree(before) /\ Snapshot(before) = before
    BY TypedParts, KeptIs
<1>. DEFINE a == after'
            l == PackDiff(rootfs, Added(before, a) \union Modified(before, a), Deleted(before, a))
<1>4. ThisDiff' = l
    BY <1>1 DEF ThisDiff
<1>5. a = Snapshot(rootfs) /\ ~Retyped(before, a)
    BY <1>1, <1>2
<1>. HIDE DEF a
<1>6. /\ Apply(Good(AsUnpacked(before)), l) = Good(AsUnpacked(rootfs))
      /\ Baseline(Coarse(AsUnpacked(before)), l) = Coarse(AsUnpacked(rootfs))
    BY <1>3, <1>5, DiffPacked
<1>. QED  BY <1>2, <1>4, <1>6

\* A map written without a reason is packed as it was written.
LEMMA WriteGives ==
    ASSUME TypeInv, LayersInv, WriteMap, pc' = "written", drift' \subseteq Excused
    PROVE  /\ Apply(Good(AsUnpacked(rootfs)), PackFiles(source, map)) = Good(AsUnpacked(rootfs'))
           /\ Baseline(Coarse(AsUnpacked(rootfs)), PackFiles(source, map)) = Coarse(AsUnpacked(rootfs'))
           /\ map' = map /\ drift \subseteq Excused /\ (drift' = {} => drift = {})
<1>. DEFINE made == Materialise(rootfs, source, map)
<1>1. /\ pc = "enumerated" /\ made.ok /\ rootfs' = made.tree /\ map' = map
      /\ drift' = drift \union CopyReasons
    BY DEF WriteMap
<1>2. CopyReasons \subseteq {"archive"} /\ ("archive" \in CopyReasons => PlainArchives)
    BY <1>1, ExcusedIs
<1>. DEFINE levels == UNION {Above(p) : p \in DOMAIN map}
<1>3. /\ ~\E q \in levels \ DOMAIN map : IsA("link", rootfs, q)
      /\ ~Leveled(DOMAIN map)
      /\ ~\E q \in levels : IsA("file", rootfs, q)
      /\ ~\E p \in DOMAIN map : map[p].kind = "dir" /\ p \in DOMAIN rootfs
                                /\ rootfs[p].kind \in {"file", "special"}
      /\ ~PlainMap(map) => PlainArchives
    <2>1. \A r \in Reasons : r \in CopyReasons => r = "archive"
        BY <1>2
    <2>2. "linked" \in Reasons /\ "leveled" \in Reasons /\ "retyped" \in Reasons /\ "archive" \in Reasons
        BY DEF Reasons
    <2>3. "linked" \notin CopyReasons /\ "leveled" \notin CopyReasons /\ "retyped" \notin CopyReasons
        BY <2>1, <2>2
    <2>4. ~PlainMap(map) => "archive" \in CopyReasons
        BY <2>2 DEF CopyReasons
    <2>. QED  BY <1>2, <2>2, <2>3, <2>4 DEF CopyReasons
<1>4. levels = LevelsAbove(DOMAIN map)
    BY DEF LevelsAbove
<1>5. Straight(rootfs, map)
    <2>1. \A q \in LevelsAbove(DOMAIN map) \ DOMAIN map : IsA("dir", rootfs, q) => rootfs[q].mode = 755
        BY <1>3 DEF Leveled, LevelsAbove
    <2>. HIDE DEF levels
    <2>. QED  BY <1>3, <1>4, <2>1 DEF Straight
<1>6. PlainMap(map)
    <2>1. map \in Archives => PlainMap(map)
        BY <1>3 DEF PlainArchives
    <2>. QED  BY <1>1, <2>1 DEF LayersInv
<1>7. IsTree(rootfs) /\ IsTree(source) /\ IsMap(map)
    BY TypedParts
<1>. HIDE DEF levels
<1>8. /\ made = Good(Written(rootfs, Contents(source, map), DOMAIN map))
      /\ Placed(rootfs, map) /\ \A p \in DOMAIN map : Readable(source, map[p])
    BY <1>1, <1>5, <1>6, <1>7, MapOnDisk
<1>9. rootfs' = Written(rootfs, Contents(source, map), DOMAIN map)
    BY <1>1, <1>8, StatesAre
<1>. DEFINE v == AsUnpacked(Written(rootfs, Contents(source, map), DOMAIN map))
<1>10. /\ Apply(Good(AsUnpacked(rootfs)), PackFiles(source, map)) = Good(v)
       /\ Baseline(Coarse(AsUnpacked(rootfs)), PackFiles(source, map)) = Coarse(v)
    BY <1>6, <1>7, <1>8, MapPacked
<1>. QED  BY <1>1, <1>9, <1>10

\* WORKDIR without a reason packs what it made.
LEMMA WorkdirGives ==
    ASSUME TypeInv, Workdir, drift' \subseteq Excused
    PROVE  /\ \/ UNCHANGED <<rootfs, image, base>>
              \/ \E l \in Seq(Members) :
                    /\ image' = Apply(image, l) /\ base' = Baseline(base, l)
                    /\ Apply(Good(AsUnpacked(rootfs)), l) = Good(AsUnpacked(rootfs'))
                    /\ Baseline(Coarse(AsUnpacked(rootfs)), l) = Coarse(AsUnpacked(rootfs'))
           /\ drift' = drift
<1>1. PICK path \in Targets :
        LET p       == Resolve(rootfs, path)
            made    == MakeDirs(rootfs, p)
            missing == LevelsOf(p) \ DOMAIN rootfs
            reasons == {r \in Reasons :
                        \/ r = "stamped" /\ IsA("dir", rootfs, p) /\ rootfs[p].mode # 700
                        \/ r = "leveled" /\ Leveled(missing)}
        IN  IF p = NoPath \/ ~made.ok THEN UNCHANGED <<stage, drift>>
            ELSE /\ rootfs' = Stamped(made.tree, p, missing)
                 /\ IF missing = {} THEN UNCHANGED <<image, base>>
                    ELSE AddLayer(PackFiles(EmptyTree, [q \in missing |-> Dir(700)]))
                 /\ drift' = drift \union reasons
    BY DEF Workdir
<1>. DEFINE p       == Resolve(rootfs, path)
            missing == LevelsOf(p) \ DOMAIN rootfs
            m       == [q \in missing |-> Dir(700)]
            reasons == {r \in Reasons :
                        \/ r = "stamped" /\ IsA("dir", rootfs, p) /\ rootfs[p].mode # 700
                        \/ r = "leveled" /\ Leveled(missing)}
<1>2. IsTree(rootfs)
    BY TypedParts
<1>3. p \in TreePaths \union {NoPath}
    <2>1. path \in Seq(Components)
        BY BuildAssumption, ComponentsAre DEF AllPaths
    <2>. QED  BY <1>2, <2>1, ResolveTyped
<1>4. CASE p = NoPath \/ ~MakeDirs(rootfs, p).ok
    BY <1>1, <1>4 DEF stage
<1>5. CASE p \in TreePaths /\ p # NoPath /\ MakeDirs(rootfs, p).ok
    <2>1. /\ rootfs' = Stamped(MakeDirs(rootfs, p).tree, p, missing)
          /\ IF missing = {} THEN UNCHANGED <<image, base>> ELSE AddLayer(PackFiles(EmptyTree, m))
          /\ drift' = drift \union reasons
        BY <1>1, <1>5
    <2>2. reasons \subseteq {"archive"}
        BY <2>1, ExcusedIs
    <2>3. "stamped" \in Reasons /\ "leveled" \in Reasons
        BY DEF Reasons
    <2>4. reasons = {}
        BY <2>2
    <2>5. "stamped" \notin reasons /\ "leveled" \notin reasons
        BY <2>4
    <2>6. (IsA("dir", rootfs, p) => rootfs[p].mode = 700) /\ ~Leveled(missing)
        BY <2>3, <2>5
    <2>7. \A q \in LevelsAbove(missing) \ missing : IsA("dir", rootfs, q) => rootfs[q].mode = 755
        BY <2>6 DEF Leveled, LevelsAbove
    <2>. HIDE DEF reasons
    <2>8. drift' = drift
        BY <2>1, <2>4
    <2>. DEFINE made == MakeDirs(rootfs, p)
    <2>9. /\ IsMap(m) /\ PlainMap(m) /\ DOMAIN m = missing /\ IsTree(EmptyTree)
          /\ \A q \in DOMAIN m : Readable(EmptyTree, m[q])
        <3>1. /\ IsMap(m) /\ PlainMap(m) /\ DOMAIN m = missing /\ IsTree(EmptyTree)
              /\ \A q \in missing : Readable(EmptyTree, m[q])
            BY <1>2, <1>5, WorkdirTyped
        <3>. QED  BY <3>1
    <2>10. /\ missing = {} => Stamped(made.tree, p, missing) = rootfs
           /\ missing # {} => /\ Placed(rootfs, m)
                              /\ Stamped(made.tree, p, missing) = Written(rootfs, Contents(EmptyTree, m), missing)
        <3>1. IsA("dir", rootfs, p) => rootfs[p].mode = 700
            BY <2>6
        <3>2. made.ok /\ p \in TreePaths
            BY <1>5
        <3>. DEFINE mm == missing
        <3>3. mm = LevelsOf(p) \ DOMAIN rootfs /\ m = [q \in mm |-> Dir(700)]
            OBVIOUS
        <3>. HIDE DEF p, mm, m
        <3>. QED  BY <1>2, <2>7, <3>1, <3>2, <3>3, WorkdirWrites DEF mm
    <2>11. CASE missing = {}
        BY <2>1, <2>8, <2>10, <2>11
    <2>12. CASE missing # {}
        <3>. DEFINE v == AsUnpacked(Written(rootfs, Contents(EmptyTree, m), DOMAIN m))
                    l == PackFiles(EmptyTree, m)
        <3>. HIDE DEF p, missing, m
        <3>1. rootfs' = Written(rootfs, Contents(EmptyTree, m), DOMAIN m) /\ Placed(rootfs, m)
            BY <2>1, <2>9, <2>10, <2>12
        <3>2. /\ Apply(Good(AsUnpacked(rootfs)), l) = Good(v)
              /\ Baseline(Coarse(AsUnpacked(rootfs)), l) = Coarse(v)
            BY <1>2, <2>9, <3>1, MapPacked
        <3>3. l \in Seq(Members)
            BY <2>9, PackTyped
        <3>4. image' = Apply(image, l) /\ base' = Baseline(base, l)
            BY <2>1, <2>12 DEF AddLayer
        <3>5. v = AsUnpacked(rootfs')
            BY <3>1
        <3>. HIDE DEF v, l
        <3>6. /\ Apply(Good(AsUnpacked(rootfs)), l) = Good(AsUnpacked(rootfs'))
              /\ Baseline(Coarse(AsUnpacked(rootfs)), l) = Coarse(AsUnpacked(rootfs'))
            BY <3>2, <3>5
        <3>. QED  BY <2>8, <3>3, <3>4, <3>6
    <2>. QED  BY <2>11, <2>12
<1>. QED  BY <1>3, <1>4, <1>5

\* A stage starts with the rootfs its layers unpack to.
LEMMA LayersInit == Init => LayersInv
<1>. SUFFICES ASSUME Init PROVE LayersInv
    OBVIOUS
<1>1. PICK layers \in Bases : image = Unpacked(layers) /\ rootfs = Unpacked(layers).tree
    BY DEF Init
<1>2. layers \in Seq(Seq(Members)) /\ Unpacked(layers).ok
    BY BuildAssumption
<1>3. image \in Outcomes
    <2>1. PICK f : /\ Unpacked(layers) = f[Len(layers)] /\ \A i \in 0..Len(layers) : f[i] \in Outcomes
        BY <1>2, LayersUnpack
    <2>2. Len(layers) \in 0..Len(layers)
        BY <1>2, LenProperties
    <2>. QED  BY <1>1, <2>1, <2>2
<1>4. image.ok /\ image = Good(image.tree) /\ IsTree(image.tree) /\ Clean(image.tree)
    BY <1>1, <1>2, <1>3, OutcomesAre
<1>5. rootfs = image.tree
    BY <1>1
<1>6. AsUnpacked(rootfs) = image.tree
    BY <1>4, <1>5, CleanStays
<1>7. image = Good(AsUnpacked(rootfs))
    BY <1>4, <1>6
<1>8. pc = "idle" /\ ~stray
    BY DEF Init
<1>. QED  BY <1>7, <1>8 DEF LayersInv

\* Every step keeps what the layers and the rootfs have to do with each other.
LEMMA LayersStep == TypeInv /\ LayersInv /\ [Next]_vars => LayersInv'
<1>. SUFFICES ASSUME TypeInv, LayersInv, [Next]_vars PROVE LayersInv'
    OBVIOUS
<1>0. /\ IsTree(source) /\ IsTree(rootfs) /\ IsTree(before) /\ IsTree(after) /\ IsTree(image.tree)
      /\ image \in {Good(image.tree), Bad(image.tree)} /\ IsMap(map)
      /\ Clean(image.tree) /\ Kept(before)
    BY TypedParts
<1>1. Excused' = Excused
    BY DEF Excused
<1>2. CASE RunBegins
    <2>1. /\ pc = "idle" /\ drift' = drift /\ pc' = "running" /\ image' = image
          /\ before' = Snapshot(rootfs')
          /\ IF planted' THEN Script \notin DOMAIN rootfs /\ rootfs' = Put(rootfs, Script, ScriptFile)
             ELSE rootfs' = rootfs
        BY <1>2 DEF RunBegins, Begins
    <2>2. AsUnpacked(Start') = AsUnpacked(rootfs)
        <3>1. CASE planted'
            <4>1. Start' = Without(Snapshot(Put(rootfs, Script, ScriptFile)), {Script})
                BY <2>1, <3>1 DEF Start
            <4>. QED  BY <1>0, <2>1, <3>1, <4>1, ScriptIs
        <3>2. CASE ~planted'
            <4>1. Start' = Snapshot(rootfs)
                BY <2>1, <3>2 DEF Start
            <4>. QED  BY <1>0, <4>1, KeptIs
        <3>. QED  BY <3>1, <3>2
    <2>3. drift' \subseteq Excused => image' = Good(AsUnpacked(Start'))
        BY <2>1, <2>2 DEF LayersInv
    <2>. HIDE DEF Start
    <2>. QED  BY <1>1, <2>1, <2>3 DEF LayersInv
<1>3. CASE RunEdits
    <2>1. pc = "running" /\ UNCHANGED <<image, pc, before, planted, stray, map, drift>>
        BY <1>3 DEF RunEdits, run
    <2>2. Start' = Start
        BY <2>1 DEF Start
    <2>. QED  BY <1>1, <2>1, <2>2 DEF LayersInv
<1>4. CASE RunExits
    <2>1. pc = "running" /\ pc' = "exited" /\ UNCHANGED <<image, before, planted, map, drift>>
        BY <1>4 DEF RunExits, stage
    <2>2. Start' = Start
        BY <2>1 DEF Start
    <2>. QED  BY <1>1, <2>1, <2>2 DEF LayersInv
<1>5. CASE StrayEdits
    <2>1. /\ stray /\ pc \in {"exited", "settled", "compared"}
          /\ UNCHANGED <<image, pc, before, planted, stray, map, drift>>
        BY <1>5 DEF StrayEdits, run
    <2>2. Start' = Start
        BY <2>1 DEF Start
    <2>3. pc = "compared" => ~(drift \subseteq Excused)
        BY <2>1, ExcusedIs DEF LayersInv
    <2>. QED  BY <1>1, <2>1, <2>2, <2>3 DEF LayersInv
<1>6. CASE StopStep
    <2>1. /\ pc = "exited" /\ RemoveScript /\ pc' = "settled" /\ image' = image /\ map' = map
          /\ drift' = (IF stray' THEN drift \union {"stray"} ELSE drift)
        BY <1>6 DEF StopStep
    <2>2. before' = Start
        BY <2>1 DEF RemoveScript, Start
    <2>3. drift \subseteq drift' /\ (stray' => "stray" \in drift')
        BY <2>1
    <2>4. drift' \subseteq Excused => image' = Good(AsUnpacked(before'))
        BY <2>1, <2>2, <2>3 DEF LayersInv
    <2>. QED  BY <1>1, <2>1, <2>3, <2>4 DEF LayersInv
<1>7. CASE RunFails
    <2>1. pc' = "failed"
        BY <1>7 DEF RunFails
    <2>. QED  BY <2>1 DEF LayersInv
<1>8. CASE Compare
    <2>1. pc = "settled" /\ pc' = "compared" /\ UNCHANGED <<image, rootfs, stray>> /\ drift \subseteq drift'
        BY <1>8 DEF Compare, stage
    <2>2. drift' \subseteq Excused => Apply(image', ThisDiff') = Good(AsUnpacked(rootfs'))
        <3>. SUFFICES ASSUME drift' \subseteq Excused PROVE Apply(image', ThisDiff') = Good(AsUnpacked(rootfs'))
            OBVIOUS
        <3>1. Apply(Good(AsUnpacked(before)), ThisDiff') = Good(AsUnpacked(rootfs)) /\ drift' = drift
            BY <1>8, CompareGives
        <3>2. image = Good(AsUnpacked(before))
            BY <2>1, <3>1 DEF LayersInv
        <3>. QED  BY <2>1, <3>1, <3>2
    <2>3. stray' => "stray" \in drift'
        BY <2>1 DEF LayersInv
    <2>. HIDE DEF ThisDiff
    <2>. QED  BY <1>1, <2>1, <2>2, <2>3 DEF LayersInv
<1>9. CASE PackRun
    <2>1. /\ pc = "compared" /\ pc' = "idle" /\ rootfs' = rootfs /\ drift' = drift
          /\ image' = Apply(image, ThisDiff)
        BY <1>9 DEF PackRun, AddLayer, ThisDiff
    <2>. QED  BY <1>1, <2>1 DEF LayersInv
<1>10. CASE Enumerate
    <2>1. PICK m \in Maps : /\ <<>> \notin DOMAIN m /\ map' = m
                            /\ pc' = IF m = EmptyTree THEN "idle" ELSE "enumerated"
        BY <1>10 DEF Enumerate
    <2>2. m \notin Archives => PlainMap(m)
        <3>. SUFFICES ASSUME m \notin Archives PROVE PlainMap(m)
            OBVIOUS
        <3>1. PICK src \in {<<>>} \union DOMAIN source, dest \in {<<>>} \union Targets : m = Mapped(src, dest)
            BY <2>1 DEF Maps
        <3>. QED  BY <1>0, <2>1, <3>1, MappedIs
    <2>3. pc = "idle" /\ UNCHANGED <<image, rootfs, drift>>
        BY <1>10 DEF Enumerate, Begins, stage
    <2>. QED  BY <1>1, <2>1, <2>2, <2>3 DEF LayersInv
<1>11. CASE SourceChanges
    <2>1. /\ pc \in {"enumerated", "written"} /\ UNCHANGED <<image, rootfs, pc, map>>
          /\ drift' = IF pc = "written" THEN drift \union {"source"} ELSE drift
        BY <1>11 DEF SourceChanges, stage
    <2>2. pc = "written" => ~(drift' \subseteq Excused)
        BY <2>1, ExcusedIs
    <2>. QED  BY <1>1, <2>1, <2>2 DEF LayersInv
<1>12. CASE WriteMap
    <2>1. UNCHANGED <<image, source>> /\ pc = "enumerated" /\ pc' \in {"written", "failed"}
        BY <1>12 DEF WriteMap
    <2>2. CASE pc' = "failed"
        BY <2>2 DEF LayersInv
    <2>3. CASE pc' = "written"
        <3>1. map' = map
            BY <1>12, <2>3 DEF WriteMap
        <3>2. drift' \subseteq Excused => Apply(image', PackFiles(source', map')) = Good(AsUnpacked(rootfs'))
            <4>. SUFFICES ASSUME drift' \subseteq Excused
                          PROVE  Apply(image', PackFiles(source', map')) = Good(AsUnpacked(rootfs'))
                OBVIOUS
            <4>1. /\ Apply(Good(AsUnpacked(rootfs)), PackFiles(source, map)) = Good(AsUnpacked(rootfs'))
                  /\ drift \subseteq Excused
                BY <1>12, <2>3, WriteGives
            <4>2. image = Good(AsUnpacked(rootfs))
                BY <2>1, <4>1 DEF LayersInv
            <4>. QED  BY <2>1, <3>1, <4>1, <4>2
        <3>. QED  BY <1>1, <2>1, <2>3, <3>1, <3>2 DEF LayersInv
    <2>. QED  BY <2>1, <2>2, <2>3
<1>13. CASE PackMap
    <2>1. /\ pc = "written" /\ pc' = "idle" /\ rootfs' = rootfs /\ drift' = drift
          /\ image' = Apply(image, PackFiles(source, map))
        BY <1>13 DEF PackMap, AddLayer
    <2>. QED  BY <1>1, <2>1 DEF LayersInv
<1>14. CASE Workdir
    <2>1. pc = "idle" /\ pc' = "idle"
        BY <1>14 DEF Workdir, Begins
    <2>2. drift' \subseteq Excused => image' = Good(AsUnpacked(rootfs'))
        <3>. SUFFICES ASSUME drift' \subseteq Excused PROVE image' = Good(AsUnpacked(rootfs'))
            OBVIOUS
        <3>1. /\ \/ UNCHANGED <<rootfs, image, base>>
                 \/ \E l \in Seq(Members) :
                       /\ image' = Apply(image, l)
                       /\ Apply(Good(AsUnpacked(rootfs)), l) = Good(AsUnpacked(rootfs'))
              /\ drift' = drift
            BY <1>14, WorkdirGives
        <3>2. image = Good(AsUnpacked(rootfs))
            BY <2>1, <3>1 DEF LayersInv
        <3>. QED  BY <3>1, <3>2
    <2>. QED  BY <1>1, <2>1, <2>2 DEF LayersInv
<1>15. CASE FromStage
    <2>1. pc = "idle" /\ image.ok /\ rootfs' = image.tree /\ UNCHANGED <<image, pc, drift>>
        BY <1>15 DEF FromStage, Begins, CanBegin
    <2>2. image = Good(image.tree)
        BY <1>0, <2>1, OutcomesAre
    <2>3. AsUnpacked(rootfs') = image.tree
        BY <1>0, <2>1, CleanStays
    <2>4. image' = Good(AsUnpacked(rootfs'))
        BY <2>1, <2>2, <2>3
    <2>. QED  BY <1>1, <2>1, <2>4 DEF LayersInv
<1>16. CASE Over \/ UNCHANGED vars
    BY <1>16 DEF Over, LayersInv, vars, stage, run, Start, ThisDiff, Excused
<1>. QED  BY <1>2, <1>3, <1>4, <1>5, <1>6, <1>7, <1>8, <1>9, <1>10, <1>11, <1>12, <1>13, <1>14, <1>15, <1>16 DEF Next

\* Whatever a RUN, COPY, ADD or WORKDIR does, without a reason the layers unpack
\* to the rootfs between instructions.
THEOREM ImageFollowsRootfs == Spec => [](pc = "idle" /\ drift = {} => image = Good(AsUnpacked(rootfs)))
<1>1. TypeInv /\ LayersInv => (pc = "idle" /\ drift = {} => image = Good(AsUnpacked(rootfs)))
    BY DEF LayersInv
<1>. QED  BY <1>1, TypeInit, TypeStep, LayersInit, LayersStep, PTL DEF Spec

\* Between instructions the layers of the stage unpack to the rootfs the next
\* instruction runs in (ImageIsRootfs).
THEOREM ImagesAreRootfs ==
    ASSUME PlainArchives
    PROVE  Spec => []ImageIsRootfs
<1>1. TypeInv /\ LayersInv => ImageIsRootfs
    BY ExcusedIs, OutcomesAre DEF LayersInv, ImageIsRootfs, Excused
<1>. QED  BY <1>1, TypeInit, TypeStep, LayersInit, LayersStep, PTL DEF Spec

-----------------------------------------------------------------------------
(* The baseline. *)

Nothing == [added |-> {}, modified |-> {}, deleted |-> {}]

\* What `diff` takes the base images for is what they are.
BasesAgree == \A layers \in Bases : DiffersFrom(Replayed(layers), Snapshot(Unpacked(layers).tree)) = Nothing

BaseInv ==
    drift = {} =>
        /\ pc \in {"idle", "enumerated", "running", "exited", "settled"} => base = Coarse(image.tree)
        /\ pc = "compared" => Baseline(base, ThisDiff) = Coarse(AsUnpacked(rootfs))
        /\ pc = "written"  => Baseline(base, PackFiles(source, map)) = Coarse(AsUnpacked(rootfs))

\* Nothing differs from a tree of what a layer can hold but what is not it.
LEMMA NothingDiffers ==
    ASSUME NEW t, IsTree(t), Clean(t), NEW b, IsFcn(b)
    PROVE  DiffersFrom(b, Snapshot(t)) = Nothing <=> b = Coarse(t)
<1>1. Snapshot(t) = t
    BY CleanStays
<1>2. DiffersFrom(b, t) = [added    |-> Added(b, t),
                           modified |-> {p \in DOMAIN t \intersect DOMAIN b : Bare(t[p]) # b[p]},
                           deleted  |-> Deleted(b, t)]
    BY DEF DiffersFrom, Bare
<1>. DEFINE c == Coarse(t)
<1>3. DOMAIN c = DOMAIN t /\ IsFcn(c) /\ \A p \in DOMAIN t : c[p] = Bare(t[p])
    BY CoarseIs
<1>. HIDE DEF c
<1>4. ASSUME DiffersFrom(b, t) = Nothing
      PROVE  b = c
    <2>1. /\ Added(b, t) = {} /\ Deleted(b, t) = {}
          /\ {p \in DOMAIN t \intersect DOMAIN b : Bare(t[p]) # b[p]} = {}
        BY <1>2, <1>4 DEF Nothing
    <2>2. DOMAIN b = DOMAIN t
        BY <2>1 DEF Added, Deleted
    <2>3. \A p \in DOMAIN t : b[p] = Bare(t[p])
        BY <2>1, <2>2
    <2>. QED  BY <1>3, <2>2, <2>3, FcnEqual
<1>5. ASSUME b = c
      PROVE  DiffersFrom(b, t) = Nothing
    <2>1. /\ Added(b, t) = {} /\ Deleted(b, t) = {}
          /\ {p \in DOMAIN t \intersect DOMAIN b : Bare(t[p]) # b[p]} = {}
        BY <1>3, <1>5 DEF Added, Deleted
    <2>. QED  BY <1>2, <2>1 DEF Nothing
<1>. QED  BY <1>1, <1>4, <1>5 DEF c

\* A stage's layers are read as they unpack.
LEMMA BaseInit == BasesAgree /\ Init => BaseInv
<1>. SUFFICES ASSUME BasesAgree, Init PROVE BaseInv
    OBVIOUS
<1>1. PICK layers \in Bases : image = Unpacked(layers) /\ base = Replayed(layers)
    BY DEF Init
<1>2. layers \in Seq(Seq(Members))
    BY BuildAssumption
<1>3. IsTree(image.tree) /\ Clean(image.tree)
    BY TypeInit, TypedParts
<1>4. IsFcn(base)
    <2>1. PICK f : Replayed(layers) = f[Len(layers)] /\ \A i \in 0..Len(layers) : f[i] \in Shapes
        BY <1>2, LayersReplay
    <2>2. Len(layers) \in 0..Len(layers)
        BY <1>2, LenProperties
    <2>. QED  BY <1>1, <2>1, <2>2, ShapesAre
<1>5. DiffersFrom(base, Snapshot(image.tree)) = Nothing
    BY <1>1 DEF BasesAgree
<1>6. base = Coarse(image.tree)
    BY <1>3, <1>4, <1>5, NothingDiffers
<1>. QED  BY <1>6 DEF Init, BaseInv

\* What is read of the layers keeps up with what they unpack to.
LEMMA BaseStep == TypeInv /\ LayersInv /\ BaseInv /\ [Next]_vars => BaseInv'
<1>. SUFFICES ASSUME TypeInv, LayersInv, BaseInv, [Next]_vars, drift' = {} PROVE BaseInv'
    BY DEF BaseInv
<1>0. {} \subseteq Excused /\ LayersInv'
    BY LayersStep
<1>1. \A t : Good(t).tree = t
    BY OutcomesAre
<1>2. CASE RunBegins \/ RunEdits \/ RunExits \/ Enumerate \/ FromStage
    <2>1. /\ pc \in {"idle", "running"} /\ pc' \in {"running", "exited", "idle", "enumerated"}
          /\ UNCHANGED <<image, base, drift>>
        BY <1>2 DEF RunBegins, RunEdits, RunExits, Enumerate, FromStage, Begins, stage
    <2>. QED  BY <2>1 DEF BaseInv
<1>3. CASE StrayEdits
    <2>1. /\ stray /\ pc \in {"exited", "settled", "compared"}
          /\ UNCHANGED <<image, base, pc, drift>>
        BY <1>3 DEF StrayEdits
    <2>2. pc # "compared"
        BY <2>1 DEF LayersInv
    <2>. QED  BY <2>1, <2>2 DEF BaseInv
<1>4. CASE StopStep
    <2>1. /\ pc = "exited" /\ pc' = "settled" /\ UNCHANGED <<image, base>>
          /\ drift' = (IF stray' THEN drift \union {"stray"} ELSE drift)
        BY <1>4 DEF StopStep
    <2>. QED  BY <2>1 DEF BaseInv
<1>5. CASE RunFails
    BY <1>5 DEF RunFails, BaseInv
<1>6. CASE Compare
    <2>1. pc = "settled" /\ pc' = "compared" /\ UNCHANGED <<image, base, rootfs>>
        BY <1>6 DEF Compare, stage
    <2>2. /\ Baseline(Coarse(AsUnpacked(before)), ThisDiff') = Coarse(AsUnpacked(rootfs))
          /\ drift' = drift
        BY <1>0, <1>6, CompareGives
    <2>3. image = Good(AsUnpacked(before)) /\ base = Coarse(image.tree)
        BY <1>0, <2>1, <2>2 DEF LayersInv, BaseInv
    <2>4. base = Coarse(AsUnpacked(before))
        BY <1>1, <2>3
    <2>. HIDE DEF ThisDiff
    <2>. QED  BY <2>1, <2>2, <2>4 DEF BaseInv
<1>7. CASE PackRun
    <2>1. /\ pc = "compared" /\ pc' = "idle" /\ rootfs' = rootfs /\ drift' = drift
          /\ base' = Baseline(base, ThisDiff)
        BY <1>7 DEF PackRun, AddLayer, ThisDiff
    <2>2. base' = Coarse(AsUnpacked(rootfs'))
        BY <2>1 DEF BaseInv
    <2>3. image'.tree = AsUnpacked(rootfs')
        BY <1>0, <1>1, <2>1 DEF LayersInv
    <2>. QED  BY <2>1, <2>2, <2>3 DEF BaseInv
<1>8. CASE SourceChanges
    <2>1. /\ pc \in {"enumerated", "written"} /\ UNCHANGED <<image, base, pc>>
          /\ drift' = IF pc = "written" THEN drift \union {"source"} ELSE drift
        BY <1>8 DEF SourceChanges, stage
    <2>. QED  BY <2>1 DEF BaseInv
<1>9. CASE WriteMap
    <2>1. UNCHANGED <<image, base, source>> /\ pc = "enumerated" /\ pc' \in {"written", "failed"}
        BY <1>9 DEF WriteMap
    <2>2. CASE pc' = "failed"
        BY <2>2 DEF BaseInv
    <2>3. CASE pc' = "written"
        <3>1. /\ Baseline(Coarse(AsUnpacked(rootfs)), PackFiles(source, map)) = Coarse(AsUnpacked(rootfs'))
              /\ map' = map /\ drift = {}
            BY <1>0, <1>9, <2>3, WriteGives
        <3>2. image = Good(AsUnpacked(rootfs)) /\ base = Coarse(image.tree)
            BY <1>0, <2>1, <3>1 DEF LayersInv, BaseInv
        <3>3. base = Coarse(AsUnpacked(rootfs))
            BY <1>1, <3>2
        <3>. QED  BY <2>1, <2>3, <3>1, <3>3 DEF BaseInv
    <2>. QED  BY <2>1, <2>2, <2>3
<1>10. CASE PackMap
    <2>1. /\ pc = "written" /\ pc' = "idle" /\ rootfs' = rootfs /\ drift' = drift
          /\ base' = Baseline(base, PackFiles(source, map))
        BY <1>10 DEF PackMap, AddLayer
    <2>2. base' = Coarse(AsUnpacked(rootfs'))
        BY <2>1 DEF BaseInv
    <2>3. image'.tree = AsUnpacked(rootfs')
        BY <1>0, <1>1, <2>1 DEF LayersInv
    <2>. QED  BY <2>1, <2>2, <2>3 DEF BaseInv
<1>11. CASE Workdir
    <2>1. pc = "idle" /\ pc' = "idle"
        BY <1>11 DEF Workdir, Begins
    <2>2. /\ \/ UNCHANGED <<rootfs, image, base>>
             \/ \E l \in Seq(Members) :
                   /\ base' = Baseline(base, l)
                   /\ Baseline(Coarse(AsUnpacked(rootfs)), l) = Coarse(AsUnpacked(rootfs'))
          /\ drift' = drift
        BY <1>0, <1>11, WorkdirGives
    <2>3. image = Good(AsUnpacked(rootfs)) /\ base = Coarse(image.tree)
        BY <1>0, <2>1, <2>2 DEF LayersInv, BaseInv
    <2>4. base = Coarse(AsUnpacked(rootfs))
        BY <1>1, <2>3
    <2>5. image'.tree = AsUnpacked(rootfs')
        BY <1>0, <1>1, <2>1 DEF LayersInv
    <2>6. CASE UNCHANGED <<rootfs, image, base>>
        BY <2>1, <2>3, <2>6 DEF BaseInv
    <2>7. CASE base' = Coarse(AsUnpacked(rootfs'))
        BY <2>1, <2>5, <2>7 DEF BaseInv
    <2>. QED  BY <2>2, <2>4, <2>6, <2>7
<1>12. CASE Over \/ UNCHANGED vars
    BY <1>12 DEF Over, BaseInv, vars, stage, run, ThisDiff
<1>. QED  BY <1>2, <1>3, <1>4, <1>5, <1>6, <1>7, <1>8, <1>9, <1>10, <1>11, <1>12 DEF Next

\* Where the base images are read as they unpack, `diff` finds nothing in a
\* container installed from what any build makes of them
\* (FreshInstallDiffersNowhere).
THEOREM FreshInstallsDifferNowhere ==
    ASSUME BasesAgree
    PROVE  Spec => []FreshInstallDiffersNowhere
<1>1. TypeInv /\ LayersInv /\ BaseInv => FreshInstallDiffersNowhere
    <2>. SUFFICES ASSUME TypeInv, BaseInv, pc = "idle", drift = {}
                  PROVE  DiffersFrom(base, Snapshot(image.tree)) = Nothing
        BY DEF FreshInstallDiffersNowhere, Nothing
    <2>1. base = Coarse(image.tree)
        BY DEF BaseInv
    <2>2. IsTree(image.tree) /\ Clean(image.tree)
        BY TypedParts
    <2>3. IsFcn(base)
        BY <2>1, CoarseIs
    <2>. QED  BY <2>1, <2>2, <2>3, NothingDiffers
<1>. QED  BY <1>1, TypeInit, TypeStep, LayersInit, LayersStep, BaseInit, BaseStep, PTL DEF Spec
=============================================================================
