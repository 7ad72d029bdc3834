-------------------------- MODULE TreeTransferProofs --------------------------
(***************************************************************************)
(* Proofs about the transfers of TreeTransfer.                             *)
(*                                                                         *)
(* The invariant has these parts, each of which rests on those before it:  *)
(*   Shape     the trees are trees, and a stack is a way down from the     *)
(*             root, in the source and where it writes in the destination; *)
(*   QuickInv  times: an edit gives a new one, what is half written has    *)
(*             none, and content goes with the time it was read for;       *)
(*   Steady    what nobody else has touched stands, its way down is open,  *)
(*             and what is passed over without being counted is special;   *)
(*   Noticed, Spared, Recorded, Pruned                                     *)
(*             what sync has seen, by which it prunes;                     *)
(*   Carries   the untouched is in the destination, or still before the    *)
(*             walk, as long as success is in reach.                       *)
(***************************************************************************)
EXTENDS TreeTransfer, SequenceTheorems, WellFoundedInduction, TLAPS

-----------------------------------------------------------------------------
(* Paths. *)

\* A prefix agrees with the path as far as it goes.
LEMMA PrefixAgrees ==
    ASSUME NEW S, NEW p \in Seq(S), NEW q \in Seq(S)
    PROVE  IsPrefix(p, q) <=> Len(p) <= Len(q) /\ \A i \in 1..Len(p) : p[i] = q[i]
<1>1. Len(p) \in Nat /\ Len(q) \in Nat
    BY LenProperties
<1>2. SubSeq(p, 1, Len(p)) = p
    BY SubSeqFull
<1>3. ASSUME Len(p) <= Len(q)
      PROVE  /\ SubSeq(q, 1, Len(p)) \in Seq(S)
             /\ Len(SubSeq(q, 1, Len(p))) = Len(p)
             /\ \A i \in 1..Len(p) : SubSeq(q, 1, Len(p))[i] = q[i]
    <2>1. \A i \in 1..Len(p) : q[i] \in S
        BY <1>1, <1>3, ElementOfSeq
    <2>. QED  BY <1>1, <2>1, SubSeqProperties
<1>4. ASSUME IsPrefix(p, q)
      PROVE  Len(p) <= Len(q) /\ \A i \in 1..Len(p) : p[i] = q[i]
    BY <1>2, <1>3, <1>4 DEF IsPrefix
<1>5. ASSUME Len(p) <= Len(q), \A i \in 1..Len(p) : p[i] = q[i]
      PROVE  IsPrefix(p, q)
    <2>1. p = SubSeq(q, 1, Len(p))
        BY <1>3, <1>5, SeqEqual
    <2>. QED  BY <1>2, <1>5, <2>1 DEF IsPrefix
<1>. QED  BY <1>4, <1>5

\* Prefixes of sequences are ordered, the empty one first.
LEMMA PrefixOrder ==
    ASSUME NEW S
    PROVE  /\ \A p \in Seq(S) : IsPrefix(p, p) /\ IsPrefix(<<>>, p)
           /\ \A p, q \in Seq(S) : IsPrefix(p, q) /\ Len(q) <= Len(p) => p = q
           /\ \A p, q \in Seq(S) : IsPrefix(p, q) /\ p # q => Len(p) < Len(q)
           /\ \A p, q, r \in Seq(S) : IsPrefix(p, q) /\ IsPrefix(q, r) => IsPrefix(p, r)
           /\ \A p, q, r \in Seq(S) :
                IsPrefix(p, r) /\ IsPrefix(q, r) /\ Len(p) <= Len(q) => IsPrefix(p, q)
<1>1. \A p \in Seq(S) : Len(p) \in Nat
    BY LenProperties
<1>2. \A p \in Seq(S) : IsPrefix(p, p) /\ IsPrefix(<<>>, p)
    <2>1. <<>> \in Seq(S) /\ Len(<<>>) = 0
        BY EmptySeq
    <2>2. ASSUME NEW p \in Seq(S)
          PROVE  IsPrefix(p, p)
        BY <1>1, PrefixAgrees
    <2>3. ASSUME NEW p \in Seq(S)
          PROVE  IsPrefix(<<>>, p)
        <3>1. SubSeq(<<>>, 1, 0) = <<>> /\ SubSeq(p, 1, 0) = <<>>
            BY SubSeqEmpty
        <3>. QED  BY <1>1, <2>1, <3>1 DEF IsPrefix
    <2>. QED  BY <2>2, <2>3
<1>3. ASSUME NEW p \in Seq(S), NEW q \in Seq(S), IsPrefix(p, q), Len(q) <= Len(p)
      PROVE  p = q
    <2>1. Len(p) = Len(q) /\ \A i \in 1..Len(p) : p[i] = q[i]
        BY <1>1, <1>3, PrefixAgrees
    <2>. QED  BY <2>1, SeqEqual
<1>4. ASSUME NEW p \in Seq(S), NEW q \in Seq(S), IsPrefix(p, q), p # q
      PROVE  Len(p) < Len(q)
    BY <1>1, <1>3, <1>4
<1>5. ASSUME NEW p \in Seq(S), NEW q \in Seq(S), NEW r \in Seq(S), IsPrefix(p, q), IsPrefix(q, r)
      PROVE  IsPrefix(p, r)
    <2>1. Len(p) <= Len(q) /\ Len(q) <= Len(r)
        BY <1>5, PrefixAgrees
    <2>2. \A i \in 1..Len(p) : p[i] = q[i]
        BY <1>5, PrefixAgrees
    <2>3. \A i \in 1..Len(q) : q[i] = r[i]
        BY <1>5, PrefixAgrees
    <2>. QED  BY <1>1, <2>1, <2>2, <2>3, PrefixAgrees
<1>6. ASSUME NEW p \in Seq(S), NEW q \in Seq(S), NEW r \in Seq(S),
             IsPrefix(p, r), IsPrefix(q, r), Len(p) <= Len(q)
      PROVE  IsPrefix(p, q)
    <2>1. \A i \in 1..Len(p) : p[i] = r[i]
        BY <1>6, PrefixAgrees
    <2>2. \A i \in 1..Len(q) : q[i] = r[i]
        BY <1>6, PrefixAgrees
    <2>. QED  BY <1>1, <1>6, <2>1, <2>2, PrefixAgrees
<1>. QED  BY <1>2, <1>3, <1>4, <1>5, <1>6

\* What lies above a path is its parent, or above that.
LEMMA FrontIsAbove ==
    ASSUME NEW S, NEW q \in Seq(S), q # <<>>
    PROVE  /\ Front(q) \in Seq(S) /\ Len(Front(q)) = Len(q) - 1 /\ Last(q) \in S
           /\ IsPrefix(Front(q), q) /\ Front(q) # q
           /\ \A p \in Seq(S) : IsPrefix(p, q) /\ p # q => IsPrefix(p, Front(q))
<1>1. Len(q) \in Nat \ {0}
    BY EmptySeq
<1>2. \A i \in 1..Len(q) : q[i] \in S
    BY ElementOfSeq
<1>3. /\ Front(q) \in Seq(S) /\ Len(Front(q)) = Len(q) - 1
      /\ \A i \in 1..Len(q) - 1 : Front(q)[i] = q[i]
    BY <1>1, <1>2, SubSeqProperties DEF Front
<1>4. IsPrefix(Front(q), q) /\ Front(q) # q
    BY <1>1, <1>3, PrefixAgrees
<1>5. \A p \in Seq(S) : IsPrefix(p, q) /\ p # q => IsPrefix(p, Front(q))
    BY <1>1, <1>3, <1>4, PrefixOrder, LenProperties
<1>6. Last(q) \in S
    BY <1>1, <1>2 DEF Last
<1>. QED  BY <1>3, <1>4, <1>5, <1>6

\* The levels of a path are its prefixes but for the root.
LEMMA LevelsArePrefixes ==
    ASSUME NEW S, NEW p \in Seq(S)
    PROVE  LevelsOf(p) = {q \in Seq(S) : q # <<>> /\ IsPrefix(q, p)}
<1>1. Len(p) \in Nat
    BY LenProperties
<1>2. ASSUME NEW n \in 1..Len(p)
      PROVE  SubSeq(p, 1, n) \in Seq(S) /\ SubSeq(p, 1, n) # <<>> /\ IsPrefix(SubSeq(p, 1, n), p)
    <2>. DEFINE q == SubSeq(p, 1, n)
    <2>1. \A i \in 1..n : p[i] \in S
        BY <1>1, ElementOfSeq
    <2>2. q \in Seq(S) /\ Len(q) = n /\ \A i \in 1..n : q[i] = p[i]
        BY <1>1, <2>1, SubSeqProperties
    <2>. HIDE DEF q
    <2>3. q # <<>>
        BY <1>1, <2>2, EmptySeq
    <2>4. IsPrefix(q, p)
        BY <1>1, <2>2, PrefixAgrees
    <2>. USE DEF q
    <2>. QED  BY <2>2, <2>3, <2>4
<1>3. ASSUME NEW q \in Seq(S), q # <<>>, IsPrefix(q, p)
      PROVE  q \in LevelsOf(p)
    <2>1. Len(q) \in 1..Len(p)
        BY <1>1, <1>3, EmptySeq, PrefixAgrees
    <2>2. q = SubSeq(p, 1, Len(q))
        BY <1>3, SubSeqFull DEF IsPrefix
    <2>. QED  BY <2>1, <2>2 DEF LevelsOf
<1>. QED  BY <1>2, <1>3 DEF LevelsOf

\* Below a path, the way to another one has a next level.
LEMMA NextLevel ==
    ASSUME NEW S, NEW p \in Seq(S), NEW r \in Seq(S), IsStrictPrefix(p, r)
    PROVE  \E q \in Seq(S) : q # <<>> /\ Front(q) = p /\ IsPrefix(q, r) /\ Len(q) = Len(p) + 1
<1>1. Len(p) \in Nat /\ Len(r) \in Nat /\ Len(p) < Len(r) /\ IsPrefix(p, r)
    BY LenProperties, PrefixOrder DEF IsStrictPrefix
<1>. DEFINE q == SubSeq(r, 1, Len(p) + 1)
<1>2. \A i \in 1..Len(p) + 1 : r[i] \in S
    BY <1>1, ElementOfSeq
<1>3. /\ q \in Seq(S) /\ Len(q) = Len(p) + 1
      /\ \A i \in 1..Len(p) + 1 : q[i] = r[i]
    BY <1>1, <1>2, SubSeqProperties
<1>. HIDE DEF q
<1>4. q # <<>>
    BY <1>1, <1>3, EmptySeq
<1>5. IsPrefix(q, r)
    BY <1>1, <1>3, PrefixAgrees
<1>6. IsPrefix(p, q) /\ p # q
    BY <1>1, <1>3, <1>5, PrefixOrder
<1>7. IsPrefix(p, Front(q)) /\ Len(Front(q)) = Len(p) /\ Front(q) \in Seq(S)
    BY <1>1, <1>3, <1>4, <1>6, FrontIsAbove
<1>8. Front(q) = p
    BY <1>1, <1>7, PrefixOrder
<1>. QED  BY <1>3, <1>4, <1>5, <1>8

-----------------------------------------------------------------------------
(* Trees. *)

Metadata == Metas \union {Private}

\* What an entry is made of goes by its kind.
LEMMA EntryKinds ==
    ASSUME NEW e \in Entries
    PROVE  /\ e.kind \in {"file", "dir", "link", "special"}
           /\ e.kind = "file" => e \in [kind : {"file"}, data : Contents \union {"partial"},
                                        time : Nat, meta : Metadata, twin : BOOLEAN]
           /\ e.kind = "dir" => e \in [kind : {"dir"}, meta : Metadata]
BY DEF Entries, Special, Metadata

\* The paths above another one, and those below.
LEMMA AboveBelow ==
    ASSUME NEW t, DOMAIN t \subseteq AllPaths
    PROVE  /\ \A p \in AllPaths : Above(p) = {q \in AllPaths : IsPrefix(q, p) /\ q # p}
           /\ \A p \in TreePaths : Below(t, p) = {q \in DOMAIN t : IsPrefix(p, q) /\ q # p}
BY LevelsArePrefixes DEF Above, Below, AllPaths, TreePaths, IsStrictPrefix

\* What stands above an entry of a tree is a directory.
LEMMA TreeAbove ==
    ASSUME NEW t, IsTree(t), NEW q \in DOMAIN t, NEW p \in TreePaths, IsPrefix(p, q), p # q
    PROVE  IsDir(t, p)
<1>1. DOMAIN t \subseteq AllPaths
    BY DEF IsTree, AllPaths, TreePaths
<1>2. CASE p = <<>>
    BY <1>2 DEF IsDir
<1>3. CASE p # <<>>
    <2>1. p \in Above(q)
        BY <1>1, <1>3, AboveBelow DEF AllPaths
    <2>. QED  BY <2>1 DEF IsTree
<1>. QED  BY <1>2, <1>3

\* Nothing is below what is not a directory.
LEMMA TreeLeaf ==
    ASSUME NEW t, IsTree(t), NEW p \in TreePaths, ~IsDir(t, p)
    PROVE  Below(t, p) = {}
<1>1. DOMAIN t \subseteq AllPaths
    BY DEF IsTree, AllPaths, TreePaths
<1>. QED  BY <1>1, TreeAbove, AboveBelow

\* A directory without entries of its own has nothing below it.
LEMMA TreeEmpty ==
    ASSUME NEW t, IsTree(t), NEW p \in TreePaths, Kids(t, p) = {}
    PROVE  Below(t, p) = {}
<1>1. DOMAIN t \subseteq AllPaths
    BY DEF IsTree, AllPaths, TreePaths
<1>2. SUFFICES ASSUME NEW r \in DOMAIN t, IsPrefix(p, r), r # p
               PROVE  FALSE
    BY <1>1, AboveBelow
<1>3. r \in TreePaths
    BY <1>1 DEF AllPaths
<1>4. PICK q \in TreePaths : q # <<>> /\ Front(q) = p /\ IsPrefix(q, r) /\ Len(q) = Len(p) + 1
    BY <1>2, <1>3, NextLevel DEF IsStrictPrefix, TreePaths
<1>5. q \in DOMAIN t
    <2>1. CASE q = r
        BY <2>1
    <2>2. CASE q # r
        <3>1. IsDir(t, q)
            BY <1>4, <2>2, TreeAbove
        <3>. QED  BY <1>4, <3>1 DEF IsDir, IsA
    <2>. QED  BY <2>1, <2>2
<1>6. IsPrefix(p, q) /\ p # q
    BY <1>4, FrontIsAbove DEF TreePaths
<1>. QED  BY <1>4, <1>5, <1>6 DEF Kids, Below, IsStrictPrefix

\* The kids of a directory are the entries with it in front.
LEMMA KidsAre ==
    ASSUME NEW t, IsTree(t), NEW p \in TreePaths
    PROVE  Kids(t, p) = {q \in DOMAIN t : Front(q) = p}
<1>1. DOMAIN t \subseteq AllPaths
    BY DEF IsTree, AllPaths, TreePaths
<1>2. ASSUME NEW q \in DOMAIN t, IsStrictPrefix(p, q), Len(q) = Len(p) + 1
      PROVE  Front(q) = p
    <2>1. q \in TreePaths /\ q # <<>> /\ Len(p) \in Nat
        BY <1>1, LenProperties DEF AllPaths, TreePaths
    <2>2. IsPrefix(p, Front(q)) /\ Len(Front(q)) = Len(p) /\ Front(q) \in TreePaths
        BY <1>2, <2>1, FrontIsAbove DEF IsStrictPrefix, TreePaths
    <2>. QED  BY <2>1, <2>2, PrefixOrder DEF TreePaths
<1>3. ASSUME NEW q \in DOMAIN t, Front(q) = p
      PROVE  IsStrictPrefix(p, q) /\ Len(q) = Len(p) + 1
    <2>1. q \in TreePaths /\ q # <<>> /\ Len(p) \in Nat /\ Len(q) \in Nat
        BY <1>1, LenProperties DEF AllPaths, TreePaths
    <2>. QED  BY <1>3, <2>1, FrontIsAbove DEF IsStrictPrefix, TreePaths
<1>. QED  BY <1>2, <1>3 DEF Kids, Below

\* What Without() does.
LEMMA WithoutIs ==
    ASSUME NEW t, NEW S
    PROVE  /\ DOMAIN Without(t, S) = DOMAIN t \ S
           /\ \A q \in DOMAIN t \ S : Without(t, S)[q] = t[q]
BY DEF Without

\* An entry is put where a directory is above it, and not over one that is not empty.
LEMMA PutTree ==
    ASSUME NEW t, IsTree(t), NEW p \in AllPaths, IsDir(t, Front(p)), NEW e \in Entries,
           e.kind = "dir" \/ Below(t, p) = {}
    PROVE  IsTree(Put(t, p, e))
<1>. DEFINE u == Put(t, p, e)
<1>1. DOMAIN t \subseteq AllPaths /\ \A q \in DOMAIN t : t[q] \in Entries
    BY DEF IsTree, AllPaths, TreePaths
<1>2. DOMAIN u = DOMAIN t \union {p} /\ u[p] = e /\ \A q \in DOMAIN t : q # p => u[q] = t[q]
    BY DEF Put
<1>. HIDE DEF u
<1>3. p \in TreePaths /\ p # <<>> /\ Front(p) \in TreePaths
    BY FrontIsAbove DEF AllPaths, TreePaths
<1>4. ASSUME NEW q \in DOMAIN u, NEW r \in AllPaths, IsPrefix(r, q), r # q
      PROVE  IsDir(u, r)
    <2>1. r \in TreePaths /\ q \in TreePaths
        BY <1>1, <1>2 DEF AllPaths
    <2>2. CASE q = p
        <3>1. IsPrefix(r, Front(p)) /\ r # p
            BY <1>3, <1>4, <2>1, <2>2, FrontIsAbove DEF TreePaths
        <3>2. IsDir(t, r)
            <4>1. CASE r = Front(p)
                BY <4>1
            <4>2. CASE r # Front(p)
                <5>1. Front(p) # <<>>
                    BY <2>1, <3>1, <4>2, <1>3, PrefixOrder, EmptySeq DEF TreePaths
                <5>. QED  BY <1>3, <2>1, <3>1, <4>2, <5>1, TreeAbove DEF IsDir, IsA
            <4>. QED  BY <4>1, <4>2
        <3>. QED  BY <1>2, <3>1, <3>2 DEF IsDir, IsA
    <2>3. CASE q # p
        <3>1. IsDir(t, r)
            BY <1>2, <1>4, <2>1, <2>3, TreeAbove
        <3>2. r = p => e.kind = "dir"
            BY <1>1, <1>2, <1>3, <1>4, <2>3, AboveBelow
        <3>. QED  BY <1>2, <3>1, <3>2 DEF IsDir, IsA
    <2>. QED  BY <2>2, <2>3
<1>5. ASSUME NEW q \in DOMAIN u
      PROVE  q \in AllPaths /\ u[q] \in Entries /\ \A r \in Above(q) : IsDir(u, r)
    <2>1. q \in AllPaths /\ u[q] \in Entries
        BY <1>1, <1>2
    <2>2. \A r \in Above(q) : r \in AllPaths /\ IsPrefix(r, q) /\ r # q
        BY <1>1, <2>1, AboveBelow
    <2>. QED  BY <1>4, <2>1, <2>2
<1>6. IsTree(u)
    BY <1>5 DEF IsTree, AllPaths, TreePaths
<1>. QED  BY <1>6 DEF u

\* A part of a tree can go with all that is below it.
LEMMA WithoutTree ==
    ASSUME NEW t, IsTree(t), NEW S, \A q \in S : Below(t, q) \subseteq S
    PROVE  IsTree(Without(t, S))
<1>. DEFINE u == Without(t, S)
<1>1. DOMAIN t \subseteq AllPaths /\ \A q \in DOMAIN t : t[q] \in Entries
    BY DEF IsTree, AllPaths, TreePaths
<1>2. DOMAIN u = DOMAIN t \ S /\ \A q \in DOMAIN u : u[q] = t[q]
    BY WithoutIs
<1>. HIDE DEF u
<1>3. ASSUME NEW q \in DOMAIN u, NEW r \in AllPaths, IsPrefix(r, q), r # q
      PROVE  IsDir(u, r)
    <2>1. r \in TreePaths /\ r # <<>>
        BY DEF AllPaths
    <2>2. IsDir(t, r)
        BY <1>2, <1>3, <2>1, TreeAbove
    <2>3. q \in Below(t, r)
        BY <1>1, <1>2, <1>3, <2>1, AboveBelow
    <2>4. r \notin S
        BY <1>2, <2>3
    <2>. QED  BY <1>2, <2>1, <2>2, <2>4 DEF IsDir, IsA
<1>4. ASSUME NEW q \in DOMAIN u
      PROVE  q \in AllPaths /\ u[q] \in Entries /\ \A r \in Above(q) : IsDir(u, r)
    <2>1. q \in AllPaths /\ u[q] \in Entries
        BY <1>1, <1>2
    <2>2. \A r \in Above(q) : r \in AllPaths /\ IsPrefix(r, q) /\ r # q
        BY <1>1, <2>1, AboveBelow
    <2>. QED  BY <1>3, <2>1, <2>2
<1>5. IsTree(u)
    BY <1>4 DEF IsTree, AllPaths, TreePaths
<1>. QED  BY <1>5 DEF u

\* What is left of a tree when an entry has been removed, with what is below it.
LEMMA DropTree ==
    ASSUME NEW t, IsTree(t), NEW p \in AllPaths
    PROVE  /\ IsTree(Drop(t, p))
           /\ DOMAIN Drop(t, p) = {q \in DOMAIN t : ~IsPrefix(p, q)}
           /\ \A q \in DOMAIN Drop(t, p) : Drop(t, p)[q] = t[q]
<1>. DEFINE S == Below(t, p) \union {p}
<1>1. DOMAIN t \subseteq AllPaths /\ p \in TreePaths
    BY DEF IsTree, AllPaths, TreePaths
<1>2. Below(t, p) = {q \in DOMAIN t : IsPrefix(p, q) /\ q # p}
    BY <1>1, AboveBelow
<1>3. ASSUME NEW q \in S
      PROVE  Below(t, q) \subseteq S
    <2>1. q \in TreePaths /\ IsPrefix(p, q)
        BY <1>1, <1>2, <1>3, PrefixOrder DEF AllPaths, TreePaths
    <2>2. Below(t, q) = {r \in DOMAIN t : IsPrefix(q, r) /\ r # q}
        BY <1>1, <2>1, AboveBelow
    <2>. QED  BY <1>1, <1>2, <2>1, <2>2, PrefixOrder DEF AllPaths, TreePaths
<1>4. DOMAIN Drop(t, p) = DOMAIN t \ S /\ \A q \in DOMAIN Drop(t, p) : Drop(t, p)[q] = t[q]
    BY DEF Drop, Without
<1>5. IsPrefix(p, p)
    BY <1>1, PrefixOrder DEF TreePaths
<1>6. IsTree(Drop(t, p))
    BY <1>3, WithoutTree DEF Drop
<1>. QED  BY <1>2, <1>4, <1>5, <1>6

\* What may be left when only a part of it has gone.
LEMMA RemnantTree ==
    ASSUME NEW t, IsTree(t), NEW p \in AllPaths, NEW u \in Remnants(t, p)
    PROVE  /\ IsTree(u)
           /\ DOMAIN u \subseteq DOMAIN t
           /\ \A q \in DOMAIN t : IsPrefix(p, q) \/ q \in DOMAIN u
           /\ \A q \in DOMAIN u : u[q] = t[q]
<1>1. PICK S \in SUBSET (Below(t, p) \union {p}) :
          u = Without(t, S) /\ \A q \in S : Below(t, q) \subseteq S
    BY DEF Remnants
<1>2. DOMAIN t \subseteq AllPaths /\ p \in TreePaths
    BY DEF IsTree, AllPaths, TreePaths
<1>3. \A q \in S : IsPrefix(p, q)
    BY <1>1, <1>2, AboveBelow, PrefixOrder DEF AllPaths, TreePaths
<1>4. IsTree(u)
    BY <1>1, WithoutTree
<1>. QED  BY <1>1, <1>3, <1>4 DEF Without

\* Where nothing is below it an entry can go by itself.
LEMMA LeafGoes ==
    ASSUME NEW t, IsTree(t), NEW p \in TreePaths, Below(t, p) = {}
    PROVE  IsTree(Without(t, {p}))
BY WithoutTree

\* A link or a file in the place of anything.
LEMMA PutDropped ==
    ASSUME NEW t, IsTree(t), NEW p \in AllPaths, IsDir(t, Front(p)), NEW e \in Entries
    PROVE  IsTree(Put(Drop(t, p), p, e))
<1>. DEFINE u == Drop(t, p)
<1>1. IsTree(u) /\ DOMAIN u = {q \in DOMAIN t : ~IsPrefix(p, q)} /\ \A q \in DOMAIN u : u[q] = t[q]
    BY DropTree
<1>. HIDE DEF u
<1>2. p \in TreePaths /\ p # <<>> /\ Front(p) \in TreePaths
    BY FrontIsAbove DEF AllPaths, TreePaths
<1>3. ~IsPrefix(p, Front(p))
    BY <1>2, FrontIsAbove, PrefixOrder, LenProperties DEF TreePaths
<1>4. IsDir(u, Front(p))
    BY <1>1, <1>3 DEF IsDir, IsA
<1>5. DOMAIN u \subseteq AllPaths
    BY <1>1 DEF IsTree, AllPaths, TreePaths
<1>6. Below(u, p) = {}
    BY <1>1, <1>2, <1>5, AboveBelow
<1>7. IsTree(Put(u, p, e))
    BY <1>1, <1>4, <1>6, PutTree
<1>. QED  BY <1>7 DEF u

\* Another owner or mode, or content, for an entry of the same kind.
LEMMA SameKindTree ==
    ASSUME NEW t, IsTree(t), NEW u, DOMAIN u = DOMAIN t,
           \A q \in DOMAIN t : u[q] \in Entries /\ u[q].kind = t[q].kind
    PROVE  IsTree(u)
<1>1. \A q : IsDir(t, q) => IsDir(u, q)
    BY DEF IsDir, IsA
<1>. QED  BY <1>1 DEF IsTree

-----------------------------------------------------------------------------
(* The stack of a walk. *)

FrameType == [at : TreePaths, gone : BOOLEAN, names : SUBSET AllPaths, subs : SUBSET AllPaths, meta : Metadata]

SourceName(p) == Last(p) \in DOMAIN TempName

\* Each frame is a level below the one before; what it has left to do are
\* entries of its directory; one that has not been removed is in the tree.
WalkOK(st, t) ==
    /\ st \in Seq(FrameType)
    /\ \A i \in 1..Len(st) :
        /\ Len(st[i].at) = i - 1
        /\ \A j \in i..Len(st) : IsPrefix(st[i].at, st[j].at)
        /\ \A q \in st[i].names \union st[i].subs : Front(q) = st[i].at /\ SourceName(q)
        /\ ~st[i].gone => IsDir(t, st[i].at)

OpenIn(st, t) == \A i \in 1..Len(st) : IsDir(t, st[i].at)

\* Stepping back, and what a frame on top or one more on it do.
LEMMA Stacks ==
    ASSUME NEW F, NEW st \in Seq(F), st # <<>>
    PROVE  /\ Len(st) \in Nat \ {0} /\ Last(st) = st[Len(st)] /\ Last(st) \in F
           /\ Front(st) \in Seq(F) /\ Len(Front(st)) = Len(st) - 1
           /\ \A i \in 1..Len(st) - 1 : Front(st)[i] = st[i]
           /\ \A f \in F : /\ Append(Front(st), f) \in Seq(F) /\ Append(Front(st), f) # <<>>
                           /\ Len(Append(Front(st), f)) = Len(st)
                           /\ Append(Front(st), f)[Len(st)] = f
                           /\ \A i \in 1..Len(st) - 1 : Append(Front(st), f)[i] = st[i]
<1>1. Len(st) \in Nat \ {0}
    BY EmptySeq
<1>2. \A i \in 1..Len(st) : st[i] \in F
    BY <1>1, ElementOfSeq
<1>3. /\ Front(st) \in Seq(F) /\ Len(Front(st)) = Len(st) - 1
      /\ \A i \in 1..Len(st) - 1 : Front(st)[i] = st[i]
    BY <1>1, <1>2, SubSeqProperties DEF Front
<1>4. Last(st) = st[Len(st)] /\ Last(st) \in F
    BY <1>1, ElementOfSeq DEF Last
<1>5. ASSUME NEW f \in F
      PROVE  /\ Append(Front(st), f) \in Seq(F) /\ Append(Front(st), f) # <<>>
             /\ Len(Append(Front(st), f)) = Len(st)
             /\ Append(Front(st), f)[Len(st)] = f
             /\ \A i \in 1..Len(st) - 1 : Append(Front(st), f)[i] = st[i]
    BY <1>1, <1>3, AppendProperties
<1>. QED  BY <1>1, <1>3, <1>4, <1>5

\* An empty stack is one of length zero, and another one is longer.
LEMMA StackLen ==
    ASSUME NEW F, NEW st \in Seq(F)
    PROVE  Len(st) \in Nat /\ (st = <<>> <=> Len(st) = 0) /\ DOMAIN st = 1..Len(st)
BY EmptySeq, LenProperties

\* The open directory of a walk, and the entries it has left, by their paths.
LEMMA TopIs ==
    ASSUME NEW st, NEW t, WalkOK(st, t), st # <<>>
    PROVE  /\ Len(st) \in Nat \ {0} /\ Last(st) = st[Len(st)] /\ Last(st) \in FrameType
           /\ Last(st).at \in TreePaths /\ Len(Last(st).at) = Len(st) - 1
           /\ ~Last(st).gone => IsDir(t, Last(st).at)
           /\ \A i \in 1..Len(st) : st[i] \in FrameType /\ IsPrefix(st[i].at, Last(st).at)
           /\ \A q \in AllPaths : Front(q) = Last(st).at =>
                \A i \in 1..Len(st) : IsPrefix(st[i].at, q) /\ ~IsPrefix(q, st[i].at)
           /\ \A q \in Last(st).names \union Last(st).subs :
                q \in AllPaths /\ Front(q) = Last(st).at /\ SourceName(q)
<1>1. st \in Seq(FrameType)
    BY DEF WalkOK
<1>2. Len(st) \in Nat \ {0} /\ Last(st) = st[Len(st)] /\ Last(st) \in FrameType
    BY <1>1, Stacks
<1>3. \A i \in 1..Len(st) : st[i] \in FrameType
    BY <1>1, ElementOfSeq
<1>4. /\ Len(Last(st).at) = Len(st) - 1
      /\ ~Last(st).gone => IsDir(t, Last(st).at)
      /\ \A q \in Last(st).names \union Last(st).subs : Front(q) = Last(st).at /\ SourceName(q)
    BY <1>2 DEF WalkOK
<1>5. \A i \in 1..Len(st) : IsPrefix(st[i].at, Last(st).at)
    BY <1>2 DEF WalkOK
<1>6. ASSUME NEW q \in AllPaths, Front(q) = Last(st).at, NEW i \in 1..Len(st)
      PROVE  IsPrefix(st[i].at, q) /\ ~IsPrefix(q, st[i].at)
    <2>1. /\ q \in TreePaths /\ q # <<>> /\ Last(st).at \in TreePaths
          /\ st[i].at \in TreePaths /\ IsPrefix(st[i].at, Last(st).at)
        BY <1>2, <1>3, <1>5 DEF AllPaths, FrameType
    <2>2. IsPrefix(Last(st).at, q) /\ Last(st).at # q
        BY <1>6, <2>1, FrontIsAbove DEF TreePaths
    <2>. QED  BY <2>1, <2>2, PrefixOrder DEF TreePaths
<1>7. /\ Last(st).at \in TreePaths
      /\ \A q \in Last(st).names \union Last(st).subs : q \in AllPaths
    BY <1>2 DEF FrameType
<1>. QED  BY <1>2, <1>3, <1>4, <1>5, <1>6, <1>7

\* Some of what a frame had left has been done, or put aside for later.
LEMMA WalkLess ==
    ASSUME NEW st, NEW t, WalkOK(st, t), st # <<>>,
           NEW f \in FrameType, f.at = Last(st).at, f.gone = Last(st).gone,
           f.names \union f.subs \subseteq Last(st).names \union Last(st).subs
    PROVE  /\ WalkOK(Append(Front(st), f), t)
           /\ Append(Front(st), f) # <<>> /\ Last(Append(Front(st), f)) = f
           /\ Len(Append(Front(st), f)) = Len(st)
           /\ \A i \in 1..Len(st) : Append(Front(st), f)[i] = IF i = Len(st) THEN f ELSE st[i]
<1>. DEFINE u == Append(Front(st), f)
<1>1. st \in Seq(FrameType)
    BY DEF WalkOK
<1>2. /\ Len(st) \in Nat \ {0} /\ Last(st) = st[Len(st)]
      /\ u \in Seq(FrameType) /\ u # <<>> /\ Len(u) = Len(st) /\ u[Len(st)] = f
      /\ \A i \in 1..Len(st) - 1 : u[i] = st[i]
    BY <1>1, Stacks
<1>. HIDE DEF u
<1>3. \A i \in 1..Len(st) : u[i] = IF i = Len(st) THEN f ELSE st[i]
    BY <1>2
<1>4. \A i \in 1..Len(st) : u[i].at = st[i].at /\ u[i].gone = st[i].gone
    BY <1>2, <1>3
<1>5. \A i \in 1..Len(st) : u[i].names \union u[i].subs \subseteq st[i].names \union st[i].subs
    BY <1>2, <1>3
<1>6. ASSUME NEW i \in 1..Len(u)
      PROVE  /\ Len(u[i].at) = i - 1
             /\ \A j \in i..Len(u) : IsPrefix(u[i].at, u[j].at)
             /\ \A q \in u[i].names \union u[i].subs : Front(q) = u[i].at /\ SourceName(q)
             /\ ~u[i].gone => IsDir(t, u[i].at)
    <2>1. i \in 1..Len(st)
        BY <1>2
    <2>2. /\ Len(st[i].at) = i - 1
          /\ \A j \in i..Len(st) : IsPrefix(st[i].at, st[j].at)
          /\ \A q \in st[i].names \union st[i].subs : Front(q) = st[i].at /\ SourceName(q)
          /\ ~st[i].gone => IsDir(t, st[i].at)
        BY <2>1 DEF WalkOK
    <2>3. \A j \in i..Len(u) : j \in 1..Len(st) /\ u[j].at = st[j].at
        BY <1>2, <1>4, <2>1
    <2>. QED  BY <1>2, <1>4, <1>5, <2>1, <2>2, <2>3
<1>7. WalkOK(u, t)
    BY <1>2, <1>6 DEF WalkOK
<1>8. Last(u) = f
    BY <1>2 DEF Last
<1>. QED  BY <1>2, <1>3, <1>7, <1>8 DEF u

\* A directory of the tree, below the one on top, is opened.
LEMMA WalkPush ==
    ASSUME NEW st, NEW t, WalkOK(st, t), st # <<>>,
           NEW f \in FrameType, f.at # <<>>, Front(f.at) = Last(st).at, IsDir(t, f.at),
           \A q \in f.names \union f.subs : Front(q) = f.at /\ SourceName(q)
    PROVE  /\ WalkOK(Append(st, f), t)
           /\ Append(st, f) # <<>> /\ Last(Append(st, f)) = f
           /\ Len(Append(st, f)) = Len(st) + 1
           /\ \A i \in 1..Len(st) + 1 : Append(st, f)[i] = IF i = Len(st) + 1 THEN f ELSE st[i]
<1>. DEFINE u == Append(st, f)
<1>1. st \in Seq(FrameType) /\ Len(st) \in Nat
    BY LenProperties DEF WalkOK
<1>2. /\ u \in Seq(FrameType) /\ u # <<>> /\ Len(u) = Len(st) + 1
      /\ \A i \in 1..Len(st) + 1 : u[i] = IF i = Len(st) + 1 THEN f ELSE st[i]
    BY <1>1, AppendProperties
<1>. HIDE DEF u
<1>3. f.at \in AllPaths /\ Len(f.at) = Len(st)
    <2>1. f.at \in AllPaths
        BY DEF FrameType, AllPaths
    <2>2. Len(Front(f.at)) = Len(f.at) - 1 /\ Len(f.at) \in Nat
        BY <2>1, FrontIsAbove, LenProperties DEF AllPaths, TreePaths
    <2>. QED  BY <1>1, <2>1, <2>2, TopIs
<1>4. \A i \in 1..Len(st) : IsPrefix(st[i].at, f.at)
    BY <1>3, TopIs
<1>5. IsPrefix(f.at, f.at)
    BY <1>3, PrefixOrder DEF AllPaths, TreePaths
<1>6. ASSUME NEW i \in 1..Len(u)
      PROVE  /\ Len(u[i].at) = i - 1
             /\ \A j \in i..Len(u) : IsPrefix(u[i].at, u[j].at)
             /\ \A q \in u[i].names \union u[i].subs : Front(q) = u[i].at /\ SourceName(q)
             /\ ~u[i].gone => IsDir(t, u[i].at)
    <2>1. CASE i = Len(st) + 1
        <3>1. u[i] = f /\ \A j \in i..Len(u) : u[j] = f
            BY <1>1, <1>2, <2>1
        <3>. QED  BY <1>1, <1>3, <1>5, <2>1, <3>1
    <2>2. CASE i # Len(st) + 1
        <3>1. i \in 1..Len(st) /\ u[i] = st[i]
            BY <1>1, <1>2, <2>2
        <3>2. /\ Len(st[i].at) = i - 1
              /\ \A j \in i..Len(st) : IsPrefix(st[i].at, st[j].at)
              /\ \A q \in st[i].names \union st[i].subs : Front(q) = st[i].at /\ SourceName(q)
              /\ ~st[i].gone => IsDir(t, st[i].at)
            BY <3>1 DEF WalkOK
        <3>3. ASSUME NEW j \in i..Len(u)
              PROVE  IsPrefix(u[i].at, u[j].at)
            <4>1. CASE j = Len(st) + 1
                BY <1>2, <1>4, <3>1, <4>1
            <4>2. CASE j # Len(st) + 1
                <5>1. j \in i..Len(st) /\ u[j] = st[j]
                    BY <1>1, <1>2, <3>1, <4>2
                <5>. QED  BY <3>1, <3>2, <5>1
            <4>. QED  BY <4>1, <4>2
        <3>. QED  BY <3>1, <3>2, <3>3
    <2>. QED  BY <2>1, <2>2
<1>7. WalkOK(u, t)
    BY <1>2, <1>6 DEF WalkOK
<1>8. Last(u) = f
    BY <1>1, <1>2 DEF Last
<1>. QED  BY <1>2, <1>7, <1>8 DEF u

\* The directory on top is left.
LEMMA WalkPop ==
    ASSUME NEW st, NEW t, WalkOK(st, t), st # <<>>
    PROVE  /\ WalkOK(Front(st), t) /\ Len(Front(st)) = Len(st) - 1
           /\ \A i \in 1..Len(st) - 1 : Front(st)[i] = st[i]
           /\ Last(st).at # <<>> => Front(st) # <<>>
<1>. DEFINE u == Front(st)
<1>1. st \in Seq(FrameType)
    BY DEF WalkOK
<1>2. /\ Len(st) \in Nat \ {0}
      /\ u \in Seq(FrameType) /\ Len(u) = Len(st) - 1 /\ \A i \in 1..Len(st) - 1 : u[i] = st[i]
    BY <1>1, Stacks
<1>. HIDE DEF u
<1>3. ASSUME NEW i \in 1..Len(u)
      PROVE  /\ Len(u[i].at) = i - 1
             /\ \A j \in i..Len(u) : IsPrefix(u[i].at, u[j].at)
             /\ \A q \in u[i].names \union u[i].subs : Front(q) = u[i].at /\ SourceName(q)
             /\ ~u[i].gone => IsDir(t, u[i].at)
    <2>1. i \in 1..Len(st) /\ u[i] = st[i]
        BY <1>2
    <2>2. \A j \in i..Len(u) : j \in i..Len(st) /\ u[j] = st[j]
        BY <1>2, <2>1
    <2>3. /\ Len(st[i].at) = i - 1
          /\ \A j \in i..Len(st) : IsPrefix(st[i].at, st[j].at)
          /\ \A q \in st[i].names \union st[i].subs : Front(q) = st[i].at /\ SourceName(q)
          /\ ~st[i].gone => IsDir(t, st[i].at)
        BY <2>1 DEF WalkOK
    <2>. QED  BY <2>1, <2>2, <2>3
<1>4. WalkOK(u, t)
    BY <1>2, <1>3 DEF WalkOK
<1>5. ASSUME Last(st).at # <<>>
      PROVE  u # <<>>
    <2>1. Len(Last(st).at) # 0 /\ Len(Last(st).at) = Len(st) - 1
        BY <1>5, TopIs, EmptySeq DEF TreePaths
    <2>. QED  BY <1>2, <2>1, EmptySeq
<1>. QED  BY <1>2, <1>4, <1>5 DEF u

\* A walk begins with the root.
LEMMA WalkRoot ==
    ASSUME NEW t, NEW f \in FrameType, f.at = <<>>,
           \A q \in f.names \union f.subs : Front(q) = <<>> /\ SourceName(q)
    PROVE  WalkOK(<<f>>, t) /\ Len(<<f>>) = 1 /\ <<f>>[1] = f /\ <<f>> # <<>> /\ Last(<<f>>) = f
<1>1. <<f>> \in Seq(FrameType) /\ Len(<<f>>) = 1 /\ <<f>>[1] = f /\ <<f>> # <<>>
    OBVIOUS
<1>2. Len(<<>>) = 0 /\ IsPrefix(<<>>, <<>>) /\ IsDir(t, <<>>)
    BY PrefixOrder, EmptySeq DEF IsDir
<1>3. WalkOK(<<f>>, t)
    BY <1>1, <1>2 DEF WalkOK
<1>. QED  BY <1>1, <1>3 DEF Last

\* There may be no walk.
LEMMA WalkNone == ASSUME NEW t PROVE WalkOK(<<>>, t) /\ OpenIn(<<>>, t)
BY EmptySeq DEF WalkOK, OpenIn

\* The tree changes where the walk has nothing open.
LEMMA WalkElsewhere ==
    ASSUME NEW st, NEW t, WalkOK(st, t), NEW u,
           \A i \in 1..Len(st) : IsDir(t, st[i].at) => IsDir(u, st[i].at)
    PROVE  WalkOK(st, u)
BY DEF WalkOK

\* The owner removes or replaces an entry: the walk keeps what it has open.
LEMMA WalkDetached ==
    ASSUME NEW t, WalkOK(stack, t), NEW p \in TreePaths, NEW u,
           \A q \in TreePaths : ~IsPrefix(p, q) /\ IsDir(t, q) => IsDir(u, q)
    PROVE  /\ WalkOK(Detached(p), u)
           /\ Len(Detached(p)) = Len(stack)
           /\ \A i \in 1..Len(stack) :
                /\ Detached(p)[i].at = stack[i].at /\ Detached(p)[i].meta = stack[i].meta
                /\ Detached(p)[i].names = stack[i].names /\ Detached(p)[i].subs = stack[i].subs
                /\ Detached(p)[i].gone <=> stack[i].gone \/ IsPrefix(p, stack[i].at)
<1>. DEFINE v == Detached(p)
<1>1. stack \in Seq(FrameType) /\ Len(stack) \in Nat /\ DOMAIN stack = 1..Len(stack)
    BY StackLen DEF WalkOK
<1>2. \A i \in 1..Len(stack) : stack[i] \in FrameType
    BY <1>1, ElementOfSeq
<1>3. ASSUME NEW i \in 1..Len(stack)
      PROVE  /\ v[i] \in FrameType
             /\ v[i].at = stack[i].at /\ v[i].meta = stack[i].meta
             /\ v[i].names = stack[i].names /\ v[i].subs = stack[i].subs
             /\ v[i].gone <=> stack[i].gone \/ IsPrefix(p, stack[i].at)
    <2>1. v[i] = [stack[i] EXCEPT !.gone = @ \/ IsPrefix(p, stack[i].at)]
        BY <1>1 DEF Detached
    <2>2. stack[i] \in FrameType
        BY <1>2
    <2>3. (stack[i].gone \/ IsPrefix(p, stack[i].at)) \in BOOLEAN
        OBVIOUS
    <2>. QED  BY <2>1, <2>2, <2>3 DEF FrameType
<1>4. v \in Seq(FrameType) /\ Len(v) = Len(stack)
    <2>1. v = [i \in 1..Len(stack) |-> v[i]] /\ DOMAIN v = 1..Len(stack)
        BY <1>1 DEF Detached
    <2>2. v \in [1..Len(stack) -> FrameType]
        BY <1>3, <2>1
    <2>. HIDE DEF v
    <2>. QED  BY <1>1, <2>2
<1>. HIDE DEF v
<1>5. ASSUME NEW i \in 1..Len(v)
      PROVE  /\ Len(v[i].at) = i - 1
             /\ \A j \in i..Len(v) : IsPrefix(v[i].at, v[j].at)
             /\ \A q \in v[i].names \union v[i].subs : Front(q) = v[i].at /\ SourceName(q)
             /\ ~v[i].gone => IsDir(u, v[i].at)
    <2>1. i \in 1..Len(stack)
        BY <1>4
    <2>2. /\ Len(stack[i].at) = i - 1
          /\ \A j \in i..Len(stack) : IsPrefix(stack[i].at, stack[j].at)
          /\ \A q \in stack[i].names \union stack[i].subs : Front(q) = stack[i].at /\ SourceName(q)
          /\ ~stack[i].gone => IsDir(t, stack[i].at)
        BY <2>1 DEF WalkOK
    <2>3. \A j \in i..Len(v) : j \in 1..Len(stack) /\ v[j].at = stack[j].at
        BY <1>1, <1>3, <1>4, <2>1
    <2>4. ~v[i].gone => IsDir(u, v[i].at)
        <3>1. stack[i].at \in TreePaths
            BY <1>2, <2>1 DEF FrameType
        <3>. QED  BY <1>3, <2>1, <2>2, <3>1
    <2>. QED  BY <1>3, <1>4, <2>1, <2>2, <2>3, <2>4
<1>6. WalkOK(v, u)
    BY <1>4, <1>5 DEF WalkOK
<1>. QED  BY <1>3, <1>4, <1>6 DEF v

-----------------------------------------------------------------------------
(* What a step leaves alone. *)

\* u is t but for what is at or below one of P.
Apart(t, u, P) ==
    \A q \in TreePaths : (\A p \in P : ~IsPrefix(p, q)) =>
        /\ q \in DOMAIN u <=> q \in DOMAIN t
        /\ q \in DOMAIN t => u[q] = t[q]

\* An entry that is put or taken leaves the rest.
LEMMA ApartSteps ==
    ASSUME NEW t, NEW p \in TreePaths
    PROVE  /\ Apart(t, t, {p})
           /\ \A e : Apart(t, Put(t, p, e), {p})
           /\ Apart(t, Without(t, {p}), {p})
<1>1. IsPrefix(p, p)
    BY PrefixOrder DEF TreePaths
<1>2. \A q \in TreePaths : (\A r \in {p} : ~IsPrefix(r, q)) => q # p
    BY <1>1
<1>3. Apart(t, t, {p})
    BY DEF Apart
<1>4. ASSUME NEW e
      PROVE  Apart(t, Put(t, p, e), {p})
    BY <1>2 DEF Apart, Put
<1>5. Apart(t, Without(t, {p}), {p})
    BY <1>2 DEF Apart, Without
<1>. QED  BY <1>3, <1>4, <1>5

\* So does one that goes with what is below it, or with a part of that.
LEMMA ApartDrops ==
    ASSUME NEW t, IsTree(t), NEW p \in AllPaths
    PROVE  /\ Apart(t, Drop(t, p), {p})
           /\ \A e : Apart(t, Put(Drop(t, p), p, e), {p})
           /\ \A u \in Remnants(t, p) : Apart(t, u, {p})
<1>1. IsPrefix(p, p) /\ p \in TreePaths
    BY PrefixOrder DEF AllPaths, TreePaths
<1>2. Apart(t, Drop(t, p), {p})
    BY DropTree DEF Apart
<1>3. ASSUME NEW e
      PROVE  Apart(t, Put(Drop(t, p), p, e), {p})
    <2>1. Apart(Drop(t, p), Put(Drop(t, p), p, e), {p})
        BY <1>1, ApartSteps
    <2>. QED  BY <1>2, <2>1 DEF Apart
<1>4. ASSUME NEW u \in Remnants(t, p)
      PROVE  Apart(t, u, {p})
    BY RemnantTree DEF Apart
<1>. QED  BY <1>2, <1>3, <1>4

\* What happens to an entry of the directory on top leaves all directories open.
LEMMA ApartOpen ==
    ASSUME NEW st, NEW s, WalkOK(st, s), st # <<>>, NEW t, OpenIn(st, t), NEW u, NEW P,
           Apart(t, u, P), \A p \in P : p \in AllPaths /\ Front(p) = Last(st).at
    PROVE  OpenIn(st, u) /\ IsDir(u, Last(st).at)
<1>1. ASSUME NEW i \in 1..Len(st)
      PROVE  IsDir(u, st[i].at)
    <2>1. IsDir(t, st[i].at) /\ st[i].at \in TreePaths
        BY TopIs DEF OpenIn, FrameType
    <2>2. \A p \in P : ~IsPrefix(p, st[i].at)
        BY TopIs
    <2>. QED  BY <2>1, <2>2 DEF Apart, IsDir, IsA
<1>2. Last(st) = st[Len(st)] /\ Len(st) \in 1..Len(st)
    BY TopIs
<1>. QED  BY <1>1, <1>2 DEF OpenIn

\* The walk has the same directories open.
LEMMA OpenSame ==
    ASSUME NEW st, NEW t, OpenIn(st, t), NEW v, Len(v) = Len(st),
           \A i \in 1..Len(st) : v[i].at = st[i].at
    PROVE  OpenIn(v, t)
BY DEF OpenIn

-----------------------------------------------------------------------------
(* The shape of a state. *)

WorkType == [path : TreePaths, stage : {"none", "check", "open", "write"}, name : TreePaths,
             st : Entries, data : Contents \union {"partial", "none"}]

\* The file a walk is at is an entry of the directory on top.  What is written
\* is no directory, nor is what it is to replace.
WorkOK(w, top, t, pass) ==
    /\ w \in WorkType
    /\ w.stage = "none" <=> w = Nothing
    /\ w # Nothing =>
        /\ pass \in {"mirror", "copy"} /\ (w.stage = "check" => pass = "mirror")
        /\ w.path \in AllPaths /\ Front(w.path) = top /\ SourceName(w.path)
        /\ w.name \in {w.path, TempOf(w.path)} /\ w.st.kind = "file"
        /\ w.stage = "write" => ~IsDir(t, w.path) /\ ~IsDir(t, w.name) /\ w.data # "none"

TreesOK == IsTree(src) /\ IsTree(dst) /\ \A p \in DOMAIN src : SourceName(p)

StackOK ==
    /\ WalkOK(stack, src)
    /\ pc \in {"mirror", "copy"} => OpenIn(stack, dst)
    /\ pc \in {"idle", "prune"} => stack = <<>>
    /\ pc = "clear" => stack # <<>>

DoingOK == WorkOK(doing, Last(stack).at, dst, pc) /\ (doing # Nothing => stack # <<>>)

TargetsOK ==
    /\ pc # "prune" => targets = {}
    /\ targets \subseteq DOMAIN dst
    /\ \A p, q \in targets : IsPrefix(p, q) => p = q

\* The commands that make a pass.
KindOK ==
    /\ pc \in {"collect", "mirror", "prune"} => op.kind = "sync"
    /\ pc = "copy" => op.kind \in {"copy", "move"}
    /\ pc = "clear" => op.kind = "move"

Basics ==
    /\ pc \in Passes /\ op \in Operations \union {NoOperation} /\ KindOK
    /\ outcome \in {"none", "ok", "failed", "killed"}
    /\ failed \subseteq skipped /\ stable \subseteq DOMAIN was
    /\ runs \in 0..MaxRuns /\ edits \in 0..MaxEdits /\ faults \in 0..MaxFaults

Shape == Basics /\ TreesOK /\ StackOK /\ DoingOK /\ TargetsOK

\* A temporary is beside what it is for, under a name no source has.
LEMMA TempIs ==
    ASSUME NEW p \in AllPaths, SourceName(p)
    PROVE  /\ TempOf(p) \in AllPaths /\ Front(TempOf(p)) = Front(p)
           /\ ~SourceName(TempOf(p)) /\ TempOf(p) # p
<1>1. p \in TreePaths /\ p # <<>> /\ Front(p) \in TreePaths
    BY FrontIsAbove DEF AllPaths, TreePaths
<1>. DEFINE n == TempName[Last(p)]
            q == Append(Front(p), n)
<1>2. n \in Range(Names) /\ n \notin DOMAIN TempName
    BY TransferAssumption DEF SourceName
<1>3. Len(Front(p)) \in Nat
    BY <1>1, LenProperties DEF TreePaths
<1>. HIDE DEF n
<1>4. /\ q \in TreePaths /\ q # <<>> /\ Len(q) = Len(Front(p)) + 1 /\ q[Len(Front(p)) + 1] = n
      /\ \A i \in 1..Len(Front(p)) : q[i] = Front(p)[i]
    BY <1>1, <1>2, AppendProperties DEF TreePaths
<1>. HIDE DEF q
<1>5. Last(q) = n
    BY <1>3, <1>4 DEF Last
<1>6. Front(q) \in TreePaths /\ Len(Front(q)) = Len(q) - 1 /\ IsPrefix(Front(q), q)
    BY <1>4, FrontIsAbove DEF TreePaths
<1>7. IsPrefix(Front(p), q)
    BY <1>1, <1>3, <1>4, PrefixAgrees DEF TreePaths
<1>8. Front(q) = Front(p)
    BY <1>1, <1>3, <1>4, <1>6, <1>7, PrefixOrder DEF TreePaths
<1>9. TempOf(p) = q
    BY DEF TempOf, q, n
<1>. QED  BY <1>2, <1>4, <1>5, <1>8, <1>9 DEF AllPaths, SourceName

\* A directory of the source that is opened, with its entries or without them.
LEMMA FramesAre ==
    ASSUME TreesOK, NEW p \in TreePaths, IsDir(src, p)
    PROVE  /\ Opened(p) \in FrameType /\ Listed(p) \in FrameType
           /\ [Opened(p) EXCEPT !.subs = Subdirs(src, p)] \in FrameType
           /\ Listed(p).names = Kids(src, p) /\ Listed(p).subs = {}
           /\ Listed(p).at = p /\ ~Listed(p).gone /\ Listed(p).meta = Opened(p).meta
           /\ Opened(p).at = p /\ ~Opened(p).gone /\ Opened(p).names = {} /\ Opened(p).subs = {}
           /\ Opened(p).meta = IF p = <<>> THEN Private ELSE src[p].meta
           /\ \A q \in Kids(src, p) \union Subdirs(src, p) :
                q \in AllPaths /\ q \in DOMAIN src /\ Front(q) = p /\ SourceName(q)
<1>1. Kids(src, p) = {q \in DOMAIN src : Front(q) = p}
    BY KidsAre DEF TreesOK
<1>2. DOMAIN src \subseteq AllPaths /\ \A q \in DOMAIN src : src[q] \in Entries /\ SourceName(q)
    BY DEF TreesOK, IsTree, AllPaths, TreePaths
<1>3. Subdirs(src, p) \subseteq Kids(src, p)
    BY DEF Subdirs
<1>4. p # <<>> => src[p].meta \in Metadata
    <2>1. SUFFICES ASSUME p # <<>>
                   PROVE  src[p].meta \in Metadata
        OBVIOUS
    <2>2. src[p] \in Entries /\ src[p].kind = "dir"
        BY <1>2, <2>1 DEF IsDir, IsA
    <2>. QED  BY <2>2, EntryKinds
<1>5. (IF p = <<>> THEN Private ELSE src[p].meta) \in Metadata
    BY <1>4 DEF Metadata
<1>6. Kids(src, p) \in SUBSET AllPaths /\ Subdirs(src, p) \in SUBSET AllPaths
    BY <1>1, <1>2, <1>3
<1>7. Opened(p) \in FrameType
    BY <1>5 DEF Opened, FrameType
<1>8. Listed(p) \in FrameType /\ [Opened(p) EXCEPT !.subs = Subdirs(src, p)] \in FrameType
    BY <1>6, <1>7 DEF Listed, FrameType
<1>9. /\ Listed(p).names = Kids(src, p) /\ Listed(p).subs = {}
      /\ Listed(p).at = p /\ ~Listed(p).gone /\ Listed(p).meta = Opened(p).meta
      /\ Opened(p).at = p /\ ~Opened(p).gone /\ Opened(p).names = {} /\ Opened(p).subs = {}
      /\ Opened(p).meta = IF p = <<>> THEN Private ELSE src[p].meta
    BY DEF Listed, Opened
<1>. QED  BY <1>1, <1>2, <1>3, <1>7, <1>8, <1>9

\* No file, and none when another pass begins.
LEMMA WorkNone ==
    ASSUME NEW top, NEW t, NEW pass
    PROVE  WorkOK(Nothing, top, t, pass)
<1>1. <<>> \in TreePaths
    BY EmptySeq DEF TreePaths
<1>. QED  BY <1>1 DEF WorkOK, WorkType, Nothing, Entries

\* It begins well.
LEMMA ShapeInit == Init => Shape
<1>. SUFFICES ASSUME Init
              PROVE  Shape
    OBVIOUS
<1>1. TreesOK
    BY TransferAssumption DEF Init, TreesOK, SourceName
<1>2. StackOK
    BY WalkNone DEF Init, StackOK
<1>3. DoingOK
    BY WorkNone DEF Init, DoingOK
<1>4. TargetsOK
    BY DEF Init, TargetsOK
<1>5. Basics
    BY TransferAssumption DEF Init, Basics, KindOK, Passes, EmptyTree
<1>. QED  BY <1>1, <1>2, <1>3, <1>4, <1>5 DEF Shape

-----------------------------------------------------------------------------
(* What the steps of a walk do to the stack and to the destination. *)

\* An entry the walk has come to is one of the directory on top.
LEMMA EntryIs ==
    ASSUME Shape, NEW pass, NEW p, Entry(pass, p)
    PROVE  /\ p \in AllPaths /\ p \in TreePaths /\ Front(p) = Top.at /\ SourceName(p)
           /\ pc = pass /\ doing = Nothing /\ stack # <<>> /\ p \in Top.names
           /\ pass \in {"mirror", "copy"} => IsDir(dst, Front(p))
<1>1. stack # <<>> /\ p \in Top.names /\ WalkOK(stack, src) /\ pc = pass /\ doing = Nothing
    BY DEF Entry, IsFirst, Shape, StackOK
<1>2. p \in AllPaths /\ Front(p) = Top.at /\ SourceName(p)
    BY <1>1, TopIs DEF Top
<1>3. ASSUME pass \in {"mirror", "copy"}
      PROVE  IsDir(dst, Top.at)
    <2>1. OpenIn(stack, dst)
        BY <1>1, <1>3 DEF Shape, StackOK
    <2>2. Len(stack) \in 1..Len(stack) /\ Top = stack[Len(stack)]
        BY <1>1, TopIs DEF Top
    <2>. QED  BY <2>1, <2>2 DEF OpenIn
<1>. QED  BY <1>1, <1>2, <1>3 DEF AllPaths

\* Entries that are done, and directories that are put aside for later.
LEMMA LessNameIs ==
    ASSUME WalkOK(stack, src), stack # <<>>, NEW p
    PROVE  /\ WalkOK(LessName(p), src) /\ LessName(p) # <<>> /\ Len(LessName(p)) = Len(stack)
           /\ Last(LessName(p)).at = Top.at /\ Last(LessName(p)).gone = Top.gone
           /\ Last(LessName(p)).meta = Top.meta
           /\ Last(LessName(p)).names = Top.names \ {p} /\ Last(LessName(p)).subs = Top.subs
           /\ \A i \in 1..Len(stack) :
                LessName(p)[i] = IF i = Len(stack) THEN Last(LessName(p)) ELSE stack[i]
           /\ \A t : OpenIn(stack, t) => OpenIn(LessName(p), t)
<1>. DEFINE f == [Top EXCEPT !.names = @ \ {p}]
<1>1. /\ Len(stack) \in Nat \ {0} /\ Last(stack) = stack[Len(stack)] /\ Top \in FrameType
    BY TopIs DEF Top
<1>2. /\ f \in FrameType /\ f.at = Top.at /\ f.gone = Top.gone /\ f.meta = Top.meta
      /\ f.names = Top.names \ {p} /\ f.subs = Top.subs
    BY <1>1 DEF FrameType
<1>3. LessName(p) = Append(Front(stack), f)
    BY DEF LessName, ReplaceTop
<1>. HIDE DEF f
<1>4. /\ WalkOK(LessName(p), src) /\ LessName(p) # <<>> /\ Len(LessName(p)) = Len(stack)
      /\ Last(LessName(p)) = f
      /\ \A i \in 1..Len(stack) : LessName(p)[i] = IF i = Len(stack) THEN f ELSE stack[i]
    BY <1>2, <1>3, WalkLess DEF Top
<1>5. \A i \in 1..Len(stack) : LessName(p)[i].at = stack[i].at
    BY <1>1, <1>2, <1>4 DEF Top
<1>. QED  BY <1>2, <1>4, <1>5, OpenSame

\* The same for a subdirectory of the directory on top.
LEMMA LessSubIs ==
    ASSUME WalkOK(stack, src), stack # <<>>, NEW p
    PROVE  /\ WalkOK(LessSub(p), src) /\ LessSub(p) # <<>> /\ Len(LessSub(p)) = Len(stack)
           /\ Last(LessSub(p)).at = Top.at /\ Last(LessSub(p)).gone = Top.gone
           /\ Last(LessSub(p)).meta = Top.meta
           /\ Last(LessSub(p)).names = Top.names /\ Last(LessSub(p)).subs = Top.subs \ {p}
           /\ \A i \in 1..Len(stack) :
                LessSub(p)[i] = IF i = Len(stack) THEN Last(LessSub(p)) ELSE stack[i]
           /\ \A t : OpenIn(stack, t) => OpenIn(LessSub(p), t)
<1>. DEFINE f == [Top EXCEPT !.subs = @ \ {p}]
<1>1. /\ Len(stack) \in Nat \ {0} /\ Last(stack) = stack[Len(stack)] /\ Top \in FrameType
    BY TopIs DEF Top
<1>2. /\ f \in FrameType /\ f.at = Top.at /\ f.gone = Top.gone /\ f.meta = Top.meta
      /\ f.names = Top.names /\ f.subs = Top.subs \ {p}
    BY <1>1 DEF FrameType
<1>3. LessSub(p) = Append(Front(stack), f)
    BY DEF LessSub, ReplaceTop
<1>. HIDE DEF f
<1>4. /\ WalkOK(LessSub(p), src) /\ LessSub(p) # <<>> /\ Len(LessSub(p)) = Len(stack)
      /\ Last(LessSub(p)) = f
      /\ \A i \in 1..Len(stack) : LessSub(p)[i] = IF i = Len(stack) THEN f ELSE stack[i]
    BY <1>2, <1>3, WalkLess DEF Top
<1>5. \A i \in 1..Len(stack) : LessSub(p)[i].at = stack[i].at
    BY <1>1, <1>2, <1>4 DEF Top
<1>. QED  BY <1>2, <1>4, <1>5, OpenSame

Aside(p) == ReplaceTop([Top EXCEPT !.names = @ \ {p}, !.subs = @ \union {p}])

\* An entry is put aside as a subdirectory for later.
LEMMA AsideIs ==
    ASSUME WalkOK(stack, src), stack # <<>>, NEW p \in Top.names
    PROVE  /\ WalkOK(Aside(p), src) /\ Aside(p) # <<>> /\ Len(Aside(p)) = Len(stack)
           /\ Last(Aside(p)).at = Top.at /\ Last(Aside(p)).gone = Top.gone
           /\ Last(Aside(p)).meta = Top.meta
           /\ Last(Aside(p)).names = Top.names \ {p} /\ Last(Aside(p)).subs = Top.subs \union {p}
           /\ \A i \in 1..Len(stack) :
                Aside(p)[i] = IF i = Len(stack) THEN Last(Aside(p)) ELSE stack[i]
           /\ \A t : OpenIn(stack, t) => OpenIn(Aside(p), t)
<1>. DEFINE f == [Top EXCEPT !.names = @ \ {p}, !.subs = @ \union {p}]
<1>1. /\ Len(stack) \in Nat \ {0} /\ Last(stack) = stack[Len(stack)] /\ Top \in FrameType
    BY TopIs DEF Top
<1>2. p \in AllPaths
    BY <1>1 DEF FrameType
<1>3. /\ f \in FrameType /\ f.at = Top.at /\ f.gone = Top.gone /\ f.meta = Top.meta
      /\ f.names = Top.names \ {p} /\ f.subs = Top.subs \union {p}
    BY <1>1, <1>2 DEF FrameType
<1>4. Aside(p) = Append(Front(stack), f)
    BY DEF Aside, ReplaceTop
<1>. HIDE DEF f
<1>5. f.names \union f.subs \subseteq Top.names \union Top.subs
    BY <1>3
<1>6. /\ WalkOK(Aside(p), src) /\ Aside(p) # <<>> /\ Len(Aside(p)) = Len(stack)
      /\ Last(Aside(p)) = f
      /\ \A i \in 1..Len(stack) : Aside(p)[i] = IF i = Len(stack) THEN f ELSE stack[i]
    BY <1>3, <1>4, <1>5, WalkLess DEF Top
<1>7. \A i \in 1..Len(stack) : Aside(p)[i].at = stack[i].at
    BY <1>1, <1>3, <1>6 DEF Top
<1>. QED  BY <1>3, <1>6, <1>7, OpenSame

\* A directory is opened when its name has been taken off.
LEMMA OpensDown ==
    ASSUME Shape, NEW st, WalkOK(st, src), st # <<>>, Last(st).at = Top.at,
           NEW p \in AllPaths, Front(p) = Top.at, IsDir(src, p),
           NEW f \in FrameType, f.at = p,
           f.names \subseteq Kids(src, p), f.subs \subseteq Subdirs(src, p)
    PROVE  /\ WalkOK(Append(st, f), src) /\ Append(st, f) # <<>>
           /\ Last(Append(st, f)) = f /\ Len(Append(st, f)) = Len(st) + 1
           /\ \A i \in 1..Len(st) + 1 : Append(st, f)[i] = IF i = Len(st) + 1 THEN f ELSE st[i]
           /\ \A t : OpenIn(st, t) /\ IsDir(t, p) => OpenIn(Append(st, f), t)
<1>1. p \in TreePaths /\ p # <<>>
    BY DEF AllPaths
<1>2. \A q \in f.names \union f.subs : Front(q) = p /\ SourceName(q)
    <2>1. TreesOK
        BY DEF Shape
    <2>2. \A q \in Kids(src, p) \union Subdirs(src, p) : Front(q) = p /\ SourceName(q)
        BY <1>1, <2>1, FramesAre
    <2>. QED  BY <2>2
<1>3. /\ WalkOK(Append(st, f), src) /\ Append(st, f) # <<>>
      /\ Last(Append(st, f)) = f /\ Len(Append(st, f)) = Len(st) + 1
      /\ \A i \in 1..Len(st) + 1 : Append(st, f)[i] = IF i = Len(st) + 1 THEN f ELSE st[i]
    BY <1>1, <1>2, WalkPush
<1>4. ASSUME NEW t, OpenIn(st, t), IsDir(t, p)
      PROVE  OpenIn(Append(st, f), t)
    <2>1. Len(st) \in Nat
        BY TopIs
    <2>. QED  BY <1>3, <1>4, <2>1 DEF OpenIn
<1>. QED  BY <1>3, <1>4

\* What is put into the destination is an entry.
LEMMA NewEntries ==
    /\ Dir(Private) \in Entries /\ Dir(Private).kind = "dir"
    /\ Partial \in Entries /\ Partial.kind = "file"
BY DEF Dir, Partial, File, Entries, Private, NoTime

\* The passes change the destination at the entry they are at, and keep it a tree:
\* a directory that is mirrored,
LEMMA MirrorDirDoes ==
    ASSUME Shape, NEW p, MirrorDir(p)
    PROVE  IsTree(dst') /\ Apart(dst, dst', {p})
<1>. USE DEF MirrorDir
<1>1. p \in AllPaths /\ p \in TreePaths /\ IsDir(dst, Front(p))
    BY EntryIs
<1>2. IsTree(dst)
    BY DEF Shape, TreesOK
<1>3. CASE dst' = dst
    BY <1>1, <1>2, <1>3, ApartSteps
<1>4. CASE dst' = Put(dst, p, Dir(Private))
    <2>1. IsTree(dst')
        BY <1>1, <1>2, <1>4, NewEntries, PutTree
    <2>. QED  BY <1>1, <1>4, <2>1, ApartSteps
<1>5. CASE dst' = Without(dst, {p}) /\ ~IsDir(dst, p)
    BY <1>1, <1>2, <1>5, TreeLeaf, LeafGoes, ApartSteps
<1>. QED  BY <1>3, <1>4, <1>5

\* a link that is mirrored,
LEMMA MirrorLinkDoes ==
    ASSUME Shape, NEW p, MirrorLink(p)
    PROVE  IsTree(dst') /\ Apart(dst, dst', {p})
<1>. USE DEF MirrorLink
<1>1. p \in AllPaths /\ p \in TreePaths /\ IsDir(dst, Front(p))
    BY EntryIs
<1>2. IsTree(dst) /\ IsTree(src)
    BY DEF Shape, TreesOK
<1>3. src[p] \in Entries
    BY <1>2 DEF Found, There, IsTree
<1>4. CASE dst' = dst
    BY <1>1, <1>2, <1>4, ApartSteps
<1>5. CASE dst' = Put(Drop(dst, p), p, src[p])
    BY <1>1, <1>2, <1>3, <1>5, PutDropped, ApartDrops
<1>6. CASE dst' \in Remnants(dst, p)
    BY <1>1, <1>2, <1>6, RemnantTree, ApartDrops
<1>. QED  BY <1>4, <1>5, <1>6

\* The file a walk is at.
LEMMA DoingIs ==
    ASSUME Shape, doing.stage # "none"
    PROVE  /\ doing # Nothing /\ doing \in WorkType /\ stack # <<>> /\ pc \in {"mirror", "copy"}
           /\ doing.path \in AllPaths /\ doing.path \in TreePaths /\ Front(doing.path) = Top.at
           /\ SourceName(doing.path)
           /\ doing.name \in {doing.path, TempOf(doing.path)}
           /\ doing.name \in AllPaths /\ doing.name \in TreePaths /\ Front(doing.name) = Top.at
           /\ IsDir(dst, Top.at)
           /\ doing.st.kind = "file" /\ doing.st \in Entries
           /\ doing.stage = "write" =>
                ~IsDir(dst, doing.path) /\ ~IsDir(dst, doing.name) /\ doing.data # "none"
<1>1. doing # Nothing /\ stack # <<>> /\ WorkOK(doing, Top.at, dst, pc)
    BY DEF Shape, DoingOK, WorkOK, Top, Nothing
<1>2. /\ doing \in WorkType /\ pc \in {"mirror", "copy"}
      /\ doing.path \in AllPaths /\ Front(doing.path) = Top.at /\ SourceName(doing.path)
      /\ doing.name \in {doing.path, TempOf(doing.path)} /\ doing.st.kind = "file"
      /\ doing.stage = "write" =>
           ~IsDir(dst, doing.path) /\ ~IsDir(dst, doing.name) /\ doing.data # "none"
    BY <1>1 DEF WorkOK
<1>3. doing.name \in AllPaths /\ Front(doing.name) = Top.at
    BY <1>2, TempIs
<1>4. doing.st \in Entries
    BY <1>2 DEF WorkType
<1>5. IsDir(dst, Top.at)
    <2>1. OpenIn(stack, dst) /\ WalkOK(stack, src)
        BY <1>2 DEF Shape, StackOK
    <2>2. Len(stack) \in 1..Len(stack) /\ Top = stack[Len(stack)]
        BY <1>1, <2>1, TopIs DEF Top
    <2>. QED  BY <2>1, <2>2 DEF OpenIn
<1>. QED  BY <1>1, <1>2, <1>3, <1>4, <1>5 DEF AllPaths

\* What stands in place is of the kind that was found.
LEMMA CheckDoes ==
    ASSUME Shape, Check
    PROVE  /\ IsTree(dst') /\ Apart(dst, dst', {doing.path})
           /\ dst' # dst => IsA("file", dst, doing.path) /\ dst' = Refreshed
<1>. DEFINE p == doing.path
<1>1. /\ p \in AllPaths /\ p \in TreePaths
      /\ doing.st.kind = "file" /\ doing.st \in Entries
    BY DoingIs DEF Check
<1>2. IsTree(dst)
    BY DEF Shape, TreesOK
<1>3. CASE dst' = dst
    <2>1. Apart(dst, dst, {p})
        BY <1>1, ApartSteps
    <2>. QED  BY <1>2, <1>3, <2>1
<1>4. CASE ~Rewrites /\ dst' = Refreshed
    <2>1. IsA("file", dst, p)
        BY <1>4 DEF Rewrites, NeedsUpdate
    <2>2. /\ doing.st.meta \in Metadata /\ doing.st.time \in Nat
        BY <1>1, EntryKinds
    <2>3. dst[p] \in Entries /\ p \in DOMAIN dst /\ dst[p].kind = "file"
        BY <1>2, <2>1 DEF IsTree, IsA
    <2>4. /\ DOMAIN dst' = DOMAIN dst
          /\ \A q \in DOMAIN dst : q # p => dst'[q] = dst[q]
          /\ dst'[p] = [dst[p] EXCEPT !.meta = doing.st.meta, !.time = doing.st.time]
        BY <1>4, <2>3 DEF Refreshed
    <2>5. dst'[p] \in Entries /\ dst'[p].kind = "file"
        <3>1. dst[p] \in [kind : {"file"}, data : Contents \union {"partial"},
                          time : Nat, meta : Metadata, twin : BOOLEAN]
            BY <2>3, EntryKinds
        <3>2. dst'[p] \in [kind : {"file"}, data : Contents \union {"partial"},
                           time : Nat, meta : Metadata, twin : BOOLEAN]
            BY <2>2, <2>4, <3>1
        <3>. QED  BY <3>2 DEF Entries, Metadata
    <2>6. \A q \in DOMAIN dst : dst'[q] \in Entries /\ dst'[q].kind = dst[q].kind
        BY <1>2, <2>3, <2>4, <2>5 DEF IsTree
    <2>7. IsTree(dst')
        BY <1>2, <2>4, <2>6, SameKindTree
    <2>8. IsPrefix(p, p)
        BY <1>1, PrefixOrder DEF TreePaths
    <2>9. Apart(dst, dst', {p})
        BY <2>4, <2>8 DEF Apart
    <2>. QED  BY <1>4, <2>1, <2>4, <2>7, <2>9
<1>5. dst' = dst \/ (~Rewrites /\ dst' = Refreshed)
    BY DEF Check
<1>. QED  BY <1>3, <1>4, <1>5

\* A directory that is left gets its owner and mode.
LEMMA SealedIs ==
    ASSUME IsTree(dst), NEW p \in TreePaths, IsDir(dst, p), NEW m \in Metadata
    PROVE  /\ IsTree(Sealed(p, m)) /\ DOMAIN Sealed(p, m) = DOMAIN dst
           /\ \A q \in DOMAIN dst :
                Sealed(p, m)[q] = IF q = p THEN [kind |-> "dir", meta |-> m] ELSE dst[q]
           /\ \A q : IsDir(dst, q) <=> IsDir(Sealed(p, m), q)
<1>1. CASE p = <<>>
    <2>1. <<>> \notin DOMAIN dst
        BY DEF IsTree
    <2>. QED  BY <1>1, <2>1 DEF Sealed
<1>2. CASE p # <<>>
    <2>1. p \in DOMAIN dst /\ dst[p] \in [kind : {"dir"}, meta : Metadata]
        BY <1>2, EntryKinds DEF IsDir, IsA, IsTree
    <2>. DEFINE u == Sealed(p, m)
    <2>2. /\ DOMAIN u = DOMAIN dst /\ u[p] = [dst[p] EXCEPT !.meta = m]
          /\ \A q \in DOMAIN dst : q # p => u[q] = dst[q]
        BY <1>2, <2>1 DEF Sealed
    <2>. HIDE DEF u
    <2>3. u[p] = [kind |-> "dir", meta |-> m] /\ u[p] \in Entries /\ dst[p].kind = "dir"
        BY <2>1, <2>2 DEF Entries, Metadata
    <2>4. \A q \in DOMAIN dst : u[q] \in Entries /\ u[q].kind = dst[q].kind
        BY <2>1, <2>2, <2>3 DEF IsTree
    <2>5. IsTree(u)
        BY <2>2, <2>4, SameKindTree
    <2>6. \A q : IsDir(dst, q) <=> IsDir(u, q)
        BY <2>2, <2>4 DEF IsDir, IsA
    <2>. QED  BY <2>2, <2>3, <2>5, <2>6 DEF u
<1>. QED  BY <1>1, <1>2

\* A directory gets the owner and mode of a frame, or of the source.
LEMMA LeavesUp ==
    ASSUME Shape, pc \in {"mirror", "copy"}, stack # <<>>, NEW m \in Metadata
    PROVE  /\ IsTree(Sealed(Top.at, m)) /\ DOMAIN Sealed(Top.at, m) = DOMAIN dst
           /\ \A q \in DOMAIN dst :
                Sealed(Top.at, m)[q] = IF q = Top.at THEN [kind |-> "dir", meta |-> m] ELSE dst[q]
           /\ \A q : IsDir(dst, q) <=> IsDir(Sealed(Top.at, m), q)
<1>1. WalkOK(stack, src) /\ OpenIn(stack, dst) /\ IsTree(dst)
    BY DEF Shape, StackOK, TreesOK
<1>2. Len(stack) \in 1..Len(stack) /\ Top = stack[Len(stack)] /\ Top.at \in TreePaths
    BY <1>1, TopIs DEF Top
<1>3. IsDir(dst, Top.at)
    BY <1>1, <1>2 DEF OpenIn
<1>. QED  BY <1>1, <1>2, <1>3, SealedIs

\* A level that is left gets a mode, the source's if it is still there.
LEMMA MirrorUpDoes ==
    ASSUME Shape, MirrorUp
    PROVE  \E m \in Metadata : dst' = Sealed(Top.at, m) /\ (~Top.gone => m = Opened(Top.at).meta)
<1>1. PICK m \in IF Top.gone THEN Metas ELSE {Opened(Top.at).meta} : dst' = Sealed(Top.at, m)
    BY DEF MirrorUp
<1>2. CASE Top.gone
    BY <1>1, <1>2 DEF Metadata
<1>3. CASE ~Top.gone
    <2>1. stack # <<>> /\ WalkOK(stack, src) /\ TreesOK
        BY DEF MirrorUp, Shape, StackOK
    <2>2. Top.at \in TreePaths /\ IsDir(src, Top.at)
        BY <1>3, <2>1, TopIs DEF Top
    <2>3. Opened(Top.at) \in FrameType
        BY <2>1, <2>2, FramesAre
    <2>4. Opened(Top.at).meta \in Metadata
        BY <2>3 DEF FrameType
    <2>. QED  BY <1>1, <1>3, <2>4
<1>. QED  BY <1>2, <1>3

\* A file that is opened stands empty under its name,
LEMMA CopyOpenDoes ==
    ASSUME Shape, CopyOpen
    PROVE  /\ IsTree(dst') /\ Apart(dst, dst', {doing.name})
           /\ dst' # dst => dst' = Put(dst, doing.name, Partial)
<1>1. doing.stage = "open"
    BY DEF CopyOpen
<1>2. /\ doing.name \in AllPaths /\ doing.name \in TreePaths
      /\ Front(doing.name) = Top.at /\ IsDir(dst, Top.at)
    BY <1>1, DoingIs
<1>3. IsTree(dst)
    BY DEF Shape, TreesOK
<1>4. CASE UNCHANGED dst
    <2>1. Apart(dst, dst, {doing.name})
        BY <1>2, ApartSteps
    <2>. QED  BY <1>3, <1>4, <2>1
<1>5. CASE ~IsDir(dst, doing.name) /\ dst' = Put(dst, doing.name, Partial)
    <2>1. IsTree(dst')
        BY <1>2, <1>3, <1>5, NewEntries, TreeLeaf, PutTree
    <2>. QED  BY <1>2, <1>5, <2>1, ApartSteps
<1>. QED  BY <1>4, <1>5 DEF CopyOpen

\* is put in place when it is written,
LEMMA CopyWriteDoes ==
    ASSUME Shape, NEW d \in {doing.data, Current} \ {"none"}, doing.stage = "write",
           dst' = Put(IF doing.name = doing.path THEN dst ELSE Without(dst, {doing.name}),
                      doing.path, Written(d))
    PROVE  IsTree(dst') /\ Apart(dst, dst', {doing.name, doing.path})
<1>. DEFINE p == doing.path
            n == doing.name
            t == IF n = p THEN dst ELSE Without(dst, {n})
<1>1. /\ p \in AllPaths /\ p \in TreePaths /\ Front(p) = Top.at
      /\ n \in AllPaths /\ n \in TreePaths /\ Front(n) = Top.at /\ IsDir(dst, Top.at)
      /\ ~IsDir(dst, p) /\ ~IsDir(dst, n) /\ doing.data # "none"
      /\ doing.st.kind = "file" /\ doing.st \in Entries /\ doing \in WorkType
    BY DoingIs
<1>2. IsTree(dst) /\ IsTree(src)
    BY DEF Shape, TreesOK
<1>3. d \in Contents \union {"partial"}
    <2>1. CASE d = doing.data
        BY <1>1, <2>1 DEF WorkType
    <2>2. CASE d # doing.data
        <3>1. d = src[p].data /\ p \in DOMAIN src /\ src[p].kind = "file"
            BY <2>2 DEF Current, Found, There
        <3>2. src[p] \in Entries
            BY <1>2, <3>1 DEF IsTree
        <3>. QED  BY <3>1, <3>2, EntryKinds
    <2>. QED  BY <2>1, <2>2
<1>4. Written(d) \in Entries
    <2>1. doing.st.meta \in Metadata /\ doing.st.time \in Nat
        BY <1>1, EntryKinds
    <2>. QED  BY <1>3, <2>1 DEF Written, File, Entries, Metadata
<1>5. IsTree(t) /\ IsDir(t, Front(p)) /\ ~IsDir(t, p) /\ Apart(dst, t, {n, p})
    <2>1. CASE n = p
        BY <1>1, <1>2, <2>1 DEF Apart
    <2>2. CASE n # p
        <3>1. IsTree(t)
            BY <1>1, <1>2, <2>2, TreeLeaf, LeafGoes
        <3>2. Apart(dst, Without(dst, {n}), {n})
            BY <1>1, ApartSteps
        <3>3. IsDir(t, Front(p)) /\ ~IsDir(t, p)
            BY <1>1, <2>2 DEF Without, IsDir, IsA
        <3>. QED  BY <2>2, <3>1, <3>2, <3>3 DEF Apart
    <2>. QED  BY <2>1, <2>2
<1>6. dst' = Put(t, p, Written(d))
    OBVIOUS
<1>. HIDE DEF t
<1>7. IsTree(dst')
    BY <1>1, <1>4, <1>5, <1>6, TreeLeaf, PutTree
<1>8. Apart(t, dst', {p})
    BY <1>1, <1>6, ApartSteps
<1>9. Apart(dst, dst', {n, p})
    BY <1>5, <1>8 DEF Apart
<1>. QED  BY <1>7, <1>9

\* and goes when it cannot be.
LEMMA CopyWriteFailsDoes ==
    ASSUME Shape, CopyWriteFails
    PROVE  IsTree(dst') /\ Apart(dst, dst', {doing.name})
<1>1. doing.stage = "write" /\ dst' = IF doing.name = doing.path THEN dst ELSE Without(dst, {doing.name})
    BY DEF CopyWriteFails
<1>2. doing.name \in AllPaths /\ doing.name \in TreePaths /\ ~IsDir(dst, doing.name)
    BY <1>1, DoingIs
<1>3. IsTree(dst)
    BY DEF Shape, TreesOK
<1>4. CASE UNCHANGED dst
    <2>1. Apart(dst, dst, {doing.name})
        BY <1>2, ApartSteps
    <2>. QED  BY <1>3, <1>4, <2>1
<1>5. CASE dst' = Without(dst, {doing.name})
    BY <1>2, <1>3, <1>5, TreeLeaf, LeafGoes, ApartSteps
<1>. QED  BY <1>1, <1>4, <1>5

\* What is pruned goes with what is below it, or a part of that does.
LEMMA PruneNextDoes ==
    ASSUME Shape, NEW p \in targets, dst' = Drop(dst, p) \/ dst' \in Remnants(dst, p)
    PROVE  /\ p \in AllPaths /\ p \in TreePaths /\ IsTree(dst') /\ Apart(dst, dst', {p})
           /\ DOMAIN dst' \subseteq DOMAIN dst
<1>1. IsTree(dst) /\ p \in DOMAIN dst
    BY DEF Shape, TreesOK, TargetsOK
<1>2. p \in AllPaths /\ p \in TreePaths
    BY <1>1 DEF IsTree, AllPaths, TreePaths
<1>3. CASE dst' = Drop(dst, p)
    BY <1>1, <1>2, <1>3, DropTree, ApartDrops
<1>4. CASE dst' \in Remnants(dst, p)
    BY <1>1, <1>2, <1>4, RemnantTree, ApartDrops
<1>. QED  BY <1>2, <1>3, <1>4

\* A link that is copied,
LEMMA CopyLinkDoes ==
    ASSUME Shape, NEW p, CopyLink(p)
    PROVE  IsTree(dst') /\ Apart(dst, dst', {p})
<1>. USE DEF CopyLink
<1>1. p \in AllPaths /\ p \in TreePaths /\ IsDir(dst, Front(p))
    BY EntryIs
<1>2. IsTree(dst) /\ IsTree(src)
    BY DEF Shape, TreesOK
<1>3. src[p] \in Entries
    BY <1>2 DEF Found, There, IsTree
<1>4. CASE dst' = dst
    BY <1>1, <1>2, <1>4, ApartSteps
<1>5. CASE ~IsDir(dst, p) /\ dst' = Put(dst, p, src[p])
    <2>1. IsTree(dst')
        BY <1>1, <1>2, <1>3, <1>5, TreeLeaf, PutTree
    <2>. QED  BY <1>1, <1>5, <2>1, ApartSteps
<1>6. CASE ~IsDir(dst, p) /\ dst' = Without(dst, {p})
    BY <1>1, <1>2, <1>6, TreeLeaf, LeafGoes, ApartSteps
<1>7. dst' = dst \/ ~IsDir(dst, p)
    <2>1. IsDir(dst, p) => p \in DOMAIN dst
        BY <1>1 DEF IsDir, IsA, AllPaths
    <2>. QED  BY <2>1
<1>. QED  BY <1>4, <1>5, <1>6, <1>7

\* and a directory.
LEMMA CopyDirDoes ==
    ASSUME Shape, NEW p, CopyDir(p)
    PROVE  IsTree(dst') /\ Apart(dst, dst', {p})
<1>1. p \in AllPaths /\ p \in TreePaths /\ IsDir(dst, Front(p))
    BY EntryIs DEF CopyDir
<1>2. IsTree(dst)
    BY DEF Shape, TreesOK
<1>3. dst' = dst \/ dst' = Put(dst, p, Dir(Private))
    BY DEF CopyDir
<1>4. CASE dst' = dst
    BY <1>1, <1>2, <1>4, ApartSteps
<1>5. CASE dst' = Put(dst, p, Dir(Private))
    <2>1. IsTree(dst')
        BY <1>1, <1>2, <1>5, NewEntries, PutTree
    <2>. QED  BY <1>1, <1>5, <2>1, ApartSteps
<1>. QED  BY <1>3, <1>4, <1>5

\* The owner's changes of the source.
LEMMA EditFileDoes ==
    ASSUME Shape, NEW p \in Paths, EditFile(p)
    PROVE  IsTree(src') /\ DOMAIN src' = DOMAIN src /\ \A q : IsDir(src, q) <=> IsDir(src', q)
<1>1. PICK d \in Contents : src' = [src EXCEPT ![p].data = d, ![p].time = EditTime]
    BY DEF EditFile
<1>2. IsTree(src) /\ p \in DOMAIN src /\ src[p].kind = "file"
    BY DEF EditFile, IsA, Shape, TreesOK
<1>3. EditTime \in Nat
    BY TransferAssumption DEF EditTime, Shape, Basics
<1>4. src[p] \in [kind : {"file"}, data : Contents \union {"partial"},
                  time : Nat, meta : Metadata, twin : BOOLEAN]
    BY <1>2, EntryKinds DEF IsTree
<1>5. /\ DOMAIN src' = DOMAIN src /\ \A q \in DOMAIN src : q # p => src'[q] = src[q]
      /\ src'[p] = [src[p] EXCEPT !.data = d, !.time = EditTime]
    BY <1>1, <1>2
<1>6. src'[p] \in [kind : {"file"}, data : Contents \union {"partial"},
                   time : Nat, meta : Metadata, twin : BOOLEAN]
    BY <1>3, <1>4, <1>5
<1>7. src'[p] \in Entries /\ src'[p].kind = "file"
    BY <1>6 DEF Entries, Metadata
<1>8. \A q \in DOMAIN src : src'[q] \in Entries /\ src'[q].kind = src[q].kind
    BY <1>2, <1>5, <1>7 DEF IsTree
<1>9. IsTree(src')
    BY <1>2, <1>5, <1>8, SameKindTree
<1>. QED  BY <1>5, <1>8, <1>9 DEF IsDir, IsA

\* The same of an owner or a mode.
LEMMA EditMetaDoes ==
    ASSUME Shape, NEW p \in Paths, EditMeta(p)
    PROVE  IsTree(src') /\ DOMAIN src' = DOMAIN src /\ \A q : IsDir(src, q) <=> IsDir(src', q)
<1>1. PICK m \in Metas : src' = [src EXCEPT ![p].meta = m]
    BY DEF EditMeta
<1>2. IsTree(src) /\ p \in DOMAIN src /\ src[p].kind \in {"file", "dir"} /\ src[p] \in Entries
    BY DEF EditMeta, Shape, TreesOK, IsTree
<1>3. /\ DOMAIN src' = DOMAIN src /\ \A q \in DOMAIN src : q # p => src'[q] = src[q]
      /\ src'[p] = [src[p] EXCEPT !.meta = m]
    BY <1>1, <1>2
<1>4. src'[p] \in Entries /\ src'[p].kind = src[p].kind
    <2>1. CASE src[p].kind = "file"
        <3>1. src[p] \in [kind : {"file"}, data : Contents \union {"partial"},
                          time : Nat, meta : Metadata, twin : BOOLEAN]
            BY <1>2, <2>1, EntryKinds
        <3>2. src'[p] \in [kind : {"file"}, data : Contents \union {"partial"},
                           time : Nat, meta : Metadata, twin : BOOLEAN]
            BY <1>3, <3>1 DEF Metadata
        <3>. QED  BY <2>1, <3>2 DEF Entries, Metadata
    <2>2. CASE src[p].kind = "dir"
        <3>1. src[p] \in [kind : {"dir"}, meta : Metadata]
            BY <1>2, <2>2, EntryKinds
        <3>2. src'[p] \in [kind : {"dir"}, meta : Metadata]
            BY <1>3, <3>1 DEF Metadata
        <3>. QED  BY <2>2, <3>2 DEF Entries, Metadata
    <2>. QED  BY <1>2, <2>1, <2>2
<1>5. \A q \in DOMAIN src : src'[q] \in Entries /\ src'[q].kind = src[q].kind
    BY <1>2, <1>3, <1>4 DEF IsTree
<1>6. IsTree(src')
    BY <1>2, <1>3, <1>5, SameKindTree
<1>. QED  BY <1>3, <1>5, <1>6 DEF IsDir, IsA

\* An entry goes, or something else comes in its place, with what is below it.
LEMMA EditReplaces ==
    ASSUME Shape, NEW p \in Paths, EditRemove(p) \/ EditCreate(p)
    PROVE  /\ IsTree(src') /\ DOMAIN src' \subseteq DOMAIN src \union {p}
           /\ Apart(src, src', {p})
           /\ \A q \in DOMAIN src' : q = p \/ (q \in DOMAIN src /\ ~IsPrefix(p, q))
           /\ p \in AllPaths /\ p \in TreePaths /\ SourceName(p)
<1>1. IsTree(src)
    BY DEF Shape, TreesOK
<1>2. p \in AllPaths /\ p \in TreePaths /\ SourceName(p)
    BY TransferAssumption DEF AllPaths, TreePaths, SourceName
<1>3. DOMAIN Drop(src, p) = {q \in DOMAIN src : ~IsPrefix(p, q)}
    BY <1>1, <1>2, DropTree
<1>4. CASE EditRemove(p)
    BY <1>1, <1>2, <1>3, <1>4, DropTree, ApartDrops DEF EditRemove
<1>5. CASE EditCreate(p)
    <2>1. PICK e \in Fresh : src' = Put(Drop(src, p), p, Stamped(e))
        BY <1>5 DEF EditCreate
    <2>2. e \in Entries
        BY TransferAssumption
    <2>3. Stamped(e) \in Entries
        <3>1. CASE e.kind = "file"
            <4>1. e \in [kind : {"file"}, data : Contents \union {"partial"},
                         time : Nat, meta : Metadata, twin : BOOLEAN]
                BY <2>2, <3>1, EntryKinds
            <4>2. EditTime \in Nat
                BY TransferAssumption DEF EditTime, Shape, Basics
            <4>3. Stamped(e) \in [kind : {"file"}, data : Contents \union {"partial"},
                                  time : Nat, meta : Metadata, twin : BOOLEAN]
                BY <3>1, <4>1, <4>2 DEF Stamped
            <4>. QED  BY <4>3 DEF Entries, Metadata
        <3>2. CASE e.kind # "file"
            BY <2>2, <3>2 DEF Stamped
        <3>. QED  BY <3>1, <3>2
    <2>4. IsDir(src, Front(p))
        BY <1>5 DEF EditCreate
    <2>5. IsTree(src')
        BY <1>1, <1>2, <2>1, <2>3, <2>4, PutDropped
    <2>6. DOMAIN src' = DOMAIN Drop(src, p) \union {p}
        BY <2>1 DEF Put
    <2>. QED  BY <1>1, <1>2, <1>3, <2>1, <2>5, <2>6, ApartDrops
<1>. QED  BY <1>4, <1>5

\* The walk that a move removes its source with.
LEMMA ClearDoes ==
    ASSUME Shape
    PROVE  /\ \A p : ClearFile(p) => /\ IsTree(src') /\ DOMAIN src' = DOMAIN src \ {p}
                                     /\ \A q \in TreePaths : IsDir(src, q) => IsDir(src', q)
           /\ ClearUp => /\ IsTree(src')
                         /\ src' # src => src' = Without(src, {Top.at}) /\ Kids(src, Top.at) = {}
<1>1. IsTree(src)
    BY DEF Shape, TreesOK
<1>2. ASSUME NEW p, ClearFile(p)
      PROVE  /\ IsTree(src') /\ DOMAIN src' = DOMAIN src \ {p}
             /\ \A q \in TreePaths : IsDir(src, q) => IsDir(src', q)
    <2>1. p \in TreePaths /\ ~IsDir(src, p) /\ src' = Without(src, {p})
        BY <1>2, EntryIs DEF ClearFile
    <2>2. IsTree(src')
        BY <1>1, <2>1, TreeLeaf, LeafGoes
    <2>. QED  BY <2>1, <2>2 DEF Without, IsDir, IsA
<1>3. ASSUME ClearUp
      PROVE  /\ IsTree(src')
             /\ src' # src => src' = Without(src, {Top.at}) /\ Kids(src, Top.at) = {}
    <2>1. stack # <<>> /\ WalkOK(stack, src)
        BY <1>3 DEF ClearUp, Shape, StackOK
    <2>2. Top.at \in TreePaths
        BY <2>1, TopIs DEF Top
    <2>3. CASE UNCHANGED src
        BY <1>1, <2>3
    <2>4. CASE src' = Without(src, {Top.at}) /\ Kids(src, Top.at) = {}
        BY <1>1, <2>2, <2>4, TreeEmpty, LeafGoes
    <2>. QED  BY <1>3, <2>3, <2>4 DEF ClearUp
<1>. QED  BY <1>2, <1>3

-----------------------------------------------------------------------------
(* The shape is kept. *)

\* Steps that leave the trees, or one of them, as they are.
LEMMA TreesStay ==
    /\ StartSync \/ CollectDown \/ CollectUp \/ CollectEnd => UNCHANGED trees
    /\ \A p : MirrorGone(p) \/ MirrorSpecial(p) \/ MirrorFile(p) => UNCHANGED trees
    /\ \A p : MirrorDir(p) \/ MirrorLink(p) => UNCHANGED src
    /\ MirrorDown \/ MirrorEnd \/ PruneEnd => UNCHANGED trees
    /\ Check \/ MirrorUp \/ PruneNext => UNCHANGED src
    /\ StartCopy \/ CopyEnd => UNCHANGED trees
    /\ \A p : CopyGone(p) \/ CopySpecial(p) \/ CopyFile(p) => UNCHANGED trees
    /\ \A p : CopyLink(p) \/ CopyDir(p) => UNCHANGED src
    /\ CopyUp \/ CopyOpen \/ CopyWrite \/ CopyWriteFails => UNCHANGED src
    /\ \A p : ClearGone(p) \/ ClearDown(p) \/ ClearFails(p) => UNCHANGED trees
    /\ \A p : ClearFile(p) => UNCHANGED dst
    /\ ClearUp => UNCHANGED dst
    /\ EditSeal => UNCHANGED trees
    /\ \A p : EditFile(p) \/ EditMeta(p) \/ EditRemove(p) \/ EditCreate(p) => UNCHANGED dst
    /\ Crash \/ Over \/ UNCHANGED vars => UNCHANGED trees
<1>. USE DEF Stepped, trees, Touch, vars
<1>1. StartSync \/ CollectDown \/ CollectUp \/ CollectEnd => UNCHANGED trees
    BY DEF StartSync, CollectDown, CollectUp, CollectEnd
<1>2. \A p : MirrorGone(p) \/ MirrorSpecial(p) \/ MirrorFile(p) => UNCHANGED trees
    BY DEF MirrorGone, MirrorSpecial, MirrorFile
<1>3. \A p : MirrorDir(p) \/ MirrorLink(p) => UNCHANGED src
    BY DEF MirrorDir, MirrorLink
<1>4. MirrorDown \/ MirrorEnd \/ PruneEnd => UNCHANGED trees
    BY DEF MirrorDown, MirrorEnd, PruneEnd
<1>5. Check \/ MirrorUp \/ PruneNext => UNCHANGED src
    BY DEF Check, MirrorUp, PruneNext
<1>6. StartCopy \/ CopyEnd => UNCHANGED trees
    BY DEF StartCopy, CopyEnd
<1>7. \A p : CopyGone(p) \/ CopySpecial(p) \/ CopyFile(p) => UNCHANGED trees
    BY DEF CopyGone, CopySpecial, CopyFile
<1>8. \A p : CopyLink(p) \/ CopyDir(p) => UNCHANGED src
    BY DEF CopyLink, CopyDir
<1>9. CopyUp \/ CopyOpen \/ CopyWrite \/ CopyWriteFails => UNCHANGED src
    BY DEF CopyUp, CopyOpen, CopyWrite, CopyWriteFails
<1>10. \A p : ClearGone(p) \/ ClearDown(p) \/ ClearFails(p) => UNCHANGED trees
    BY DEF ClearGone, ClearDown, ClearFails
<1>11. \A p : ClearFile(p) => UNCHANGED dst
    BY DEF ClearFile
<1>12. ClearUp => UNCHANGED dst
    BY DEF ClearUp
<1>13. EditSeal => UNCHANGED trees
    BY DEF EditSeal
<1>14. \A p : EditFile(p) \/ EditMeta(p) \/ EditRemove(p) \/ EditCreate(p) => UNCHANGED dst
    BY DEF EditFile, EditMeta, EditRemove, EditCreate
<1>15. Crash \/ Over \/ UNCHANGED vars => UNCHANGED trees
    BY DEF Crash, Over
<1>. QED  BY <1>1, <1>2, <1>3, <1>4, <1>5, <1>6, <1>7, <1>8, <1>9, <1>10, <1>11, <1>12, <1>13, <1>14, <1>15

\* The steps of the specification, in the order of the module.
LEMMA StepCases ==
    ASSUME [Next]_vars
    PROVE  \/ StartSync \/ CollectDown \/ CollectUp \/ CollectEnd
           \/ \E p : MirrorGone(p) \/ MirrorSpecial(p) \/ MirrorDir(p) \/ MirrorLink(p) \/ MirrorFile(p)
           \/ Check \/ MirrorDown \/ MirrorUp \/ MirrorEnd \/ PruneNext \/ PruneEnd
           \/ StartCopy \/ Rename
           \/ \E p : CopyGone(p) \/ CopySpecial(p) \/ CopyLink(p) \/ CopyDir(p) \/ CopyFile(p)
           \/ \E p : ClearGone(p) \/ ClearFile(p) \/ ClearDown(p) \/ ClearFails(p)
           \/ CopyUp \/ CopyEnd \/ ClearUp
           \/ CopyOpen \/ CopyWrite \/ CopyWriteFails
           \/ EditSeal
           \/ \E p \in Paths : EditFile(p) \/ EditMeta(p) \/ EditRemove(p) \/ EditCreate(p)
           \/ Crash \/ Over \/ UNCHANGED vars
BY DEF Next, Sync, Copy, Content, Edit

\* No step makes anything but trees.
LEMMA TreesNext == Shape /\ [Next]_vars => TreesOK'
<1>. SUFFICES ASSUME Shape, [Next]_vars
              PROVE  TreesOK'
    OBVIOUS
<1>1. TreesOK
    BY DEF Shape
<1>2. CASE UNCHANGED trees
    BY <1>1, <1>2 DEF TreesOK, trees
<1>3. CASE UNCHANGED src /\ IsTree(dst')
    BY <1>1, <1>3 DEF TreesOK
<1>4. CASE UNCHANGED dst /\ IsTree(src') /\ \A p \in DOMAIN src' : SourceName(p)
    BY <1>1, <1>4 DEF TreesOK
<1>5. ASSUME PruneNext
      PROVE  UNCHANGED src /\ IsTree(dst')
    BY <1>5, TreesStay, PruneNextDoes DEF PruneNext
<1>6. ASSUME MirrorUp \/ CopyUp
      PROVE  UNCHANGED src /\ IsTree(dst')
    <2>1. UNCHANGED src
        BY <1>6, TreesStay
    <2>2. CASE MirrorUp
        BY <2>1, <2>2, MirrorUpDoes, LeavesUp DEF MirrorUp
    <2>3. CASE CopyUp
        <3>1. Top.meta \in Metadata
            BY <2>3, TopIs DEF CopyUp, Shape, StackOK, Top, FrameType
        <3>. QED  BY <2>1, <2>3, <3>1, LeavesUp DEF CopyUp
    <2>. QED  BY <1>6, <2>2, <2>3
<1>7. ASSUME CopyOpen \/ CopyWrite \/ CopyWriteFails \/ Check
      PROVE  UNCHANGED src /\ IsTree(dst')
    BY <1>7, TreesStay, CopyOpenDoes, CopyWriteDoes, CopyWriteFailsDoes, CheckDoes DEF CopyWrite
<1>8. ASSUME NEW p, MirrorDir(p) \/ MirrorLink(p) \/ CopyLink(p) \/ CopyDir(p)
      PROVE  UNCHANGED src /\ IsTree(dst')
    BY <1>8, TreesStay, MirrorDirDoes, MirrorLinkDoes, CopyLinkDoes, CopyDirDoes
<1>9. ASSUME Rename
      PROVE  TreesOK'
    <2>1. CASE src' = EmptyTree /\ dst' = src
        BY <1>1, <2>1 DEF TreesOK, EmptyTree, IsTree
    <2>2. CASE UNCHANGED trees
        BY <1>2, <2>2
    <2>. QED  BY <1>9, <2>1, <2>2 DEF Rename
<1>10. ASSUME NEW p, ClearFile(p)
       PROVE  TreesOK'
    BY <1>1, <1>4, <1>10, TreesStay, ClearDoes DEF TreesOK
<1>11. ASSUME ClearUp
       PROVE  TreesOK'
    <2>1. UNCHANGED dst /\ IsTree(src')
        BY <1>11, TreesStay, ClearDoes
    <2>2. \A p \in DOMAIN src' : SourceName(p)
        BY <1>1, <1>11, ClearDoes DEF TreesOK, Without
    <2>. QED  BY <1>4, <2>1, <2>2
<1>12. ASSUME NEW p \in Paths, EditFile(p) \/ EditMeta(p)
       PROVE  TreesOK'
    BY <1>1, <1>4, <1>12, TreesStay, EditFileDoes, EditMetaDoes DEF TreesOK
<1>13. ASSUME NEW p \in Paths, EditRemove(p) \/ EditCreate(p)
       PROVE  TreesOK'
    BY <1>1, <1>4, <1>13, TreesStay, EditReplaces DEF TreesOK
<1>. QED  BY <1>2, <1>3, <1>5, <1>6, <1>7, <1>8, <1>9, <1>10, <1>11, <1>12, <1>13, StepCases, TreesStay

\* At the end of a command nothing is open.
LEMMA EndIs ==
    ASSUME NEW r, End(r)
    PROVE  StackOK' /\ DoingOK' /\ TargetsOK'
<1>. USE DEF End
<1>1. pc' = "idle" /\ stack' = <<>> /\ doing' = Nothing /\ targets' = {}
    OBVIOUS
<1>2. WalkOK(stack', src')
    BY <1>1, WalkNone
<1>3. WorkOK(doing', Last(stack').at, dst', pc')
    BY <1>1, WorkNone
<1>. QED  BY <1>1, <1>2, <1>3 DEF StackOK, DoingOK, TargetsOK

\* A walk begins with the root, opened with entries or without.
LEMMA RootIs ==
    ASSUME Shape
    PROVE  /\ \A s, t : WalkOK(<<>>, s) /\ OpenIn(<<Opened(<<>>)>>, t) /\ OpenIn(<<Listed(<<>>)>>, t)
           /\ WalkOK(<<Opened(<<>>)>>, src) /\ WalkOK(<<Listed(<<>>)>>, src)
           /\ WalkOK(<<[Opened(<<>>) EXCEPT !.subs = Subdirs(src, <<>>)]>>, src)
           /\ <<Opened(<<>>)>> # <<>> /\ <<Listed(<<>>)>> # <<>>
<1>1. <<>> \in TreePaths /\ IsDir(src, <<>>) /\ TreesOK
    BY EmptySeq DEF TreePaths, IsDir, Shape
<1>. DEFINE f == Opened(<<>>)
            g == Listed(<<>>)
            h == [Opened(<<>>) EXCEPT !.subs = Subdirs(src, <<>>)]
<1>2. /\ f \in FrameType /\ g \in FrameType /\ h \in FrameType
      /\ f.at = <<>> /\ f.names = {} /\ f.subs = {}
      /\ g.at = <<>> /\ g.names = Kids(src, <<>>) /\ g.subs = {}
      /\ \A q \in Kids(src, <<>>) \union Subdirs(src, <<>>) : Front(q) = <<>> /\ SourceName(q)
    BY <1>1, FramesAre
<1>3. h.at = <<>> /\ h.names = {} /\ h.subs = Subdirs(src, <<>>)
    BY DEF Opened
<1>. HIDE DEF f, g, h
<1>4. WalkOK(<<f>>, src) /\ WalkOK(<<g>>, src) /\ WalkOK(<<h>>, src) /\ <<f>> # <<>> /\ <<g>> # <<>>
    BY <1>2, <1>3, WalkRoot
<1>5. \A t : OpenIn(<<f>>, t) /\ OpenIn(<<g>>, t)
    BY <1>2 DEF OpenIn, IsDir
<1>6. \A s : WalkOK(<<>>, s)
    BY WalkNone
<1>. QED  BY <1>4, <1>5, <1>6 DEF f, g, h

\* The entries put aside for later are of the directory on top as well.
LEMMA SubIs ==
    ASSUME Shape, stack # <<>>, NEW p \in Top.subs
    PROVE  p \in AllPaths /\ Front(p) = Top.at /\ SourceName(p)
BY TopIs DEF Shape, StackOK, Top

\* The stack stays a way down in the passes of sync,
LEMMA StackNextSync ==
    ASSUME Shape, StartSync \/ CollectDown \/ CollectUp \/ CollectEnd
                  \/ (\E p : MirrorGone(p) \/ MirrorSpecial(p) \/ MirrorDir(p) \/ MirrorLink(p) \/ MirrorFile(p))
                  \/ Check \/ MirrorDown \/ MirrorUp \/ MirrorEnd \/ PruneNext \/ PruneEnd
    PROVE  StackOK'
<1>1. /\ WalkOK(stack, src)
      /\ pc \in {"mirror", "copy"} => OpenIn(stack, dst)
      /\ pc \in {"idle", "prune"} => stack = <<>>
    BY DEF Shape, StackOK
<1>. USE DEF Stepped, trees, walk
<1>2. ASSUME StartSync
      PROVE  StackOK'
    <2>1. src' = src /\ pc' = "collect"
        BY <1>2 DEF StartSync
    <2>2. WalkOK(stack', src)
        BY <1>2, RootIs DEF StartSync
    <2>. QED  BY <2>1, <2>2 DEF StackOK
<1>3. ASSUME CollectDown
      PROVE  StackOK'
    <2>1. stack # <<>> /\ pc' = "collect" /\ src' = src
        BY <1>3 DEF CollectDown
    <2>2. PICK p \in Top.subs :
              \/ stack' = LessSub(p)
              \/ IsDir(src, p) /\ stack' = Append(LessSub(p), [Opened(p) EXCEPT !.subs = Subdirs(src, p)])
        BY <1>3 DEF CollectDown, CanOpen
    <2>3. WalkOK(LessSub(p), src) /\ LessSub(p) # <<>> /\ Last(LessSub(p)).at = Top.at
        BY <1>1, <2>1, LessSubIs
    <2>4. CASE stack' = LessSub(p)
        BY <2>1, <2>3, <2>4 DEF StackOK
    <2>5. CASE IsDir(src, p) /\ stack' = Append(LessSub(p), [Opened(p) EXCEPT !.subs = Subdirs(src, p)])
        <3>. DEFINE f == [Opened(p) EXCEPT !.subs = Subdirs(src, p)]
        <3>1. p \in AllPaths /\ p \in TreePaths /\ Front(p) = Top.at
            BY <2>1, SubIs DEF AllPaths
        <3>2. f \in FrameType
            BY <2>5, <3>1, FramesAre DEF Shape
        <3>3. f.at = p /\ f.names = {} /\ f.subs = Subdirs(src, p)
            BY DEF Opened
        <3>. HIDE DEF f
        <3>4. WalkOK(Append(LessSub(p), f), src)
            BY <2>3, <2>5, <3>1, <3>2, <3>3, OpensDown
        <3>. QED  BY <2>1, <2>5, <3>4 DEF StackOK, f
    <2>. QED  BY <2>2, <2>4, <2>5
<1>4. ASSUME CollectUp
      PROVE  StackOK'
    BY <1>1, <1>4, WalkPop DEF CollectUp, StackOK
<1>5. ASSUME CollectEnd
      PROVE  StackOK'
    <2>1. src' = src /\ pc' = "mirror" /\ (stack' = <<Opened(<<>>)>> \/ stack' = <<Listed(<<>>)>>)
        BY <1>5 DEF CollectEnd
    <2>. QED  BY <2>1, RootIs DEF StackOK
<1>6. ASSUME NEW p, MirrorGone(p) \/ MirrorSpecial(p) \/ MirrorLink(p) \/ MirrorFile(p)
      PROVE  StackOK'
    <2>1. Entry("mirror", p) /\ stack' = LessName(p) /\ pc' = pc /\ src' = src
        BY <1>6 DEF MirrorGone, MirrorSpecial, MirrorLink, MirrorFile
    <2>2. p \in AllPaths /\ p \in TreePaths /\ Front(p) = Top.at /\ stack # <<>> /\ pc = "mirror"
        BY <2>1, EntryIs
    <2>3. Apart(dst, dst', {p})
        BY <1>6, <2>2, MirrorLinkDoes, ApartSteps DEF MirrorGone, MirrorSpecial, MirrorFile
    <2>4. OpenIn(stack, dst')
        BY <1>1, <2>2, <2>3, ApartOpen DEF Top
    <2>. QED  BY <1>1, <2>1, <2>2, <2>4, LessNameIs DEF StackOK
<1>7. ASSUME NEW p, MirrorDir(p)
      PROVE  StackOK'
    <2>1. Entry("mirror", p) /\ (stack' = Aside(p) \/ stack' = LessName(p)) /\ pc' = pc /\ src' = src
        BY <1>7 DEF MirrorDir, Aside
    <2>2. p \in AllPaths /\ Front(p) = Top.at /\ stack # <<>> /\ pc = "mirror" /\ p \in Top.names
        BY <2>1, EntryIs
    <2>3. Apart(dst, dst', {p})
        BY <1>7, MirrorDirDoes
    <2>4. OpenIn(stack, dst')
        BY <1>1, <2>2, <2>3, ApartOpen DEF Top
    <2>. QED  BY <1>1, <2>1, <2>2, <2>4, LessNameIs, AsideIs DEF StackOK
<1>8. ASSUME Check
      PROVE  StackOK'
    <2>1. /\ doing.path \in AllPaths /\ Front(doing.path) = Top.at
          /\ pc \in {"mirror", "copy"} /\ stack # <<>>
        BY <1>8, DoingIs DEF Check
    <2>2. OpenIn(stack, dst')
        BY <1>1, <1>8, <2>1, CheckDoes, ApartOpen DEF Top
    <2>. QED  BY <1>1, <1>8, <2>1, <2>2 DEF StackOK, Check
<1>9. ASSUME MirrorDown
      PROVE  StackOK'
    <2>1. stack # <<>> /\ pc = "mirror" /\ pc' = pc /\ src' = src /\ dst' = dst
        BY <1>9 DEF MirrorDown
    <2>2. PICK p \in Top.subs :
              \/ stack' = LessSub(p)
              \/ IsDir(src, p) /\ IsDir(dst, p) /\ stack' = Append(LessSub(p), Listed(p))
        BY <1>9 DEF MirrorDown, CanOpen
    <2>3. /\ WalkOK(LessSub(p), src) /\ LessSub(p) # <<>> /\ Last(LessSub(p)).at = Top.at
          /\ OpenIn(LessSub(p), dst)
        BY <1>1, <2>1, LessSubIs
    <2>4. CASE stack' = LessSub(p)
        BY <2>1, <2>3, <2>4 DEF StackOK
    <2>5. CASE IsDir(src, p) /\ IsDir(dst, p) /\ stack' = Append(LessSub(p), Listed(p))
        <3>1. p \in AllPaths /\ p \in TreePaths /\ Front(p) = Top.at
            BY <2>1, SubIs DEF AllPaths
        <3>2. /\ Listed(p) \in FrameType /\ Listed(p).at = p
              /\ Listed(p).names = Kids(src, p) /\ Listed(p).subs = {}
            BY <2>5, <3>1, FramesAre DEF Shape
        <3>3. WalkOK(Append(LessSub(p), Listed(p)), src) /\ OpenIn(Append(LessSub(p), Listed(p)), dst)
            BY <2>3, <2>5, <3>1, <3>2, OpensDown
        <3>. QED  BY <2>1, <2>5, <3>3 DEF StackOK
    <2>. QED  BY <2>2, <2>4, <2>5
<1>10. ASSUME MirrorUp
       PROVE  StackOK'
    <2>1. stack # <<>> /\ pc = "mirror" /\ pc' = pc /\ src' = src /\ stack' = Front(stack)
        BY <1>10 DEF MirrorUp
    <2>2. /\ WalkOK(Front(stack), src) /\ Len(Front(stack)) = Len(stack) - 1
          /\ \A i \in 1..Len(stack) - 1 : Front(stack)[i] = stack[i]
        BY <1>1, <2>1, WalkPop
    <2>3. \A q : IsDir(dst, q) <=> IsDir(dst', q)
        BY <1>10, <2>1, MirrorUpDoes, LeavesUp
    <2>4. OpenIn(Front(stack), dst')
        BY <1>1, <2>1, <2>2, <2>3, TopIs DEF OpenIn
    <2>. QED  BY <2>1, <2>2, <2>4 DEF StackOK
<1>11. ASSUME MirrorEnd
       PROVE  StackOK'
    <2>1. CASE pc' = "prune" /\ UNCHANGED stack /\ stack = <<>>
        BY <2>1, WalkNone DEF StackOK
    <2>2. CASE End(Verdict)
        BY <2>2, EndIs
    <2>. QED  BY <1>11, <2>1, <2>2 DEF MirrorEnd
<1>12. ASSUME PruneNext
       PROVE  StackOK'
    BY <1>1, <1>12, WalkNone DEF PruneNext, StackOK
<1>13. ASSUME PruneEnd
       PROVE  StackOK'
    BY <1>13, EndIs DEF PruneEnd
<1>. QED  BY <1>2, <1>3, <1>4, <1>5, <1>6, <1>7, <1>8, <1>9, <1>10, <1>11, <1>12, <1>13

\* in those of copy,
LEMMA StackNextCopy ==
    ASSUME Shape, StartCopy \/ Rename
                  \/ (\E p : CopyGone(p) \/ CopySpecial(p) \/ CopyLink(p) \/ CopyDir(p) \/ CopyFile(p))
                  \/ CopyUp \/ CopyEnd
    PROVE  StackOK'
<1>1. /\ WalkOK(stack, src)
      /\ pc \in {"mirror", "copy"} => OpenIn(stack, dst)
    BY DEF Shape, StackOK
<1>. USE DEF Stepped, trees, walk
<1>2. ASSUME StartCopy
      PROVE  StackOK'
    <2>1. src' = src /\ pc' = "copy" /\ (stack' = <<Opened(<<>>)>> \/ stack' = <<Listed(<<>>)>>)
        BY <1>2 DEF StartCopy
    <2>. QED  BY <2>1, RootIs DEF StackOK
<1>3. ASSUME Rename
      PROVE  StackOK'
    BY <1>3, EndIs DEF Rename
<1>4. ASSUME NEW p, CopyGone(p) \/ CopySpecial(p) \/ CopyLink(p) \/ CopyFile(p)
      PROVE  StackOK'
    <2>1. Entry("copy", p) /\ stack' = LessName(p) /\ pc' = pc /\ src' = src
        BY <1>4 DEF CopyGone, CopySpecial, CopyLink, CopyFile
    <2>2. p \in AllPaths /\ p \in TreePaths /\ Front(p) = Top.at /\ stack # <<>> /\ pc = "copy"
        BY <2>1, EntryIs
    <2>3. Apart(dst, dst', {p})
        BY <1>4, <2>2, CopyLinkDoes, ApartSteps DEF CopyGone, CopySpecial, CopyFile
    <2>4. OpenIn(stack, dst')
        BY <1>1, <2>2, <2>3, ApartOpen DEF Top
    <2>. QED  BY <1>1, <2>1, <2>2, <2>4, LessNameIs DEF StackOK
<1>5. ASSUME NEW p, CopyDir(p)
      PROVE  StackOK'
    <2>1. Entry("copy", p) /\ pc' = pc /\ src' = src
        BY <1>5 DEF CopyDir
    <2>2. p \in AllPaths /\ p \in TreePaths /\ Front(p) = Top.at /\ stack # <<>> /\ pc = "copy"
        BY <2>1, EntryIs
    <2>3. Apart(dst, dst', {p})
        BY <1>5, CopyDirDoes
    <2>4. OpenIn(stack, dst')
        BY <1>1, <2>2, <2>3, ApartOpen DEF Top
    <2>5. \/ stack' = LessName(p)
          \/ IsDir(src, p) /\ IsDir(dst', p) /\ stack' = Append(LessName(p), Listed(p))
        BY <1>5 DEF CopyDir, CanOpen
    <2>6. /\ WalkOK(LessName(p), src) /\ LessName(p) # <<>> /\ Last(LessName(p)).at = Top.at
          /\ OpenIn(LessName(p), dst')
        BY <1>1, <2>2, <2>4, LessNameIs
    <2>7. CASE stack' = LessName(p)
        BY <2>1, <2>2, <2>6, <2>7 DEF StackOK
    <2>8. CASE IsDir(src, p) /\ IsDir(dst', p) /\ stack' = Append(LessName(p), Listed(p))
        <3>1. /\ Listed(p) \in FrameType /\ Listed(p).at = p
              /\ Listed(p).names = Kids(src, p) /\ Listed(p).subs = {}
            BY <2>2, <2>8, FramesAre DEF Shape
        <3>2. /\ WalkOK(Append(LessName(p), Listed(p)), src)
              /\ OpenIn(Append(LessName(p), Listed(p)), dst')
            BY <2>2, <2>6, <2>8, <3>1, OpensDown
        <3>. QED  BY <2>1, <2>2, <2>8, <3>2 DEF StackOK
    <2>. QED  BY <2>5, <2>7, <2>8
<1>6. ASSUME CopyUp
      PROVE  StackOK'
    <2>1. /\ stack # <<>> /\ pc = "copy" /\ pc' = pc /\ src' = src /\ stack' = Front(stack)
          /\ dst' = Sealed(Top.at, Top.meta)
        BY <1>6 DEF CopyUp
    <2>2. /\ WalkOK(Front(stack), src) /\ Len(Front(stack)) = Len(stack) - 1
          /\ \A i \in 1..Len(stack) - 1 : Front(stack)[i] = stack[i]
        BY <1>1, <2>1, WalkPop
    <2>3. Top.meta \in Metadata
        BY <1>1, <2>1, TopIs DEF Top, FrameType
    <2>4. \A q : IsDir(dst, q) <=> IsDir(dst', q)
        BY <2>1, <2>3, LeavesUp
    <2>5. OpenIn(Front(stack), dst')
        BY <1>1, <2>1, <2>2, <2>4, TopIs DEF OpenIn
    <2>. QED  BY <2>1, <2>2, <2>5 DEF StackOK
<1>7. ASSUME CopyEnd
      PROVE  StackOK'
    <2>1. CASE pc' = "clear" /\ stack' = <<Listed(<<>>)>> /\ src' = src
        BY <2>1, RootIs DEF StackOK
    <2>2. ASSUME NEW r, End(r)
          PROVE  StackOK'
        BY <2>2, EndIs
    <2>. QED  BY <1>7, <2>1, <2>2 DEF CopyEnd
<1>. QED  BY <1>2, <1>3, <1>4, <1>5, <1>6, <1>7

\* and while a move clears its source, a file is written, or the owner edits.
LEMMA StackNextRest ==
    ASSUME Shape, (\E p : ClearGone(p) \/ ClearFile(p) \/ ClearDown(p) \/ ClearFails(p)) \/ ClearUp
                  \/ CopyOpen \/ CopyWrite \/ CopyWriteFails
                  \/ EditSeal
                  \/ (\E p \in Paths : EditFile(p) \/ EditMeta(p) \/ EditRemove(p) \/ EditCreate(p))
                  \/ Crash \/ Over \/ UNCHANGED vars
    PROVE  StackOK'
<1>1. /\ WalkOK(stack, src)
      /\ pc \in {"mirror", "copy"} => OpenIn(stack, dst)
      /\ pc \in {"idle", "prune"} => stack = <<>>
      /\ pc = "clear" => stack # <<>>
    BY DEF Shape, StackOK
<1>. USE DEF Stepped, trees, walk
<1>2. ASSUME NEW p, ClearGone(p) \/ ClearFile(p)
      PROVE  StackOK'
    <2>1. Entry("clear", p) /\ stack' = LessName(p) /\ pc' = pc
        BY <1>2 DEF ClearGone, ClearFile
    <2>2. stack # <<>> /\ pc = "clear"
        BY <2>1, EntryIs
    <2>3. WalkOK(LessName(p), src) /\ LessName(p) # <<>>
        BY <1>1, <2>2, LessNameIs
    <2>4. \A q \in TreePaths : IsDir(src, q) => IsDir(src', q)
        BY <1>2, ClearDoes DEF ClearGone
    <2>5. \A i \in 1..Len(LessName(p)) : LessName(p)[i].at \in TreePaths
        BY <2>3, TopIs DEF FrameType
    <2>6. WalkOK(LessName(p), src')
        BY <2>3, <2>4, <2>5, WalkElsewhere
    <2>. QED  BY <2>1, <2>2, <2>3, <2>6 DEF StackOK
<1>3. ASSUME NEW p, ClearDown(p)
      PROVE  StackOK'
    <2>1. /\ Entry("clear", p) /\ stack' = Append(LessName(p), Listed(p))
          /\ IsDir(src, p) /\ pc' = pc /\ src' = src
        BY <1>3 DEF ClearDown, CanOpen
    <2>2. p \in AllPaths /\ p \in TreePaths /\ Front(p) = Top.at /\ stack # <<>> /\ pc = "clear"
        BY <2>1, EntryIs
    <2>3. WalkOK(LessName(p), src) /\ LessName(p) # <<>> /\ Last(LessName(p)).at = Top.at
        BY <1>1, <2>2, LessNameIs
    <2>4. /\ Listed(p) \in FrameType /\ Listed(p).at = p
          /\ Listed(p).names = Kids(src, p) /\ Listed(p).subs = {}
        BY <2>1, <2>2, FramesAre DEF Shape
    <2>5. /\ WalkOK(Append(LessName(p), Listed(p)), src)
          /\ Append(LessName(p), Listed(p)) # <<>>
        BY <2>1, <2>2, <2>3, <2>4, OpensDown
    <2>. QED  BY <2>1, <2>2, <2>5 DEF StackOK
<1>4. ASSUME NEW p, ClearFails(p)
      PROVE  StackOK'
    BY <1>4, EndIs DEF ClearFails
<1>5. ASSUME ClearUp
      PROVE  StackOK'
    <2>1. CASE \E r : End(r)
        BY <2>1, EndIs
    <2>2. CASE /\ src' = Without(src, {Top.at}) /\ Top.at # <<>>
               /\ stack' = Front(stack) /\ UNCHANGED pc /\ pc = "clear"
        <3>1. stack # <<>>
            BY <1>1, <2>2
        <3>2. /\ WalkOK(Front(stack), src) /\ Front(stack) # <<>>
              /\ Len(Front(stack)) = Len(stack) - 1
              /\ \A i \in 1..Len(stack) - 1 : Front(stack)[i] = stack[i]
            BY <1>1, <2>2, <3>1, WalkPop DEF Top
        <3>3. Len(stack) \in Nat \ {0} /\ Top = stack[Len(stack)] /\ Len(Top.at) = Len(stack) - 1
            BY <1>1, <3>1, TopIs DEF Top
        <3>4. ASSUME NEW i \in 1..Len(Front(stack)), IsDir(src, Front(stack)[i].at)
              PROVE  IsDir(src', Front(stack)[i].at)
            <4>1. i \in 1..Len(stack) - 1 /\ Front(stack)[i] = stack[i]
                BY <3>2, <3>3
            <4>2. Len(stack[i].at) = i - 1
                BY <1>1, <4>1, <3>3 DEF WalkOK
            <4>3. stack[i].at # Top.at
                BY <3>3, <4>1, <4>2
            <4>. QED  BY <2>2, <3>4, <4>1, <4>3 DEF IsDir, IsA, Without
        <3>5. WalkOK(Front(stack), src')
            BY <3>2, <3>4, WalkElsewhere
        <3>. QED  BY <2>2, <3>2, <3>5 DEF StackOK
    <2>. QED  BY <1>5, <2>1, <2>2 DEF ClearUp
<1>6. ASSUME CopyOpen \/ CopyWrite \/ CopyWriteFails
      PROVE  StackOK'
    <2>1. doing.stage \in {"open", "write"} /\ UNCHANGED <<stack, pc, src>>
        BY <1>6 DEF CopyOpen, CopyWrite, CopyWriteFails
    <2>2. /\ doing.path \in AllPaths /\ Front(doing.path) = Top.at
          /\ doing.name \in AllPaths /\ Front(doing.name) = Top.at
          /\ pc \in {"mirror", "copy"} /\ stack # <<>>
        BY <2>1, DoingIs
    <2>3. Apart(dst, dst', {doing.name}) \/ Apart(dst, dst', {doing.name, doing.path})
        BY <1>6, CopyOpenDoes, CopyWriteDoes, CopyWriteFailsDoes DEF CopyWrite
    <2>4. OpenIn(stack, dst')
        BY <1>1, <2>2, <2>3, ApartOpen DEF Top
    <2>. QED  BY <1>1, <2>1, <2>2, <2>4 DEF StackOK
<1>7. ASSUME EditSeal \/ \E p \in Paths : EditFile(p) \/ EditMeta(p)
      PROVE  StackOK'
    <2>1. UNCHANGED <<stack, pc, dst>>
        BY <1>7 DEF EditSeal, EditFile, EditMeta, Touch
    <2>2. \A q : IsDir(src, q) => IsDir(src', q)
        BY <1>7, EditFileDoes, EditMetaDoes DEF EditSeal
    <2>3. WalkOK(stack, src')
        BY <1>1, <2>2, WalkElsewhere
    <2>. QED  BY <1>1, <2>1, <2>3 DEF StackOK
<1>8. ASSUME NEW p \in Paths, EditRemove(p) \/ EditCreate(p)
      PROVE  StackOK'
    <2>1. UNCHANGED <<pc, dst>> /\ stack' = Detached(p)
        BY <1>8 DEF EditRemove, EditCreate, Touch
    <2>2. \A q \in TreePaths : ~IsPrefix(p, q) /\ IsDir(src, q) => IsDir(src', q)
        BY <1>8, EditReplaces DEF Apart, IsDir, IsA
    <2>3. p \in TreePaths
        BY <1>8, EditReplaces
    <2>4. /\ WalkOK(stack', src') /\ Len(stack') = Len(stack)
          /\ \A i \in 1..Len(stack) : stack'[i].at = stack[i].at
        BY <1>1, <2>1, <2>2, <2>3, WalkDetached
    <2>5. stack' = <<>> <=> stack = <<>>
        BY <1>1, <2>4, StackLen DEF WalkOK
    <2>6. pc' \in {"mirror", "copy"} => OpenIn(stack', dst')
        BY <1>1, <2>1, <2>4, OpenSame
    <2>. QED  BY <1>1, <2>1, <2>4, <2>5, <2>6 DEF StackOK
<1>9. ASSUME Crash \/ Over \/ UNCHANGED vars
      PROVE  StackOK'
    <2>1. CASE Crash
        BY <2>1, EndIs DEF Crash
    <2>2. CASE UNCHANGED <<trees, walk>>
        BY <1>1, <2>2 DEF StackOK
    <2>. QED  BY <1>9, <2>1, <2>2 DEF Over, vars
<1>. QED  BY <1>2, <1>3, <1>4, <1>5, <1>6, <1>7, <1>8, <1>9

\* The file a walk is at stays an entry of the directory on top.
LEMMA DoingNext == Shape /\ [Next]_vars => DoingOK'
<1>. SUFFICES ASSUME Shape, [Next]_vars
              PROVE  DoingOK'
    OBVIOUS
<1>1. /\ WorkOK(doing, Top.at, dst, pc)
      /\ doing # Nothing => stack # <<>> /\ pc \in {"mirror", "copy"}
    BY DEF Shape, DoingOK, WorkOK, Top
<1>. USE DEF Stepped, trees, walk
<1>2. CASE doing' = Nothing
    BY <1>2, WorkNone DEF DoingOK
<1>3. CASE UNCHANGED <<stack, pc, doing, dst>>
    BY <1>1, <1>3 DEF DoingOK, Top
<1>4. ASSUME NEW r, End(r)
      PROVE  doing' = Nothing
    BY <1>4 DEF End
<1>5. ASSUME StartSync \/ CollectDown \/ CollectUp \/ CollectEnd
      PROVE  doing' = Nothing
    BY <1>1, <1>5 DEF StartSync, CollectDown, CollectUp, CollectEnd
<1>6. ASSUME NEW p, MirrorGone(p) \/ MirrorSpecial(p) \/ MirrorDir(p) \/ MirrorLink(p)
      PROVE  doing' = Nothing
    BY <1>6 DEF MirrorGone, MirrorSpecial, MirrorDir, MirrorLink, Entry
<1>7. ASSUME NEW p, NEW pass, Entry(pass, p), Found("file", p), UNCHANGED <<pc, src>>,
             stack' = LessName(p), pass \in {"mirror", "copy"},
             NEW stage \in {"check", "open"}, stage = "check" => pass = "mirror",
             NEW name \in {p, TempOf(p)}, doing' = At(p, stage, name)
      PROVE  DoingOK'
    <2>1. p \in AllPaths /\ Front(p) = Top.at /\ SourceName(p) /\ stack # <<>> /\ pc = pass
        BY <1>7, EntryIs
    <2>2. LessName(p) # <<>> /\ Last(LessName(p)).at = Top.at
        BY <2>1, LessNameIs DEF Shape, StackOK
    <2>3. src[p] \in Entries /\ src[p].kind = "file"
        BY <1>7 DEF Found, There, Shape, TreesOK, IsTree
    <2>4. name \in TreePaths /\ p \in TreePaths
        BY <2>1, TempIs DEF AllPaths
    <2>5. doing' \in WorkType
        BY <1>7, <2>3, <2>4 DEF At, WorkType
    <2>6. /\ doing'.stage = stage /\ doing'.path = p /\ doing'.name = name /\ doing'.st = src[p]
          /\ doing' # Nothing
        BY <1>7 DEF At, Nothing
    <2>7. WorkOK(doing', Top.at, dst', pc')
        BY <1>7, <2>1, <2>3, <2>5, <2>6 DEF WorkOK
    <2>. QED  BY <1>7, <2>2, <2>7 DEF DoingOK
<1>8. ASSUME NEW p, MirrorFile(p) \/ CopyFile(p)
      PROVE  DoingOK'
    <2>1. CASE MirrorFile(p)
        BY <1>7, <2>1 DEF MirrorFile
    <2>2. CASE CopyFile(p)
        BY <1>7, <2>2 DEF CopyFile
    <2>. QED  BY <1>8, <2>1, <2>2
<1>9. ASSUME Check
      PROVE  DoingOK'
    <2>1. CASE doing' = [doing EXCEPT !.stage = "open"]
        <3>1. doing.stage = "check" /\ UNCHANGED <<stack, pc>>
            BY <1>9 DEF Check
        <3>2. doing \in WorkType /\ stack # <<>>
            BY <3>1, DoingIs
        <3>3. /\ doing' \in WorkType /\ doing'.stage = "open" /\ doing' # Nothing
              /\ doing'.path = doing.path /\ doing'.name = doing.name /\ doing'.st = doing.st
            BY <2>1, <3>2 DEF WorkType, Nothing
        <3>4. WorkOK(doing', Top.at, dst', pc')
            BY <1>1, <3>1, <3>3 DEF WorkOK, Nothing
        <3>. QED  BY <3>1, <3>2, <3>4 DEF DoingOK, Top
    <2>. QED  BY <1>2, <1>9, <2>1 DEF Check
<1>10. ASSUME MirrorDown \/ MirrorUp
       PROVE  doing' = Nothing
    BY <1>10 DEF MirrorDown, MirrorUp
<1>11. ASSUME MirrorEnd
       PROVE  doing' = Nothing
    <2>1. pc = "mirror" /\ stack = <<>>
        BY <1>11 DEF MirrorEnd
    <2>. QED  BY <1>1, <1>4, <1>11, <2>1 DEF MirrorEnd
<1>12. ASSUME PruneNext \/ PruneEnd
       PROVE  doing' = Nothing
    BY <1>1, <1>4, <1>12 DEF PruneNext, PruneEnd
<1>13. ASSUME StartCopy \/ Rename
       PROVE  DoingOK'
    <2>1. CASE StartCopy
        BY <1>2, <2>1 DEF StartCopy
    <2>2. CASE Rename
        BY <1>2, <1>4, <2>2 DEF Rename
    <2>. QED  BY <1>13, <2>1, <2>2
<1>14. ASSUME NEW p, CopyGone(p) \/ CopySpecial(p) \/ CopyLink(p) \/ CopyDir(p)
       PROVE  doing' = Nothing
    BY <1>14 DEF CopyGone, CopySpecial, CopyLink, CopyDir, Entry
<1>15. ASSUME NEW p, ClearGone(p) \/ ClearFile(p) \/ ClearDown(p) \/ ClearFails(p)
       PROVE  doing' = Nothing
    BY <1>4, <1>15 DEF ClearGone, ClearFile, ClearDown, ClearFails, Entry
<1>16. ASSUME ClearUp
       PROVE  doing' = Nothing
    BY <1>1, <1>4, <1>16 DEF ClearUp
<1>17. ASSUME CopyUp \/ CopyEnd
       PROVE  doing' = Nothing
    BY <1>1, <1>4, <1>17 DEF CopyUp, CopyEnd
<1>18. ASSUME CopyOpen
       PROVE  DoingOK'
    <2>1. CASE /\ ~(~Accepts(doing.path) \/ ~Found("file", doing.path) \/ IsDir(dst, doing.name))
               /\ doing' = [doing EXCEPT !.stage = "write", !.data = src[doing.path].data]
               /\ dst' = Put(dst, doing.name, Partial)
        <3>1. doing.stage = "open" /\ UNCHANGED <<stack, pc>>
            BY <1>18 DEF CopyOpen
        <3>2. doing \in WorkType /\ stack # <<>> /\ doing.path \in AllPaths /\ doing.name \in AllPaths
            BY <3>1, DoingIs
        <3>3. src[doing.path].data \in Contents \union {"partial"} /\ src[doing.path].data # "none"
            <4>1. src[doing.path] \in Entries /\ src[doing.path].kind = "file"
                BY <2>1 DEF Found, There, Shape, TreesOK, IsTree
            <4>. QED  BY <4>1, EntryKinds, TransferAssumption
        <3>4. /\ doing' \in WorkType /\ doing'.stage = "write" /\ doing' # Nothing
              /\ doing'.path = doing.path /\ doing'.name = doing.name /\ doing'.st = doing.st
              /\ doing'.data = src[doing.path].data
            BY <2>1, <3>2, <3>3 DEF WorkType, Nothing
        <3>5. ~IsDir(dst, doing.path) /\ ~IsDir(dst, doing.name)
            <4>1. doing.path # <<>>
                BY <3>2 DEF AllPaths
            <4>. QED  BY <2>1, <4>1 DEF Accepts, IsDir, IsA
        <3>6. ~IsDir(dst', doing.path) /\ ~IsDir(dst', doing.name)
            BY <2>1, <3>2, <3>5, NewEntries DEF IsDir, IsA, Put, AllPaths
        <3>7. WorkOK(doing', Top.at, dst', pc')
            BY <1>1, <3>1, <3>3, <3>4, <3>6 DEF WorkOK, Nothing
        <3>. QED  BY <3>1, <3>2, <3>7 DEF DoingOK, Top
    <2>. QED  BY <1>2, <1>18, <2>1 DEF CopyOpen
<1>19. ASSUME CopyWrite \/ CopyWriteFails
       PROVE  doing' = Nothing
    BY <1>19 DEF CopyWrite, CopyWriteFails
<1>20. ASSUME EditSeal \/ \E p \in Paths : EditFile(p) \/ EditMeta(p)
       PROVE  UNCHANGED <<stack, pc, doing, dst>>
    BY <1>20 DEF EditSeal, EditFile, EditMeta, Touch
<1>21. ASSUME NEW p \in Paths, EditRemove(p) \/ EditCreate(p)
       PROVE  DoingOK'
    <2>1. UNCHANGED <<pc, doing, dst>> /\ stack' = Detached(p)
        BY <1>21 DEF EditRemove, EditCreate, Touch
    <2>2. CASE stack = <<>>
        BY <1>1, <1>2, <2>1, <2>2
    <2>3. CASE stack # <<>>
        <3>1. WalkOK(stack, src) /\ p \in TreePaths
            BY <1>21, EditReplaces DEF Shape, StackOK
        <3>2. \A q \in TreePaths : ~IsPrefix(p, q) /\ IsDir(src, q) => IsDir(src', q)
            BY <1>21, EditReplaces DEF Apart, IsDir, IsA
        <3>3. /\ WalkOK(stack', src') /\ Len(stack') = Len(stack)
              /\ \A i \in 1..Len(stack) : stack'[i].at = stack[i].at
            BY <2>1, <3>1, <3>2, WalkDetached
        <3>4. stack' # <<>> /\ Last(stack').at = Top.at
            <4>1. Len(stack) \in Nat \ {0} /\ Top = stack[Len(stack)]
                BY <2>3, <3>1, TopIs DEF Top
            <4>. QED  BY <3>3, <4>1, EmptySeq DEF Last
        <3>. QED  BY <1>1, <2>1, <3>4 DEF DoingOK
    <2>. QED  BY <2>2, <2>3
<1>22. ASSUME Crash \/ Over \/ UNCHANGED vars
       PROVE  DoingOK'
    BY <1>2, <1>3, <1>4, <1>22 DEF Crash, Over, vars
<1>. QED  BY <1>2, <1>3, <1>5, <1>6, <1>8, <1>9, <1>10, <1>11, <1>12, <1>13, <1>14, <1>15, <1>16, <1>17,
             <1>18, <1>19, <1>20, <1>21, <1>22, StepCases

\* What is to be pruned stands in the destination, none of it below another.
LEMMA TargetsNext == Shape /\ [Next]_vars => TargetsOK'
<1>. SUFFICES ASSUME Shape, [Next]_vars
              PROVE  TargetsOK'
    OBVIOUS
<1>1. TargetsOK
    BY DEF Shape
<1>. USE DEF Stepped, trees, walk
<1>2. CASE targets' = {}
    BY <1>2 DEF TargetsOK
<1>3. ASSUME NEW r, End(r)
      PROVE  targets' = {}
    BY <1>3 DEF End
<1>4. CASE UNCHANGED <<pc, targets>> /\ (pc = "prune" => UNCHANGED dst)
    BY <1>1, <1>4 DEF TargetsOK
<1>5. ASSUME StartSync \/ StartCopy \/ Rename
      PROVE  targets' = {}
    BY <1>3, <1>5 DEF StartSync, StartCopy, Rename
<1>6. ASSUME CollectDown \/ CollectUp \/ CollectEnd
      PROVE  TargetsOK'
    BY <1>1, <1>6 DEF CollectDown, CollectUp, CollectEnd, TargetsOK
<1>7. ASSUME NEW p, MirrorGone(p) \/ MirrorSpecial(p) \/ MirrorDir(p) \/ MirrorLink(p) \/ MirrorFile(p)
      PROVE  UNCHANGED <<pc, targets>> /\ pc = "mirror"
    BY <1>7 DEF MirrorGone, MirrorSpecial, MirrorDir, MirrorLink, MirrorFile, Entry
<1>8. ASSUME NEW p, CopyGone(p) \/ CopySpecial(p) \/ CopyLink(p) \/ CopyDir(p) \/ CopyFile(p)
      PROVE  UNCHANGED <<pc, targets>> /\ pc = "copy"
    BY <1>8 DEF CopyGone, CopySpecial, CopyLink, CopyDir, CopyFile, Entry
<1>9. ASSUME Check \/ CopyOpen \/ CopyWrite \/ CopyWriteFails
      PROVE  UNCHANGED <<pc, targets>> /\ pc # "prune"
    <2>1. doing.stage # "none" /\ UNCHANGED <<pc, targets>>
        BY <1>9 DEF Check, CopyOpen, CopyWrite, CopyWriteFails
    <2>. QED  BY <2>1, DoingIs
<1>10. ASSUME MirrorDown \/ MirrorUp \/ CopyUp
       PROVE  UNCHANGED <<pc, targets>> /\ pc # "prune"
    BY <1>10 DEF MirrorDown, MirrorUp, CopyUp
<1>11. ASSUME MirrorEnd
       PROVE  TargetsOK'
    <2>1. CASE pc' = "prune" /\ targets' = Orphans /\ UNCHANGED dst
        <3>1. IsTree(dst) /\ DOMAIN dst \subseteq AllPaths
            BY DEF Shape, TreesOK, IsTree, AllPaths, TreePaths
        <3>2. ASSUME NEW p \in Orphans, NEW q \in Orphans, IsPrefix(p, q), p # q
              PROVE  FALSE
            <4>1. p \in AllPaths /\ q \in AllPaths /\ p \notin seen /\ Above(q) \subseteq seen
                BY <3>1 DEF Orphans
            <4>2. p \in Above(q)
                BY <3>1, <3>2, <4>1, AboveBelow
            <4>. QED  BY <4>1, <4>2
        <3>3. Orphans \subseteq DOMAIN dst
            BY DEF Orphans
        <3>. QED  BY <2>1, <3>2, <3>3 DEF TargetsOK
    <2>2. CASE End(Verdict)
        BY <1>2, <1>3, <2>2
    <2>. QED  BY <1>11, <2>1, <2>2 DEF MirrorEnd
<1>12. ASSUME PruneNext
       PROVE  TargetsOK'
    <2>1. PICK p \in targets : /\ targets' = targets \ {p} /\ UNCHANGED pc
                               /\ dst' = Drop(dst, p) \/ dst' \in Remnants(dst, p)
        BY <1>12 DEF PruneNext
    <2>2. p \in AllPaths /\ Apart(dst, dst', {p})
        BY <2>1, PruneNextDoes
    <2>3. ASSUME NEW q \in targets \ {p}
          PROVE  q \in DOMAIN dst'
        <3>1. ~IsPrefix(p, q) /\ q \in DOMAIN dst
            BY <1>1, <2>1 DEF TargetsOK
        <3>2. q \in TreePaths
            BY <3>1 DEF Shape, TreesOK, IsTree, TreePaths
        <3>. QED  BY <2>2, <3>1, <3>2 DEF Apart
    <2>4. pc = "prune"
        BY <1>12 DEF PruneNext
    <2>. QED  BY <1>1, <2>1, <2>3, <2>4 DEF TargetsOK
<1>13. ASSUME PruneEnd \/ CopyEnd \/ ClearUp
       PROVE  TargetsOK'
    <2>1. CASE UNCHANGED targets /\ pc \in {"copy", "clear"}
        BY <1>1, <1>2, <2>1 DEF TargetsOK
    <2>2. CASE \E r : End(r)
        BY <1>2, <1>3, <2>2
    <2>. QED  BY <1>13, <2>1, <2>2 DEF PruneEnd, CopyEnd, ClearUp
<1>14. ASSUME NEW p, ClearGone(p) \/ ClearFile(p) \/ ClearDown(p) \/ ClearFails(p)
       PROVE  TargetsOK'
    <2>1. CASE UNCHANGED <<pc, targets>> /\ pc = "clear"
        BY <1>4, <2>1
    <2>2. CASE \E r : End(r)
        BY <1>2, <1>3, <2>2
    <2>. QED  BY <1>14, <2>1, <2>2 DEF ClearGone, ClearFile, ClearDown, ClearFails, Entry
<1>15. ASSUME EditSeal \/ \E p \in Paths : EditFile(p) \/ EditMeta(p) \/ EditRemove(p) \/ EditCreate(p)
       PROVE  UNCHANGED <<pc, targets, dst>>
    BY <1>15 DEF EditSeal, EditFile, EditMeta, EditRemove, EditCreate, Touch
<1>16. ASSUME Crash \/ Over \/ UNCHANGED vars
       PROVE  TargetsOK'
    BY <1>2, <1>3, <1>4, <1>16 DEF Crash, Over, vars
<1>. QED  BY <1>2, <1>4, <1>5, <1>6, <1>7, <1>8, <1>9, <1>10, <1>11, <1>12, <1>13, <1>14, <1>15, <1>16, StepCases

\* The rest of the state keeps its types.
LEMMA BasicsNext == Shape /\ [Next]_vars => Basics'
<1>. SUFFICES ASSUME Shape, [Next]_vars
              PROVE  Basics'
    OBVIOUS
<1>1. Basics /\ MaxRuns \in Nat /\ MaxEdits \in Nat /\ MaxFaults \in Nat
    BY TransferAssumption DEF Shape
<1>. USE DEF Basics, KindOK, Passes, Stepped, Silent, report, Works, Noted, Note, Fault, trees, walk, history, bounds
<1>2. ASSUME NEW r \in {"ok", "failed", "killed"}, End(r),
             UNCHANGED <<op, history, bounds>>, failed' \subseteq skipped'
      PROVE  Basics'
    BY <1>1, <1>2 DEF End
<1>3. ASSUME UNCHANGED <<pc, op, outcome, history, runs, edits>>, failed' \subseteq skipped',
             faults' = faults \/ (faults < MaxFaults /\ faults' = faults + 1)
      PROVE  Basics'
    BY <1>1, <1>3
<1>4. ASSUME NEW o \in Operations, Begin(o), failed' \subseteq skipped',
             outcome' \in {"none", "ok", "failed", "killed"}, pc' \in Passes,
             pc' \in {"collect", "mirror", "prune"} => o.kind = "sync",
             pc' = "copy" => o.kind \in {"copy", "move"}, pc' # "clear"
      PROVE  Basics'
    BY <1>1, <1>4 DEF Begin
<1>5. ASSUME StartSync
      PROVE  Basics'
    BY <1>1, <1>4, <1>5 DEF StartSync
<1>6. ASSUME CollectDown \/ CollectUp \/ CollectEnd
      PROVE  Basics'
    BY <1>1, <1>6 DEF CollectDown, CollectUp, CollectEnd
<1>7. ASSUME NEW p, MirrorGone(p) \/ MirrorSpecial(p) \/ MirrorFile(p)
      PROVE  Basics'
    BY <1>1, <1>3, <1>7 DEF MirrorGone, MirrorSpecial, MirrorFile
<1>8. ASSUME NEW p, MirrorDir(p)
      PROVE  Basics'
    BY <1>1, <1>3, <1>8 DEF MirrorDir
<1>9. ASSUME NEW p, MirrorLink(p)
      PROVE  Basics'
    BY <1>1, <1>3, <1>9 DEF MirrorLink
<1>10. ASSUME Check \/ CopyOpen \/ CopyWrite \/ CopyWriteFails
       PROVE  Basics'
    BY <1>1, <1>3, <1>10 DEF Check, CopyOpen, CopyWrite, CopyWriteFails
<1>11. ASSUME MirrorDown \/ MirrorUp \/ CopyUp
       PROVE  Basics'
    BY <1>1, <1>3, <1>11 DEF MirrorDown, MirrorUp, CopyUp
<1>12. Verdict \in {"ok", "failed", "killed"}
    BY DEF Verdict
<1>13. ASSUME MirrorEnd \/ PruneEnd
       PROVE  Basics'
    <2>1. CASE End(Verdict)
        BY <1>1, <1>2, <1>12, <1>13, <2>1 DEF MirrorEnd, PruneEnd
    <2>2. CASE pc' = "prune" /\ UNCHANGED outcome
        BY <1>1, <1>13, <2>2 DEF MirrorEnd, PruneEnd, End
    <2>. QED  BY <1>13, <2>1, <2>2 DEF MirrorEnd, PruneEnd
<1>14. ASSUME PruneNext
       PROVE  Basics'
    BY <1>1, <1>3, <1>14 DEF PruneNext
<1>15. ASSUME StartCopy
       PROVE  Basics'
    BY <1>1, <1>4, <1>15 DEF StartCopy
<1>16. ASSUME Rename
       PROVE  Basics'
    BY <1>1, <1>4, <1>16 DEF Rename, End
<1>17. ASSUME NEW p, CopyGone(p) \/ CopySpecial(p) \/ CopyFile(p)
       PROVE  Basics'
    BY <1>1, <1>3, <1>17 DEF CopyGone, CopySpecial, CopyFile
<1>18. ASSUME NEW p, CopyLink(p)
       PROVE  Basics'
    BY <1>1, <1>3, <1>18 DEF CopyLink
<1>19. ASSUME NEW p, CopyDir(p)
       PROVE  Basics'
    BY <1>1, <1>3, <1>19 DEF CopyDir
<1>20. ASSUME CopyEnd
       PROVE  Basics'
    <2>1. CASE \E r \in {"ok", "failed", "killed"} : End(r)
        BY <1>1, <1>2, <1>20, <2>1 DEF CopyEnd
    <2>2. CASE pc' = "clear" /\ Clears /\ UNCHANGED outcome
        BY <1>1, <1>20, <2>2 DEF CopyEnd, Clears
    <2>. QED  BY <1>12, <1>20, <2>1, <2>2 DEF CopyEnd
<1>21. ASSUME NEW p, ClearGone(p) \/ ClearFile(p) \/ ClearDown(p)
       PROVE  Basics'
    BY <1>1, <1>3, <1>21 DEF ClearGone, ClearFile, ClearDown
<1>22. ASSUME NEW p, ClearFails(p)
       PROVE  Basics'
    BY <1>1, <1>22 DEF ClearFails, End
<1>23. ASSUME ClearUp
       PROVE  Basics'
    BY <1>1, <1>2, <1>3, <1>23 DEF ClearUp
<1>24. ASSUME NEW S, Touch(S)
       PROVE  Basics'
    BY <1>1, <1>24 DEF Touch
<1>25. ASSUME EditSeal \/ \E p \in Paths : EditFile(p) \/ EditMeta(p) \/ EditRemove(p) \/ EditCreate(p)
       PROVE  Basics'
    BY <1>24, <1>25 DEF EditSeal, EditFile, EditMeta, EditRemove, EditCreate
<1>26. ASSUME Crash \/ Over \/ UNCHANGED vars
       PROVE  Basics'
    BY <1>1, <1>2, <1>3, <1>26 DEF Crash, Over, vars
<1>. QED  BY <1>5, <1>6, <1>7, <1>8, <1>9, <1>10, <1>11, <1>13, <1>14, <1>15, <1>16, <1>17, <1>18, <1>19,
             <1>20, <1>21, <1>22, <1>23, <1>25, <1>26, StepCases

\* Every step keeps the shape.
LEMMA ShapeNext == Shape /\ [Next]_vars => Shape'
<1>. SUFFICES ASSUME Shape, [Next]_vars
              PROVE  Shape'
    OBVIOUS
<1>1. TreesOK' /\ DoingOK' /\ TargetsOK' /\ Basics'
    BY TreesNext, DoingNext, TargetsNext, BasicsNext
<1>2. StackOK'
    BY StackNextSync, StackNextCopy, StackNextRest, StepCases
<1>. QED  BY <1>1, <1>2 DEF Shape

\* Trees stay trees, whatever happens to them: nothing is put below what is not
\* a directory, nor taken from above what is left, and the stack of a walk is a
\* way down from the root.
THEOREM TypeCorrect == Spec => []TypeOK
<1>1. Init => Shape
    BY ShapeInit
<1>2. Shape /\ [Next]_vars => Shape'
    BY ShapeNext
<1>3. Shape => TypeOK
    <2>. SUFFICES ASSUME Shape
                  PROVE  TypeOK
        OBVIOUS
    <2>1. \A i \in DOMAIN stack : Len(stack[i].at) = i - 1
        BY StackLen DEF Shape, StackOK, WalkOK
    <2>2. doing # Nothing => pc \in {"mirror", "copy"} /\ stack # <<>>
        BY DEF Shape, DoingOK, WorkOK
    <2>. QED  BY <2>1, <2>2 DEF Shape, Basics, TreesOK, TargetsOK, TypeOK
<1>. QED  BY <1>1, <1>2, <1>3, PTL DEF Spec
-----------------------------------------------------------------------------
(* What the times of files say. *)

\* An edit gives a time that no file has had, what is half written has none,
\* and the content read for a file is the one its time stands for.
QuickInv ==
    /\ \A q : /\ IsA("file", src, q) => src[q].time # NoTime /\ src[q].time \notin EditTime..MaxEdits + 1
              /\ IsA("file", dst, q) => dst[q].time \notin EditTime..MaxEdits + 1
    /\ doing # Nothing => doing.st.time \notin EditTime..MaxEdits + 1
    /\ LET p == doing.path IN
         doing.stage = "write" /\ IsA("file", src, p) /\ src[p].time = doing.st.time =>
             doing.data = src[p].data
    /\ QuickCheckSound

\* A file of the destination after a step that is not one it had before.
NewFile(q) ==
    \/ dst'[q].time = NoTime
    \/ /\ doing # Nothing /\ dst'[q].time = doing.st.time
       /\ IsA("file", src, q) /\ src[q].time = doing.st.time => dst'[q].data = src[q].data

OldFile(q) == IsA("file", dst, q) /\ dst'[q].time = dst[q].time /\ dst'[q].data = dst[q].data

\* A step that changes the destination, if anything.
LEMMA QuickWrites ==
    ASSUME Shape, QuickInv, UNCHANGED <<src, edits>>,
           doing' # Nothing =>
             \/ doing # Nothing /\ doing'.st = doing.st
             \/ IsA("file", src, doing'.path) /\ doing'.st = src[doing'.path],
           doing'.stage = "write" => doing' = doing \/ doing'.data = src[doing'.path].data,
           \A q : IsA("file", dst', q) =>
             OldFile(q) \/ NewFile(q)
    PROVE  QuickInv'
<1>1. edits \in Nat /\ MaxEdits \in Nat
    BY TransferAssumption DEF Shape, Basics
<1>2. EditTime' = EditTime /\ NoTime \notin EditTime..MaxEdits + 1
    BY <1>1 DEF EditTime, NoTime
<1>. HIDE DEF EditTime
<1>3. ASSUME NEW q, IsA("file", dst', q)
      PROVE  dst'[q].time \notin EditTime..MaxEdits + 1
    BY <1>2, <1>3 DEF QuickInv, OldFile, NewFile
<1>4. ASSUME NEW q, IsA("file", src, q), IsA("file", dst', q), dst'[q].time = src[q].time
      PROVE  dst'[q].data = src[q].data
    <2>1. CASE OldFile(q)
        <3>1. q \in DOMAIN src \intersect DOMAIN dst
            BY <1>4, <2>1 DEF IsA, OldFile
        <3>. QED  BY <1>4, <2>1, <3>1 DEF OldFile, QuickInv, QuickCheckSound
    <2>2. CASE NewFile(q)
        BY <1>4, <2>2 DEF QuickInv, NewFile
    <2>. QED  BY <1>4, <2>1, <2>2
<1>5. QuickCheckSound'
    BY <1>4 DEF QuickCheckSound
<1>6. doing' # Nothing => doing'.st.time \notin EditTime..MaxEdits + 1
    BY DEF QuickInv
<1>7. ASSUME doing'.stage = "write", IsA("file", src, doing'.path), src[doing'.path].time = doing'.st.time
      PROVE  doing'.data = src[doing'.path].data
    <2>1. doing' # Nothing
        BY <1>7 DEF Nothing
    <2>. QED  BY <1>7, <2>1 DEF QuickInv
<1>. QED  BY <1>2, <1>3, <1>5, <1>6, <1>7 DEF QuickInv

\* A step that changes the source, and what stays beside it in the destination.
LEMMA QuickEdits ==
    ASSUME Shape, QuickInv, UNCHANGED dst, doing' = doing \/ doing' = Nothing,
           edits' \in {edits, edits + 1},
           \A q : IsA("file", src', q) =>
             \/ IsA("file", src, q) /\ src'[q].time = src[q].time /\ src'[q].data = src[q].data
             \/ edits < MaxEdits /\ edits' = edits + 1 /\ src'[q].time = EditTime
    PROVE  QuickInv'
<1>1. edits \in Nat /\ MaxEdits \in Nat
    BY TransferAssumption DEF Shape, Basics
<1>2. /\ EditTime'..MaxEdits + 1 \subseteq EditTime..MaxEdits + 1
      /\ edits < MaxEdits => EditTime \in EditTime..MaxEdits + 1
      /\ edits' = edits + 1 => EditTime \notin EditTime'..MaxEdits + 1
      /\ EditTime # NoTime
    <2>1. EditTime = edits + 2 /\ EditTime' = edits' + 2
        BY DEF EditTime
    <2>. HIDE DEF EditTime
    <2>2. EditTime' = EditTime \/ EditTime' = EditTime + 1
        <3>1. CASE edits' = edits
            BY <2>1, <3>1
        <3>2. CASE edits' = edits + 1
            BY <1>1, <2>1, <3>2
        <3>. QED  BY <3>1, <3>2
    <2>3. EditTime \in Nat /\ EditTime # 0 /\ (edits < MaxEdits => EditTime < MaxEdits + 2)
        BY <1>1, <2>1
    <2>4. EditTime'..MaxEdits + 1 \subseteq EditTime..MaxEdits + 1
        BY <1>1, <2>2, <2>3
    <2>5. edits' = edits + 1 => EditTime \notin EditTime'..MaxEdits + 1
        BY <1>1, <2>1, <2>3
    <2>. QED  BY <1>1, <2>3, <2>4, <2>5 DEF NoTime
<1>. HIDE DEF EditTime
<1>3. ASSUME NEW q, IsA("file", src', q)
      PROVE  src'[q].time # NoTime /\ src'[q].time \notin EditTime'..MaxEdits + 1
    BY <1>2, <1>3 DEF QuickInv
<1>4. ASSUME NEW q, IsA("file", src', q), IsA("file", dst, q), dst[q].time = src'[q].time
      PROVE  dst[q].data = src'[q].data
    <2>1. CASE IsA("file", src, q) /\ src'[q].time = src[q].time /\ src'[q].data = src[q].data
        <3>1. q \in DOMAIN src \intersect DOMAIN dst
            BY <1>4, <2>1 DEF IsA
        <3>. QED  BY <1>4, <2>1, <3>1 DEF QuickInv, QuickCheckSound
    <2>2. CASE edits < MaxEdits /\ src'[q].time = EditTime
        BY <1>2, <1>4, <2>2 DEF QuickInv
    <2>. QED  BY <1>4, <2>1, <2>2
<1>5. QuickCheckSound'
    BY <1>4 DEF QuickCheckSound
<1>6. doing' # Nothing => doing'.st.time \notin EditTime'..MaxEdits + 1
    BY <1>2 DEF QuickInv
<1>7. ASSUME doing'.stage = "write", IsA("file", src', doing'.path), src'[doing'.path].time = doing'.st.time
      PROVE  doing'.data = src'[doing'.path].data
    <2>1. doing # Nothing /\ doing' = doing
        BY <1>7 DEF Nothing
    <2>2. ~(edits < MaxEdits /\ src'[doing.path].time = EditTime)
        BY <1>2, <1>7, <2>1 DEF QuickInv
    <2>. QED  BY <1>7, <2>1, <2>2 DEF QuickInv
<1>8. \A q : IsA("file", dst', q) => dst'[q].time \notin EditTime'..MaxEdits + 1
    BY <1>2 DEF QuickInv
<1>. QED  BY <1>3, <1>5, <1>6, <1>7, <1>8 DEF QuickInv

\* Files that are left as they are.
LEMMA OldFiles ==
    /\ dst' = dst => \A q : IsA("file", dst', q) => OldFile(q)
    /\ \A p, e : dst' = Put(dst, p, e) /\ e.kind # "file" =>
         \A q : IsA("file", dst', q) => OldFile(q)
    /\ \A S : dst' = Without(dst, S) => \A q : IsA("file", dst', q) => OldFile(q)
    /\ \A p : dst' \in Remnants(dst, p) => \A q : IsA("file", dst', q) => OldFile(q)
<1>1. dst' = dst => \A q : IsA("file", dst', q) => OldFile(q)
    BY DEF OldFile
<1>2. \A p, e : dst' = Put(dst, p, e) /\ e.kind # "file" =>
        \A q : IsA("file", dst', q) => OldFile(q)
    BY DEF OldFile, Put, IsA
<1>3. \A S : dst' = Without(dst, S) => \A q : IsA("file", dst', q) => OldFile(q)
    BY DEF OldFile, Without, IsA
<1>4. \A p : dst' \in Remnants(dst, p) => \A q : IsA("file", dst', q) => OldFile(q)
    BY <1>3 DEF Remnants
<1>. QED  BY <1>1, <1>2, <1>3, <1>4

\* Passes that make and remove what is not a file.
LEMMA OtherKinds ==
    ASSUME Shape,
           \/ \E p : MirrorDir(p) \/ MirrorLink(p) \/ CopyLink(p) \/ CopyDir(p)
           \/ MirrorUp \/ CopyUp \/ PruneNext \/ CopyWriteFails
    PROVE  \A q : IsA("file", dst', q) => OldFile(q)
<1>1. ASSUME NEW p, MirrorDir(p) \/ CopyDir(p)
      PROVE  \A q : IsA("file", dst', q) => OldFile(q)
    <2>1. dst' = dst \/ dst' = Put(dst, p, Dir(Private)) \/ dst' = Without(dst, {p})
        BY <1>1 DEF MirrorDir, CopyDir
    <2>. QED  BY <2>1, OldFiles, NewEntries
<1>2. ASSUME NEW p, CopyLink(p)
      PROVE  \A q : IsA("file", dst', q) => OldFile(q)
    <2>1. dst' = dst \/ dst' = Put(dst, p, src[p]) \/ dst' = Without(dst, {p})
        BY <1>2 DEF CopyLink
    <2>2. src[p].kind # "file"
        BY <1>2 DEF CopyLink, Found
    <2>. QED  BY <2>1, <2>2, OldFiles
<1>3. ASSUME NEW p, MirrorLink(p)
      PROVE  \A q : IsA("file", dst', q) => OldFile(q)
    <2>1. dst' = dst \/ dst' = Put(Drop(dst, p), p, src[p]) \/ dst' \in Remnants(dst, p)
        BY <1>3 DEF MirrorLink
    <2>2. src[p].kind # "file"
        BY <1>3 DEF MirrorLink, Found
    <2>3. CASE dst' = Put(Drop(dst, p), p, src[p])
        BY <2>2, <2>3 DEF OldFile, Put, Drop, Without, IsA
    <2>. QED  BY <2>1, <2>3, OldFiles
<1>4. ASSUME MirrorUp \/ CopyUp
      PROVE  \A q : IsA("file", dst', q) => OldFile(q)
    <2>1. pc \in {"mirror", "copy"} /\ stack # <<>>
        BY <1>4 DEF MirrorUp, CopyUp
    <2>2. PICK m \in Metadata : dst' = Sealed(Top.at, m)
        <3>1. CASE MirrorUp
            BY <3>1, MirrorUpDoes
        <3>2. CASE CopyUp
            BY <2>1, <3>2, TopIs DEF CopyUp, Shape, StackOK, Top, FrameType
        <3>. QED  BY <1>4, <3>1, <3>2
    <2>3. /\ DOMAIN dst' = DOMAIN dst
          /\ \A q \in DOMAIN dst : dst'[q] = IF q = Top.at THEN [kind |-> "dir", meta |-> m] ELSE dst[q]
        BY <2>1, <2>2, LeavesUp
    <2>. QED  BY <2>3 DEF OldFile, IsA
<1>5. ASSUME PruneNext
      PROVE  \A q : IsA("file", dst', q) => OldFile(q)
    BY <1>5, OldFiles DEF PruneNext, Drop
<1>6. ASSUME CopyWriteFails
      PROVE  \A q : IsA("file", dst', q) => OldFile(q)
    BY <1>6, OldFiles DEF CopyWriteFails
<1>. QED  BY <1>1, <1>2, <1>3, <1>4, <1>5, <1>6

\* A file that is found to be up to date is, and keeps its content.
LEMMA CheckQuick ==
    ASSUME Shape, QuickInv, Check
    PROVE  \A q : IsA("file", dst', q) => OldFile(q) \/ NewFile(q)
<1>. DEFINE p == doing.path
<1>1. CASE dst' = dst
    BY <1>1, OldFiles
<1>2. CASE dst' # dst
    <2>1. IsA("file", dst, p) /\ dst' = Refreshed /\ ~Rewrites /\ doing # Nothing
        BY <1>2, CheckDoes, DoingIs DEF Check
    <2>2. /\ DOMAIN dst' = DOMAIN dst /\ \A q \in DOMAIN dst : q # p => dst'[q] = dst[q]
          /\ dst'[p] = [dst[p] EXCEPT !.meta = doing.st.meta, !.time = doing.st.time]
        BY <2>1 DEF Refreshed, IsA
    <2>3. dst[p] \in [kind : {"file"}, data : Contents \union {"partial"},
                      time : Nat, meta : Metadata, twin : BOOLEAN]
        BY <2>1, EntryKinds DEF Shape, TreesOK, IsTree, IsA
    <2>4. dst'[p].time = doing.st.time /\ dst'[p].data = dst[p].data /\ dst[p].data # "none"
        BY <2>2, <2>3, TransferAssumption
    <2>5. CASE op.checksum
        <3>1. Current = dst[p].data
            BY <2>1, <2>5 DEF Rewrites, NeedsUpdate
        <3>2. src[p].data = dst[p].data
            BY <2>4, <3>1 DEF Current
        <3>3. NewFile(p)
            BY <2>1, <2>4, <3>2 DEF NewFile
        <3>. QED  BY <2>2, <3>3 DEF OldFile, IsA
    <2>6. CASE ~op.checksum
        <3>1. doing.st.time = dst[p].time
            BY <2>1, <2>6 DEF Rewrites, NeedsUpdate
        <3>2. OldFile(p)
            BY <2>1, <2>4, <3>1 DEF OldFile
        <3>. QED  BY <2>2, <3>2 DEF OldFile, IsA
    <2>. QED  BY <2>5, <2>6
<1>. QED  BY <1>1, <1>2

\* What is written is half written, or the content that goes with its time.
LEMMA WritesQuick ==
    ASSUME Shape, QuickInv, CopyOpen \/ CopyWrite
    PROVE  \A q : IsA("file", dst', q) => OldFile(q) \/ NewFile(q)
<1>1. CASE CopyOpen
    <2>1. dst' = dst \/ dst' = Put(dst, doing.name, Partial)
        BY <1>1, CopyOpenDoes
    <2>2. ASSUME dst' = Put(dst, doing.name, Partial), NEW q, IsA("file", dst', q)
          PROVE  OldFile(q) \/ NewFile(q)
        <3>1. CASE q = doing.name
            <4>1. dst'[q] = Partial
                BY <2>2, <3>1 DEF Put, IsA
            <4>2. dst'[q].time = NoTime
                BY <4>1 DEF Partial, File
            <4>. QED  BY <4>2 DEF NewFile
        <3>2. CASE q # doing.name
            BY <2>2, <3>2 DEF Put, IsA, OldFile
        <3>. QED  BY <3>1, <3>2
    <2>. QED  BY <2>1, <2>2, OldFiles
<1>2. CASE CopyWrite
    <2>. DEFINE p == doing.path
                t == IF doing.name = p THEN dst ELSE Without(dst, {doing.name})
    <2>1. PICK d \in {doing.data, Current} \ {"none"} : dst' = Put(t, p, Written(d))
        BY <1>2 DEF CopyWrite
    <2>2. \A q : q \in DOMAIN t => q \in DOMAIN dst /\ t[q] = dst[q]
        BY DEF Without
    <2>. HIDE DEF t
    <2>3. doing.stage = "write" /\ doing # Nothing
        BY <1>2, DoingIs DEF CopyWrite
    <2>4. ASSUME NEW q, IsA("file", dst', q)
          PROVE  OldFile(q) \/ NewFile(q)
        <3>1. CASE q = p
            <4>1. dst'[q] = Written(d)
                BY <2>1, <2>4, <3>1 DEF Put, IsA
            <4>2. dst'[q].time = doing.st.time /\ dst'[q].data = d
                BY <4>1 DEF Written, File
            <4>3. ASSUME IsA("file", src, q), src[q].time = doing.st.time
                  PROVE  d = src[q].data
                <5>1. doing.data = src[q].data
                    BY <2>3, <3>1, <4>3 DEF QuickInv
                <5>2. Current = src[q].data \/ Current = "none"
                    BY <3>1 DEF Current
                <5>. QED  BY <5>1, <5>2
            <4>. QED  BY <2>3, <4>2, <4>3 DEF NewFile
        <3>2. CASE q # p
            BY <2>1, <2>2, <2>4, <3>2 DEF Put, IsA, OldFile
        <3>. QED  BY <3>1, <3>2
    <2>. QED  BY <2>4
<1>. QED  BY <1>1, <1>2

\* Steps that leave the bound of the edits, and the file they are at.
LEMMA EditsStay ==
    /\ StartSync \/ CollectDown \/ CollectUp \/ CollectEnd => UNCHANGED edits
    /\ \A p : MirrorGone(p) \/ MirrorSpecial(p) \/ MirrorDir(p) \/ MirrorLink(p) \/ MirrorFile(p) =>
         UNCHANGED edits
    /\ Check \/ MirrorDown \/ MirrorUp \/ MirrorEnd \/ PruneNext \/ PruneEnd => UNCHANGED edits
    /\ StartCopy \/ Rename \/ CopyUp \/ CopyEnd \/ ClearUp => UNCHANGED edits
    /\ \A p : CopyGone(p) \/ CopySpecial(p) \/ CopyLink(p) \/ CopyDir(p) \/ CopyFile(p) => UNCHANGED edits
    /\ \A p : ClearGone(p) \/ ClearFile(p) \/ ClearDown(p) \/ ClearFails(p) => UNCHANGED edits
    /\ CopyOpen \/ CopyWrite \/ CopyWriteFails \/ Crash \/ Over \/ UNCHANGED vars => UNCHANGED edits
<1>. USE DEF Stepped, bounds, vars, Begin
<1>1. StartSync \/ CollectDown \/ CollectUp \/ CollectEnd => UNCHANGED edits
    BY DEF StartSync, CollectDown, CollectUp, CollectEnd
<1>2. \A p : MirrorGone(p) \/ MirrorSpecial(p) \/ MirrorDir(p) \/ MirrorLink(p) \/ MirrorFile(p) =>
        UNCHANGED edits
    BY DEF MirrorGone, MirrorSpecial, MirrorDir, MirrorLink, MirrorFile
<1>3. Check \/ MirrorDown \/ MirrorUp \/ MirrorEnd \/ PruneNext \/ PruneEnd => UNCHANGED edits
    BY DEF Check, MirrorDown, MirrorUp, MirrorEnd, PruneNext, PruneEnd
<1>4. StartCopy \/ Rename \/ CopyUp \/ CopyEnd \/ ClearUp => UNCHANGED edits
    BY DEF StartCopy, Rename, CopyUp, CopyEnd, ClearUp
<1>5. \A p : CopyGone(p) \/ CopySpecial(p) \/ CopyLink(p) \/ CopyDir(p) \/ CopyFile(p) => UNCHANGED edits
    BY DEF CopyGone, CopySpecial, CopyLink, CopyDir, CopyFile
<1>6. \A p : ClearGone(p) \/ ClearFile(p) \/ ClearDown(p) \/ ClearFails(p) => UNCHANGED edits
    BY DEF ClearGone, ClearFile, ClearDown, ClearFails
<1>7. CopyOpen \/ CopyWrite \/ CopyWriteFails \/ Crash \/ Over \/ UNCHANGED vars => UNCHANGED edits
    BY DEF CopyOpen, CopyWrite, CopyWriteFails, Crash, Over
<1>. QED  BY <1>1, <1>2, <1>3, <1>4, <1>5, <1>6, <1>7

\* The file a step leaves a walk at: none, the same one, one it has come to, or
\* the one it goes on with.
LEMMA DoingSteps ==
    ASSUME Shape, [Next]_vars
    PROVE  \/ doing' = Nothing
           \/ doing' = doing
           \/ \E p \in AllPaths : /\ doing = Nothing /\ Found("file", p) /\ UNCHANGED <<trees, edits>>
                                  /\ \E n : doing' = At(p, "check", n) \/ doing' = At(p, "open", n)
           \/ Check /\ doing' = [doing EXCEPT !.stage = "open"]
           \/ CopyOpen /\ doing' = [doing EXCEPT !.stage = "write", !.data = src[doing.path].data]
<1>. USE DEF Stepped, walk
<1>1. ASSUME NEW r, End(r)
      PROVE  doing' = Nothing
    BY <1>1 DEF End
<1>2. ASSUME StartSync \/ CollectDown \/ CollectUp \/ CollectEnd
      PROVE  doing' = Nothing \/ doing' = doing
    BY <1>2 DEF StartSync, CollectDown, CollectUp, CollectEnd
<1>3. ASSUME NEW p, MirrorGone(p) \/ MirrorSpecial(p) \/ MirrorDir(p) \/ MirrorLink(p)
      PROVE  doing' = doing
    BY <1>3 DEF MirrorGone, MirrorSpecial, MirrorDir, MirrorLink
<1>4. ASSUME NEW p, MirrorFile(p) \/ CopyFile(p)
      PROVE  \E q \in AllPaths : /\ doing = Nothing /\ Found("file", q) /\ UNCHANGED <<trees, edits>>
                                 /\ \E n : doing' = At(q, "check", n) \/ doing' = At(q, "open", n)
    <2>1. UNCHANGED <<trees, edits>>
        BY <1>4, TreesStay, EditsStay
    <2>2. p \in AllPaths /\ doing = Nothing
        BY <1>4, EntryIs DEF MirrorFile, CopyFile
    <2>. QED  BY <1>4, <2>1, <2>2 DEF MirrorFile, CopyFile
<1>5. ASSUME MirrorDown \/ MirrorUp \/ PruneNext \/ CopyUp \/ EditSeal \/ Over \/ UNCHANGED vars
      PROVE  doing' = doing
    BY <1>5 DEF MirrorDown, MirrorUp, PruneNext, CopyUp, EditSeal, Touch, Over, vars
<1>6. ASSUME MirrorEnd \/ PruneEnd \/ StartCopy \/ Rename \/ CopyEnd \/ ClearUp \/ Crash
      PROVE  doing' = Nothing \/ doing' = doing
    BY <1>1, <1>6 DEF MirrorEnd, PruneEnd, StartCopy, Rename, CopyEnd, ClearUp, Crash
<1>7. ASSUME NEW p, CopyGone(p) \/ CopySpecial(p) \/ CopyLink(p) \/ CopyDir(p)
      PROVE  doing' = doing
    BY <1>7 DEF CopyGone, CopySpecial, CopyLink, CopyDir
<1>8. ASSUME NEW p, ClearGone(p) \/ ClearFile(p) \/ ClearDown(p) \/ ClearFails(p)
      PROVE  doing' = Nothing \/ doing' = doing
    BY <1>1, <1>8 DEF ClearGone, ClearFile, ClearDown, ClearFails
<1>9. ASSUME CopyWrite \/ CopyWriteFails
      PROVE  doing' = Nothing
    BY <1>9 DEF CopyWrite, CopyWriteFails
<1>10. ASSUME NEW p \in Paths, EditFile(p) \/ EditMeta(p) \/ EditRemove(p) \/ EditCreate(p)
       PROVE  doing' = doing
    BY <1>10 DEF EditFile, EditMeta, EditRemove, EditCreate, Touch
<1>11. Check => doing' = Nothing \/ doing' = [doing EXCEPT !.stage = "open"]
    BY DEF Check
<1>12. CopyOpen => doing' = Nothing \/ doing' = [doing EXCEPT !.stage = "write", !.data = src[doing.path].data]
    BY DEF CopyOpen
<1>. QED  BY <1>2, <1>3, <1>4, <1>5, <1>6, <1>7, <1>8, <1>9, <1>10, <1>11, <1>12, StepCases

\* The owner's changes of files.
LEMMA EditQuick ==
    ASSUME Shape,
           \/ EditSeal
           \/ \E p \in Paths : EditFile(p) \/ EditMeta(p) \/ EditRemove(p) \/ EditCreate(p)
    PROVE  /\ edits < MaxEdits /\ edits' = edits + 1 /\ UNCHANGED <<dst, doing>>
           /\ \A q : IsA("file", src', q) =>
                \/ IsA("file", src, q) /\ src'[q].time = src[q].time /\ src'[q].data = src[q].data
                \/ src'[q].time = EditTime
<1>1. edits < MaxEdits /\ edits' = edits + 1 /\ UNCHANGED <<dst, doing>>
    BY DEF EditSeal, EditFile, EditMeta, EditRemove, EditCreate, Touch
<1>. HIDE DEF EditTime
<1>2. CASE EditSeal
    BY <1>1, <1>2 DEF EditSeal
<1>3. ASSUME NEW p \in Paths, EditFile(p), NEW q, IsA("file", src', q)
      PROVE  \/ IsA("file", src, q) /\ src'[q].time = src[q].time /\ src'[q].data = src[q].data
             \/ src'[q].time = EditTime
    <2>1. PICK d \in Contents : src' = [src EXCEPT ![p].data = d, ![p].time = EditTime]
        BY <1>3 DEF EditFile
    <2>2. src[p] \in [kind : {"file"}, data : Contents \union {"partial"},
                      time : Nat, meta : Metadata, twin : BOOLEAN] /\ p \in DOMAIN src
        BY <1>3, EntryKinds DEF EditFile, Shape, TreesOK, IsTree, IsA
    <2>3. /\ DOMAIN src' = DOMAIN src /\ \A r \in DOMAIN src : r # p => src'[r] = src[r]
          /\ src'[p] = [src[p] EXCEPT !.data = d, !.time = EditTime]
        BY <2>1, <2>2
    <2>4. src'[p].time = EditTime
        BY <2>2, <2>3
    <2>. QED  BY <1>3, <2>3, <2>4 DEF IsA
<1>4. ASSUME NEW p \in Paths, EditMeta(p), NEW q, IsA("file", src', q)
      PROVE  IsA("file", src, q) /\ src'[q].time = src[q].time /\ src'[q].data = src[q].data
    <2>1. PICK m \in Metas : src' = [src EXCEPT ![p].meta = m]
        BY <1>4 DEF EditMeta
    <2>2. p \in DOMAIN src /\ src[p] \in Entries /\ src[p].kind \in {"file", "dir"}
        BY <1>4 DEF EditMeta, Shape, TreesOK, IsTree
    <2>3. /\ DOMAIN src' = DOMAIN src /\ \A r \in DOMAIN src : r # p => src'[r] = src[r]
          /\ src'[p] = [src[p] EXCEPT !.meta = m]
        BY <2>1, <2>2
    <2>4. CASE src[p].kind = "file"
        <3>1. src[p] \in [kind : {"file"}, data : Contents \union {"partial"},
                          time : Nat, meta : Metadata, twin : BOOLEAN]
            BY <2>2, <2>4, EntryKinds
        <3>2. src'[p].time = src[p].time /\ src'[p].data = src[p].data
            BY <2>3, <3>1
        <3>. QED  BY <1>4, <2>2, <2>3, <2>4, <3>2 DEF IsA
    <2>5. CASE src[p].kind = "dir"
        <3>1. src[p] \in [kind : {"dir"}, meta : Metadata]
            BY <2>2, <2>5, EntryKinds
        <3>2. src'[p].kind = "dir"
            BY <2>3, <3>1
        <3>. QED  BY <1>4, <2>3, <3>2 DEF IsA
    <2>. QED  BY <2>2, <2>4, <2>5
<1>5. ASSUME NEW p \in Paths, EditRemove(p), NEW q, IsA("file", src', q)
      PROVE  IsA("file", src, q) /\ src'[q].time = src[q].time /\ src'[q].data = src[q].data
    BY <1>5 DEF EditRemove, Drop, Without, IsA
<1>6. ASSUME NEW p \in Paths, EditCreate(p), NEW q, IsA("file", src', q)
      PROVE  \/ IsA("file", src, q) /\ src'[q].time = src[q].time /\ src'[q].data = src[q].data
             \/ src'[q].time = EditTime
    <2>1. PICK e \in Fresh : src' = Put(Drop(src, p), p, Stamped(e))
        BY <1>6 DEF EditCreate
    <2>2. CASE q = p
        <3>1. src'[q] = Stamped(e)
            BY <1>6, <2>1, <2>2 DEF Put, IsA
        <3>2. e \in Entries /\ src'[q].kind = "file"
            BY <1>6, TransferAssumption DEF IsA
        <3>3. e.kind = "file"
            BY <3>1, <3>2 DEF Stamped
        <3>4. e \in [kind : {"file"}, data : Contents \union {"partial"},
                     time : Nat, meta : Metadata, twin : BOOLEAN]
            BY <3>2, <3>3, EntryKinds
        <3>. QED  BY <3>1, <3>3, <3>4 DEF Stamped
    <2>3. CASE q # p
        BY <1>6, <2>1, <2>3 DEF Put, Drop, Without, IsA
    <2>. QED  BY <2>2, <2>3
<1>. QED  BY <1>1, <1>2, <1>3, <1>4, <1>5, <1>6

\* Every step keeps times and contents together.
LEMMA QuickNext == Shape /\ QuickInv /\ [Next]_vars => QuickInv'
<1>. SUFFICES ASSUME Shape, QuickInv, [Next]_vars
              PROVE  QuickInv'
    OBVIOUS
<1>1. ASSUME UNCHANGED <<src, edits>>, \A q : IsA("file", dst', q) => OldFile(q) \/ NewFile(q)
      PROVE  QuickInv'
    <2>. DEFINE w == doing'
    <2>1. /\ w # Nothing => \/ doing # Nothing /\ w.st = doing.st
                            \/ IsA("file", src, w.path) /\ w.st = src[w.path]
          /\ w.stage = "write" => w = doing \/ w.data = src[w.path].data
        <3>1. CASE w = Nothing
            BY <3>1 DEF Nothing
        <3>2. CASE w = doing
            BY <3>2
        <3>3. ASSUME NEW p, Found("file", p), NEW n, w = At(p, "check", n) \/ w = At(p, "open", n)
              PROVE  IsA("file", src, w.path) /\ w.st = src[w.path] /\ w.stage # "write"
            BY <3>3 DEF At, Found, There, IsA
        <3>4. ASSUME doing.stage \in {"check", "open"}, NEW d,
                     \/ w = [doing EXCEPT !.stage = "open"]
                     \/ w = [doing EXCEPT !.stage = "write", !.data = d]
              PROVE  /\ doing # Nothing /\ w.st = doing.st /\ w.path = doing.path
                     /\ w.stage = "write" => w.data = d
            <4>1. doing # Nothing /\ doing \in WorkType
                BY <3>4, DoingIs
            <4>. QED  BY <3>4, <4>1 DEF WorkType
        <3>5. Check => doing.stage \in {"check", "open"}
            BY DEF Check
        <3>6. CopyOpen => doing.stage \in {"check", "open"}
            BY DEF CopyOpen
        <3>. HIDE DEF w
        <3>7. CASE Check /\ w = [doing EXCEPT !.stage = "open"]
            <4>1. w.stage # "write"
                <5>1. doing \in WorkType
                    BY <3>5, <3>7, DoingIs
                <5>. QED  BY <3>7, <5>1 DEF WorkType
            <4>. QED  BY <3>4, <3>5, <3>7, <4>1
        <3>8. CASE CopyOpen /\ w = [doing EXCEPT !.stage = "write", !.data = src[doing.path].data]
            BY <3>4, <3>6, <3>8
        <3>. QED  BY <3>1, <3>2, <3>3, <3>7, <3>8, DoingSteps DEF w
    <2>. QED  BY <1>1, <2>1, QuickWrites
<1>2. CASE UNCHANGED trees /\ UNCHANGED edits
    BY <1>1, <1>2, OldFiles DEF trees
<1>3. ASSUME \/ \E p : MirrorDir(p) \/ MirrorLink(p) \/ CopyLink(p) \/ CopyDir(p)
             \/ MirrorUp \/ CopyUp \/ PruneNext \/ CopyWriteFails
      PROVE  QuickInv'
    <2>1. UNCHANGED src
        BY <1>3, TreesStay
    <2>2. UNCHANGED edits
        BY <1>3, EditsStay
    <2>. QED  BY <1>1, <1>3, <2>1, <2>2, OtherKinds
<1>4. ASSUME Check \/ CopyOpen \/ CopyWrite
      PROVE  QuickInv'
    <2>1. UNCHANGED <<src, edits>>
        BY <1>4, TreesStay, EditsStay
    <2>. QED  BY <1>1, <1>4, <2>1, CheckQuick, WritesQuick
<1>5. ASSUME Rename
      PROVE  QuickInv'
    <2>1. CASE UNCHANGED trees
        BY <1>2, <1>5, <2>1, EditsStay
    <2>2. CASE src' = EmptyTree /\ dst' = src
        <3>1. doing' = Nothing /\ EditTime' = EditTime
            BY <1>5, EditsStay DEF Rename, End, EditTime
        <3>. HIDE DEF EditTime
        <3>2. \A q : ~IsA("file", src', q)
            BY <2>2 DEF IsA, EmptyTree
        <3>. QED  BY <2>2, <3>1, <3>2 DEF QuickInv, QuickCheckSound, Nothing
    <2>. QED  BY <1>5, <2>1, <2>2 DEF Rename
<1>6. ASSUME ClearUp \/ \E p : ClearFile(p)
      PROVE  QuickInv'
    <2>1. doing' = doing \/ doing' = Nothing
        BY <1>6 DEF ClearUp, ClearFile, End
    <2>2. UNCHANGED <<dst, edits>>
        BY <1>6, TreesStay, EditsStay
    <2>3. \E S : src' = Without(src, S) \/ src' = src
        BY <1>6 DEF ClearUp, ClearFile
    <2>4. \A q : IsA("file", src', q) =>
              IsA("file", src, q) /\ src'[q].time = src[q].time /\ src'[q].data = src[q].data
        BY <2>3 DEF Without, IsA
    <2>. QED  BY <2>1, <2>2, <2>4, QuickEdits
<1>7. ASSUME \/ EditSeal
             \/ \E p \in Paths : EditFile(p) \/ EditMeta(p) \/ EditRemove(p) \/ EditCreate(p)
      PROVE  QuickInv'
    <2>1. /\ edits < MaxEdits /\ edits' = edits + 1 /\ UNCHANGED <<dst, doing>>
          /\ \A q : IsA("file", src', q) =>
               \/ IsA("file", src, q) /\ src'[q].time = src[q].time /\ src'[q].data = src[q].data
               \/ src'[q].time = EditTime
        BY <1>7, EditQuick
    <2>. HIDE DEF EditTime
    <2>. QED  BY <2>1, QuickEdits
<1>8. ASSUME NEW p, \/ MirrorGone(p) \/ MirrorSpecial(p) \/ MirrorFile(p)
                    \/ CopyGone(p) \/ CopySpecial(p) \/ CopyFile(p)
                    \/ ClearGone(p) \/ ClearDown(p) \/ ClearFails(p)
      PROVE  UNCHANGED trees /\ UNCHANGED edits
    BY <1>8, TreesStay, EditsStay
<1>9. ASSUME \/ StartSync \/ CollectDown \/ CollectUp \/ CollectEnd
             \/ MirrorDown \/ MirrorEnd \/ PruneEnd \/ StartCopy \/ CopyEnd
             \/ Crash \/ Over \/ UNCHANGED vars
      PROVE  UNCHANGED trees /\ UNCHANGED edits
    BY <1>9, TreesStay, EditsStay
<1>. QED  BY <1>2, <1>3, <1>4, <1>5, <1>6, <1>7, <1>8, <1>9, StepCases

\* The trees to begin with are as the later ones are.
LEMMA QuickInit == Init => QuickInv
<1>. SUFFICES ASSUME Init
              PROVE  QuickInv
    OBVIOUS
<1>1. edits = 0 /\ src \in Sources /\ dst \in Dests /\ doing = Nothing
    BY DEF Init
<1>2. EditTime..MaxEdits + 1 = 2..MaxEdits + 1
    BY <1>1 DEF EditTime
<1>3. \A t : \A q : IsA("file", t, q) => t[q].time \in FileTimes(t)
    BY DEF IsA, FileTimes
<1>4. /\ FileTimes(src) \intersect (2..MaxEdits + 1) = {} /\ NoTime \notin FileTimes(src)
      /\ FileTimes(dst) \intersect (2..MaxEdits + 1) = {}
    BY <1>1, TransferAssumption
<1>5. QuickCheckSound
    BY <1>1, TransferAssumption DEF QuickCheckSound
<1>. HIDE DEF EditTime
<1>. QED  BY <1>1, <1>2, <1>3, <1>4, <1>5 DEF QuickInv, Nothing

\* What a later sync takes for up to date by its time is up to date: the time of
\* a file is only ever given to what has been read of that version of it.
THEOREM QuickChecksSound == Spec => []QuickCheckSound
<1>1. Init => Shape /\ QuickInv
    BY ShapeInit, QuickInit
<1>2. (Shape /\ QuickInv) /\ [Next]_vars => (Shape /\ QuickInv)'
    BY ShapeNext, QuickNext
<1>3. Shape /\ QuickInv => QuickCheckSound
    BY DEF QuickInv
<1>. QED  BY <1>1, <1>2, <1>3, PTL DEF Spec

-----------------------------------------------------------------------------
(* What nobody else has touched, while a walk goes over it. *)

Active == pc \in {"collect", "mirror", "copy"}

Standing == \A p \in stable : p \in DOMAIN src /\ src[p] = was[p]

\* The directories open on the way to it have not been removed, and its own, if
\* it is one, was opened with the metadata it has.
OpenSteady ==
    \A i \in 1..Len(stack) : \A p \in stable :
        /\ IsPrefix(stack[i].at, p) => ~stack[i].gone
        /\ stack[i].at = p => was[p].kind = "dir" /\ (pc = "copy" => stack[i].meta = was[p].meta)

DoingSteady == doing # Nothing /\ doing.path \in stable =>
    doing.st = was[doing.path] /\ (doing.stage = "write" => doing.data = was[doing.path].data)

\* What is passed over without being counted are special files.
SkipsSteady ==
    \A q \in skipped \ failed : \A p \in stable : IsPrefix(q, p) => q = p /\ was[p].kind = "special"

Steady == Active => Standing /\ OpenSteady /\ DoingSteady /\ SkipsSteady

\* An untouched entry is in the tree, and everything above it is a directory.
LEMMA Untouched ==
    ASSUME Shape, Standing, NEW p \in stable
    PROVE  /\ p \in AllPaths /\ p \in TreePaths /\ p \in DOMAIN src /\ src[p] = was[p] /\ src[p] \in Entries
           /\ SourceName(p)
           /\ \A q \in TreePaths : IsPrefix(q, p) /\ q # p => IsDir(src, q)
           /\ \A q \in AllPaths : IsPrefix(q, p) => q \in DOMAIN src
<1>1. TreesOK /\ IsTree(src) /\ p \in DOMAIN src /\ src[p] = was[p]
    BY DEF Shape, TreesOK, Standing
<1>2. p \in AllPaths /\ p \in TreePaths /\ src[p] \in Entries /\ SourceName(p)
    BY <1>1 DEF TreesOK, IsTree, AllPaths, TreePaths
<1>3. \A q \in TreePaths : IsPrefix(q, p) /\ q # p => IsDir(src, q)
    BY <1>1, TreeAbove
<1>4. \A q \in AllPaths : IsPrefix(q, p) => q \in DOMAIN src
    BY <1>1, <1>3 DEF IsDir, IsA, AllPaths
<1>. QED  BY <1>1, <1>2, <1>3, <1>4

\* The directories of v are open already, or are opened by the step.
Opens(v) ==
    \A i \in 1..Len(v) :
        \/ \E j \in 1..Len(stack) : v[i].at = stack[j].at /\ v[i].gone = stack[j].gone /\ v[i].meta = stack[j].meta
        \/ \E p \in TreePaths : IsDir(src, p) /\ v[i].at = p /\ ~v[i].gone /\ v[i].meta = Opened(p).meta

\* What the steps of a walk have open.
LEMMA OpensKinds ==
    ASSUME Shape
    PROVE  /\ Opens(stack) /\ Opens(<<>>)
           /\ Opens(<<Opened(<<>>)>>) /\ Opens(<<Listed(<<>>)>>)
           /\ Opens(<<[Opened(<<>>) EXCEPT !.subs = Subdirs(src, <<>>)]>>)
           /\ stack # <<>> =>
                /\ Opens(Front(stack))
                /\ \A p : Opens(LessName(p)) /\ Opens(LessSub(p))
                /\ \A p \in Top.names : Opens(Aside(p))
                /\ \A p \in Top.names : IsDir(src, p) => Opens(Append(LessName(p), Listed(p)))
                /\ \A p \in Top.subs : IsDir(src, p) =>
                     /\ Opens(Append(LessSub(p), Listed(p)))
                     /\ Opens(Append(LessSub(p), [Opened(p) EXCEPT !.subs = Subdirs(src, p)]))
<1>1. WalkOK(stack, src) /\ stack \in Seq(FrameType) /\ TreesOK
    BY DEF Shape, StackOK, WalkOK
<1>2. Opens(stack)
    BY DEF Opens
<1>3. \A p \in TreePaths : IsDir(src, p) =>
        /\ Listed(p).at = p /\ ~Listed(p).gone /\ Listed(p).meta = Opened(p).meta
        /\ Opened(p).at = p /\ ~Opened(p).gone
        /\ [Opened(p) EXCEPT !.subs = Subdirs(src, p)].at = p
        /\ ~[Opened(p) EXCEPT !.subs = Subdirs(src, p)].gone
        /\ [Opened(p) EXCEPT !.subs = Subdirs(src, p)].meta = Opened(p).meta
    BY DEF Listed, Opened
<1>4. <<>> \in TreePaths /\ IsDir(src, <<>>)
    BY EmptySeq DEF TreePaths, IsDir
<1>5. ASSUME NEW f, f.at = <<>>, ~f.gone, f.meta = Opened(<<>>).meta
      PROVE  Opens(<<f>>)
    <2>1. Len(<<f>>) = 1 /\ <<f>>[1] = f
        OBVIOUS
    <2>2. \A i \in 1..1 : i = 1
        OBVIOUS
    <2>3. \A i \in 1..Len(<<f>>) : <<f>>[i] = f
        BY <2>1, <2>2
    <2>. DEFINE v == <<f>>
    <2>. HIDE DEF v
    <2>4. Opens(v)
        BY <1>4, <1>5, <2>3 DEF Opens, v
    <2>. QED  BY <2>4 DEF v
<1>6. Opens(<<>>)
    BY EmptySeq DEF Opens
<1>7. /\ Opens(<<Opened(<<>>)>>) /\ Opens(<<Listed(<<>>)>>)
      /\ Opens(<<[Opened(<<>>) EXCEPT !.subs = Subdirs(src, <<>>)]>>)
    BY <1>3, <1>4, <1>5
<1>8. ASSUME stack # <<>>
      PROVE  /\ Opens(Front(stack))
             /\ \A p : Opens(LessName(p)) /\ Opens(LessSub(p))
             /\ \A p \in Top.names : Opens(Aside(p))
             /\ \A p \in Top.names : IsDir(src, p) => Opens(Append(LessName(p), Listed(p)))
             /\ \A p \in Top.subs : IsDir(src, p) =>
                  /\ Opens(Append(LessSub(p), Listed(p)))
                  /\ Opens(Append(LessSub(p), [Opened(p) EXCEPT !.subs = Subdirs(src, p)]))
    <2>1. Len(stack) \in Nat \ {0} /\ Top = stack[Len(stack)]
        BY <1>1, <1>8, TopIs DEF Top
    <2>2. Opens(Front(stack))
        <3>. DEFINE v == Front(stack)
        <3>1. Len(v) = Len(stack) - 1 /\ \A i \in 1..Len(stack) - 1 : v[i] = stack[i]
            BY <1>1, <1>8, WalkPop
        <3>. HIDE DEF v
        <3>2. \A i \in 1..Len(v) : i \in 1..Len(stack) /\ v[i] = stack[i]
            BY <2>1, <3>1
        <3>3. Opens(v)
            BY <3>2 DEF Opens
        <3>. QED  BY <3>3 DEF v
    <2>3. ASSUME NEW v, Len(v) = Len(stack), Last(v).at = Top.at, Last(v).gone = Top.gone,
                 Last(v).meta = Top.meta,
                 \A i \in 1..Len(stack) : v[i] = IF i = Len(stack) THEN Last(v) ELSE stack[i]
          PROVE  Opens(v)
        <3>1. \A i \in 1..Len(v) :
                  v[i].at = stack[i].at /\ v[i].gone = stack[i].gone /\ v[i].meta = stack[i].meta
            BY <2>1, <2>3
        <3>. QED  BY <2>3, <3>1 DEF Opens
    <2>4. \A p : Opens(LessName(p)) /\ Opens(LessSub(p))
        BY <1>1, <1>8, <2>3, LessNameIs, LessSubIs
    <2>5. \A p \in Top.names : Opens(Aside(p))
        BY <1>1, <1>8, <2>3, AsideIs
    <2>6. ASSUME NEW p \in Top.names \union Top.subs, IsDir(src, p),
                 NEW v, v = LessName(p) \/ v = LessSub(p),
                 NEW f, f = Listed(p) \/ f = [Opened(p) EXCEPT !.subs = Subdirs(src, p)]
          PROVE  Opens(Append(v, f))
        <3>1. p \in AllPaths /\ p \in TreePaths /\ Front(p) = Top.at
            BY <1>1, <1>8, TopIs DEF Top, AllPaths
        <3>2. WalkOK(v, src) /\ v # <<>> /\ Last(v).at = Top.at
            BY <1>1, <1>8, <2>6, LessNameIs, LessSubIs
        <3>3. f \in FrameType /\ f.at = p /\ f.names \subseteq Kids(src, p) /\ f.subs \subseteq Subdirs(src, p)
            <4>1. CASE f = Listed(p)
                BY <1>1, <2>6, <3>1, <4>1, FramesAre
            <4>2. CASE f = [Opened(p) EXCEPT !.subs = Subdirs(src, p)]
                <5>1. f \in FrameType
                    BY <1>1, <2>6, <3>1, <4>2, FramesAre
                <5>. QED  BY <4>2, <5>1 DEF Opened
            <4>. QED  BY <2>6, <4>1, <4>2
        <3>4. /\ Len(Append(v, f)) = Len(v) + 1
              /\ \A i \in 1..Len(v) + 1 : Append(v, f)[i] = IF i = Len(v) + 1 THEN f ELSE v[i]
            BY <2>6, <3>1, <3>2, <3>3, OpensDown
        <3>5. f.at = p /\ ~f.gone /\ f.meta = Opened(p).meta
            BY <1>3, <2>6, <3>1
        <3>6. Opens(v) /\ Len(v) \in Nat
            BY <2>4, <2>6, <3>2, TopIs
        <3>. DEFINE u == Append(v, f)
        <3>. HIDE DEF u
        <3>7. ASSUME NEW i \in 1..Len(u)
              PROVE  (i \in 1..Len(v) /\ u[i] = v[i]) \/ u[i] = f
            BY <3>4, <3>6 DEF u
        <3>8. Opens(u)
            BY <2>6, <3>1, <3>5, <3>6, <3>7 DEF Opens
        <3>. QED  BY <3>8 DEF u
    <2>. QED  BY <2>2, <2>4, <2>5, <2>6
<1>. QED  BY <1>2, <1>6, <1>7, <1>8

\* A step of a pass over the source, which stays as it is.
WalkStep ==
    /\ UNCHANGED <<src, history>> /\ Opens(stack')
    /\ {pc, pc'} \subseteq {"collect", "mirror", "copy"} /\ (pc' = "copy" => pc = "copy")
    /\ \A q \in skipped' \ failed' : q \in skipped \ failed \/ Found("special", q)

\* What is noted is counted, unless it has been passed over before.
LEMMA NotedIs ==
    ASSUME NEW p
    PROVE  /\ Noted(p) => skipped' \ failed' \subseteq skipped \ failed
           /\ Silent => skipped' \ failed' = skipped \ failed
           /\ skipped' = skipped \union {p} /\ UNCHANGED failed =>
                \A q \in skipped' \ failed' : q \in skipped \ failed \/ q = p
BY DEF Noted, Note, Silent, report

\* The passes are steps of a walk: the first of sync,
LEMMA CollectWalks ==
    ASSUME Shape, CollectDown \/ CollectUp \/ CollectEnd
    PROVE  WalkStep
<1>. USE DEF Stepped
<1>1. CASE CollectDown
    <2>1. stack # <<>> /\ pc = "collect" /\ pc' = pc /\ UNCHANGED <<src, history>>
        BY <1>1 DEF CollectDown
    <2>2. PICK p \in Top.subs :
              \/ stack' = LessSub(p) /\ Noted(p)
              \/ /\ IsDir(src, p) /\ UNCHANGED <<skipped, failed>>
                 /\ stack' = Append(LessSub(p), [Opened(p) EXCEPT !.subs = Subdirs(src, p)])
        BY <1>1 DEF CollectDown, CanOpen
    <2>3. Opens(stack')
        BY <2>1, <2>2, OpensKinds
    <2>4. skipped' \ failed' \subseteq skipped \ failed
        BY <2>2, NotedIs
    <2>. QED  BY <2>1, <2>3, <2>4 DEF WalkStep
<1>2. CASE CollectUp
    BY <1>2, OpensKinds DEF CollectUp, WalkStep, Silent, report
<1>3. CASE CollectEnd
    <2>1. /\ pc = "collect" /\ pc' = "mirror" /\ UNCHANGED <<src, history>>
          /\ \/ stack' = <<Opened(<<>>)>> /\ Noted(<<>>)
             \/ stack' = <<Listed(<<>>)>> /\ UNCHANGED <<skipped, failed>>
        BY <1>3 DEF CollectEnd, trees
    <2>2. Opens(stack')
        BY <2>1, OpensKinds
    <2>3. skipped' \ failed' \subseteq skipped \ failed
        BY <2>1, NotedIs
    <2>. QED  BY <2>1, <2>2, <2>3 DEF WalkStep
<1>. QED  BY <1>1, <1>2, <1>3

\* the second,
LEMMA MirrorWalks ==
    ASSUME Shape,
           \/ \E p : MirrorGone(p) \/ MirrorSpecial(p) \/ MirrorDir(p) \/ MirrorLink(p) \/ MirrorFile(p)
           \/ MirrorDown \/ MirrorUp \/ Check
    PROVE  WalkStep
<1>. USE DEF Stepped
<1>1. ASSUME NEW p, MirrorGone(p) \/ MirrorDir(p) \/ MirrorLink(p) \/ MirrorFile(p)
      PROVE  WalkStep
    <2>1. Entry("mirror", p) /\ pc' = pc /\ UNCHANGED <<src, history>>
        BY <1>1 DEF MirrorGone, MirrorDir, MirrorLink, MirrorFile
    <2>2. stack # <<>> /\ pc = "mirror" /\ p \in Top.names
        BY <2>1, EntryIs
    <2>3. stack' = LessName(p) \/ stack' = Aside(p)
        BY <1>1 DEF MirrorGone, MirrorDir, MirrorLink, MirrorFile, Aside
    <2>4. Noted(p) \/ Silent
        BY <1>1 DEF MirrorGone, MirrorDir, MirrorLink, MirrorFile
    <2>5. Opens(stack')
        BY <2>2, <2>3, OpensKinds
    <2>6. skipped' \ failed' \subseteq skipped \ failed
        BY <2>4, NotedIs
    <2>. QED  BY <2>1, <2>2, <2>5, <2>6 DEF WalkStep
<1>2. ASSUME NEW p, MirrorSpecial(p)
      PROVE  WalkStep
    <2>1. /\ Entry("mirror", p) /\ pc' = pc /\ UNCHANGED <<src, history>> /\ stack' = LessName(p)
          /\ Found("special", p) /\ skipped' = skipped \union {p} /\ UNCHANGED failed
        BY <1>2 DEF MirrorSpecial
    <2>2. stack # <<>> /\ pc = "mirror"
        BY <2>1, EntryIs
    <2>3. Opens(stack')
        BY <2>1, <2>2, OpensKinds
    <2>. QED  BY <2>1, <2>2, <2>3, NotedIs DEF WalkStep
<1>3. CASE MirrorDown
    <2>1. stack # <<>> /\ pc = "mirror" /\ pc' = pc /\ UNCHANGED <<src, history>>
        BY <1>3 DEF MirrorDown
    <2>2. PICK p \in Top.subs :
              \/ stack' = LessSub(p) /\ Noted(p)
              \/ /\ IsDir(src, p) /\ UNCHANGED <<skipped, failed>>
                 /\ stack' = Append(LessSub(p), Listed(p))
        BY <1>3 DEF MirrorDown, CanOpen
    <2>3. Opens(stack')
        BY <2>1, <2>2, OpensKinds
    <2>4. skipped' \ failed' \subseteq skipped \ failed
        BY <2>2, NotedIs
    <2>. QED  BY <2>1, <2>3, <2>4 DEF WalkStep
<1>4. CASE MirrorUp
    BY <1>4, OpensKinds DEF MirrorUp, WalkStep, Silent, report
<1>5. CASE Check
    <2>1. pc \in {"mirror", "copy"}
        BY <1>5, DoingIs DEF Check
    <2>. QED  BY <1>5, <2>1, OpensKinds DEF Check, WalkStep, Silent, report
<1>. QED  BY <1>1, <1>2, <1>3, <1>4, <1>5

\* and that of copy.
LEMMA CopyWalks ==
    ASSUME Shape,
           \/ \E p : CopyGone(p) \/ CopySpecial(p) \/ CopyLink(p) \/ CopyDir(p) \/ CopyFile(p)
           \/ CopyUp \/ CopyOpen \/ CopyWrite \/ CopyWriteFails
    PROVE  WalkStep
<1>. USE DEF Stepped
<1>1. ASSUME NEW p, CopyGone(p) \/ CopyLink(p) \/ CopyDir(p) \/ CopyFile(p)
      PROVE  WalkStep
    <2>1. Entry("copy", p) /\ pc' = pc /\ UNCHANGED <<src, history>>
        BY <1>1 DEF CopyGone, CopyDir, CopyLink, CopyFile
    <2>2. stack # <<>> /\ pc = "copy" /\ p \in Top.names
        BY <2>1, EntryIs
    <2>3. stack' = LessName(p) \/ (IsDir(src, p) /\ stack' = Append(LessName(p), Listed(p)))
        BY <1>1 DEF CopyGone, CopyDir, CopyLink, CopyFile, CanOpen
    <2>4. Noted(p) \/ Silent
        BY <1>1 DEF CopyGone, CopyDir, CopyLink, CopyFile
    <2>5. Opens(stack')
        BY <2>2, <2>3, OpensKinds
    <2>6. skipped' \ failed' \subseteq skipped \ failed
        BY <2>4, NotedIs
    <2>. QED  BY <2>1, <2>2, <2>5, <2>6 DEF WalkStep
<1>2. ASSUME NEW p, CopySpecial(p)
      PROVE  WalkStep
    <2>1. /\ Entry("copy", p) /\ pc' = pc /\ UNCHANGED <<src, history>> /\ stack' = LessName(p)
          /\ Found("special", p) /\ skipped' = skipped \union {p} /\ UNCHANGED failed
        BY <1>2 DEF CopySpecial
    <2>2. stack # <<>> /\ pc = "copy"
        BY <2>1, EntryIs
    <2>3. Opens(stack')
        BY <2>1, <2>2, OpensKinds
    <2>. QED  BY <2>1, <2>2, <2>3, NotedIs DEF WalkStep
<1>3. CASE CopyUp
    BY <1>3, OpensKinds DEF CopyUp, WalkStep, Silent, report
<1>4. CASE CopyOpen \/ CopyWrite \/ CopyWriteFails
    <2>1. UNCHANGED <<stack, pc, src, history>> /\ doing.stage # "none"
        BY <1>4 DEF CopyOpen, CopyWrite, CopyWriteFails
    <2>2. pc \in {"mirror", "copy"}
        BY <2>1, DoingIs
    <2>3. (\E p : Noted(p)) \/ Silent
        BY <1>4 DEF CopyOpen, CopyWrite, CopyWriteFails
    <2>4. skipped' \ failed' \subseteq skipped \ failed
        BY <2>3, NotedIs
    <2>5. Opens(stack')
        BY <2>1, OpensKinds
    <2>. QED  BY <2>1, <2>2, <2>4, <2>5 DEF WalkStep
<1>. QED  BY <1>1, <1>2, <1>3, <1>4

\* The steps there are by what they do to a walk.
LEMMA WalkSteps ==
    ASSUME Shape, [Next]_vars
    PROVE  \/ StartSync \/ StartCopy
           \/ WalkStep
           \/ EditSeal
           \/ \E p \in Paths : EditFile(p) \/ EditMeta(p) \/ EditRemove(p) \/ EditCreate(p)
           \/ UNCHANGED vars
           \/ pc' \notin {"collect", "mirror", "copy"}
<1>1. MirrorEnd \/ PruneEnd \/ Rename \/ CopyEnd \/ Crash => pc' \notin {"collect", "mirror", "copy"}
    BY DEF MirrorEnd, PruneEnd, Rename, CopyEnd, Crash, End
<1>2. PruneNext => pc' \notin {"collect", "mirror", "copy"}
    BY DEF PruneNext, walk
<1>3. ASSUME NEW p, ClearGone(p) \/ ClearFile(p) \/ ClearDown(p) \/ ClearFails(p)
      PROVE  pc' \notin {"collect", "mirror", "copy"}
    BY <1>3 DEF ClearGone, ClearFile, ClearDown, ClearFails, End, Entry, Stepped
<1>4. ClearUp => pc' \notin {"collect", "mirror", "copy"}
    BY DEF ClearUp, End
<1>5. Over => UNCHANGED vars
    BY DEF Over
<1>. QED  BY <1>1, <1>2, <1>3, <1>4, <1>5, CollectWalks, MirrorWalks, CopyWalks, StepCases

\* A walk leaves the untouched as it is, and opens what is there.
LEMMA SteadyWalks ==
    ASSUME Shape, Steady, Active, WalkStep, [Next]_vars
    PROVE  Standing' /\ OpenSteady' /\ DoingSteady' /\ SkipsSteady'
<1>1. Standing /\ OpenSteady /\ DoingSteady /\ SkipsSteady
    BY DEF Steady
<1>2. UNCHANGED <<src, was, stable>>
    BY DEF WalkStep, history
<1>3. \A p \in stable : p \in AllPaths /\ p \in DOMAIN src /\ src[p] = was[p]
    BY <1>1, Untouched
<1>4. Standing'
    BY <1>1, <1>2 DEF Standing
<1>5. ASSUME NEW i \in 1..Len(stack'), NEW p \in stable
      PROVE  /\ IsPrefix(stack'[i].at, p) => ~stack'[i].gone
             /\ stack'[i].at = p => was[p].kind = "dir" /\ (pc' = "copy" => stack'[i].meta = was[p].meta)
    <2>1. ASSUME NEW j \in 1..Len(stack), stack'[i].at = stack[j].at,
                 stack'[i].gone = stack[j].gone, stack'[i].meta = stack[j].meta
          PROVE  /\ IsPrefix(stack'[i].at, p) => ~stack'[i].gone
                 /\ stack'[i].at = p => was[p].kind = "dir" /\ (pc' = "copy" => stack'[i].meta = was[p].meta)
        <3>1. pc' = "copy" => pc = "copy"
            BY DEF WalkStep
        <3>. QED  BY <1>1, <2>1, <3>1 DEF OpenSteady
    <2>2. ASSUME NEW q \in TreePaths, IsDir(src, q), stack'[i].at = q, ~stack'[i].gone, stack'[i].meta = Opened(q).meta
          PROVE  stack'[i].at = p => was[p].kind = "dir" /\ stack'[i].meta = was[p].meta
        <3>1. Opened(q).meta = IF q = <<>> THEN Private ELSE src[q].meta
            BY DEF Opened
        <3>. QED  BY <1>3, <2>2, <3>1 DEF IsDir, IsA, AllPaths
    <2>. QED  BY <2>1, <2>2 DEF WalkStep, Opens
<1>6. OpenSteady'
    BY <1>2, <1>5 DEF OpenSteady
<1>7. ASSUME NEW q \in skipped' \ failed', NEW p \in stable, IsPrefix(q, p)
      PROVE  q = p /\ was[p].kind = "special"
    <2>1. CASE q \in skipped \ failed
        BY <1>1, <1>7, <2>1 DEF SkipsSteady
    <2>2. CASE Found("special", q)
        <3>1. q \in DOMAIN src /\ src[q].kind = "special"
            BY <2>2 DEF Found, There
        <3>2. q \in TreePaths /\ ~IsDir(src, q)
            BY <3>1 DEF Shape, TreesOK, IsTree, TreePaths, IsDir, IsA
        <3>3. q = p
            BY <1>1, <1>7, <3>2, Untouched
        <3>. QED  BY <1>3, <3>1, <3>3
    <2>. QED  BY <1>7, <2>1, <2>2 DEF WalkStep
<1>8. SkipsSteady'
    BY <1>2, <1>7 DEF SkipsSteady
<1>9. DoingSteady'
    <2>. DEFINE w == doing'
    <2>1. SUFFICES ASSUME w # Nothing, w.path \in stable
                   PROVE  w.st = was[w.path] /\ (w.stage = "write" => w.data = was[w.path].data)
        BY <1>2 DEF DoingSteady
    <2>2. ASSUME NEW p, Found("file", p), NEW n, w = At(p, "check", n) \/ w = At(p, "open", n)
          PROVE  w.path = p /\ w.st = src[p] /\ w.stage # "write"
        BY <2>2 DEF At
    <2>3. ASSUME doing.stage \in {"check", "open"}, NEW d,
                 w = [doing EXCEPT !.stage = "open"] \/ w = [doing EXCEPT !.stage = "write", !.data = d]
          PROVE  /\ doing # Nothing /\ w.st = doing.st /\ w.path = doing.path
                 /\ w.stage = "write" => w.data = d
        <3>1. doing # Nothing /\ doing \in WorkType
            BY <2>3, DoingIs
        <3>. QED  BY <2>3, <3>1 DEF WorkType
    <2>. HIDE DEF w
    <2>4. CASE w = doing
        BY <1>1, <2>1, <2>4 DEF DoingSteady
    <2>5. CASE Check /\ w = [doing EXCEPT !.stage = "open"]
        <3>1. /\ doing # Nothing /\ w.st = doing.st /\ w.path = doing.path
              /\ w.stage # "write"
            <4>1. doing.stage = "check"
                BY <2>5 DEF Check
            <4>2. doing \in WorkType
                BY <4>1, DoingIs
            <4>3. w.stage = "open"
                BY <2>5, <4>2 DEF WorkType
            <4>. QED  BY <2>3, <2>5, <4>1, <4>3
        <3>. QED  BY <1>1, <2>1, <3>1 DEF DoingSteady
    <2>6. CASE CopyOpen /\ w = [doing EXCEPT !.stage = "write", !.data = src[doing.path].data]
        <3>1. doing.stage = "open"
            BY <2>6 DEF CopyOpen
        <3>2. /\ doing # Nothing /\ w.st = doing.st /\ w.path = doing.path
              /\ w.stage = "write" => w.data = src[doing.path].data
            BY <2>3, <2>6, <3>1
        <3>. QED  BY <1>1, <1>3, <2>1, <3>2 DEF DoingSteady
    <2>7. w # Nothing
        BY <2>1
    <2>8. CASE \E p \in AllPaths : /\ doing = Nothing /\ Found("file", p) /\ UNCHANGED <<trees, edits>>
                                  /\ \E n : w = At(p, "check", n) \/ w = At(p, "open", n)
        BY <1>3, <2>1, <2>2, <2>8
    <2>. QED  BY <2>4, <2>5, <2>6, <2>7, <2>8, DoingSteps DEF w
<1>. QED  BY <1>4, <1>6, <1>8, <1>9

\* A command begins with everything untouched.
LEMMA SteadyBegins ==
    ASSUME Shape, StartSync \/ StartCopy
    PROVE  Standing' /\ OpenSteady' /\ DoingSteady' /\ SkipsSteady'
<1>1. /\ was' = src /\ stable' = DOMAIN src /\ src' = src /\ doing' = Nothing
      /\ skipped' \ failed' = {}
    BY DEF StartSync, StartCopy, Begin, trees
<1>2. \/ stack' = <<>> \/ stack' = <<Opened(<<>>)>> \/ stack' = <<Listed(<<>>)>>
      \/ stack' = <<[Opened(<<>>) EXCEPT !.subs = Subdirs(src, <<>>)]>>
    BY DEF StartSync, StartCopy
<1>3. Standing' /\ DoingSteady' /\ SkipsSteady'
    BY <1>1 DEF Standing, DoingSteady, SkipsSteady
<1>4. Opens(<<>>) /\ Opens(stack')
    BY <1>2, OpensKinds
<1>5. ASSUME NEW i \in 1..Len(stack')
      PROVE  stack'[i].at = <<>> /\ ~stack'[i].gone
    <2>1. ASSUME NEW f, f.at = <<>>, ~f.gone, NEW j \in 1..Len(<<f>>)
          PROVE  <<f>>[j].at = <<>> /\ ~<<f>>[j].gone
        <3>1. j = 1
            BY <2>1
        <3>2. <<f>>[j] = f
            BY <3>1
        <3>. QED  BY <2>1, <3>2
    <2>2. \A f \in {Opened(<<>>), Listed(<<>>), [Opened(<<>>) EXCEPT !.subs = Subdirs(src, <<>>)]} :
              f.at = <<>> /\ ~f.gone
        BY DEF Opened, Listed
    <2>3. Len(<<>>) = 0
        OBVIOUS
    <2>4. CASE stack' = <<>>
        BY <1>5, <2>3, <2>4
    <2>. QED  BY <1>2, <1>5, <2>1, <2>2, <2>4
<1>6. DOMAIN src \subseteq AllPaths
    BY DEF Shape, TreesOK, IsTree, AllPaths, TreePaths
<1>7. OpenSteady'
    BY <1>1, <1>5, <1>6 DEF OpenSteady, AllPaths
<1>. QED  BY <1>3, <1>7

\* The owner touches what is no longer untouched.
LEMMA EditsTouch ==
    ASSUME Shape, Standing,
           \/ EditSeal
           \/ \E p \in Paths : EditFile(p) \/ EditMeta(p) \/ EditRemove(p) \/ EditCreate(p)
    PROVE  /\ stable' \subseteq stable /\ was' = was /\ UNCHANGED <<dst, pc, op, doing, outcome, report, targets>>
           /\ \A r \in stable' : r \in DOMAIN src' /\ src'[r] = src[r]
           /\ \/ stack' = stack
              \/ \E p \in TreePaths : stack' = Detached(p) /\ \A r \in stable' : ~IsPrefix(p, r)
<1>1. /\ stable' \subseteq stable /\ was' = was
      /\ UNCHANGED <<dst, pc, op, doing, outcome, report, targets>>
    BY DEF EditSeal, EditFile, EditMeta, EditRemove, EditCreate, Touch
<1>2. \A r \in stable : r \in DOMAIN src /\ r \in TreePaths
    BY Untouched
<1>3. ASSUME EditSeal
      PROVE  stack' = stack /\ src' = src
    BY <1>3 DEF EditSeal
<1>4. ASSUME NEW p \in Paths, EditFile(p) \/ EditMeta(p)
      PROVE  stack' = stack /\ \A r \in stable' : r \in DOMAIN src' /\ src'[r] = src[r]
    <2>1. stable' = stable \ {p} /\ stack' = stack
        BY <1>4 DEF EditFile, EditMeta, Touch
    <2>2. DOMAIN src' = DOMAIN src
        BY <1>4, EditFileDoes, EditMetaDoes
    <2>3. \A r \in DOMAIN src : r # p => src'[r] = src[r]
        BY <1>4 DEF EditFile, EditMeta
    <2>. QED  BY <1>2, <2>1, <2>2, <2>3
<1>5. ASSUME NEW p \in Paths, EditRemove(p) \/ EditCreate(p)
      PROVE  /\ \A r \in stable' : r \in DOMAIN src' /\ src'[r] = src[r]
             /\ p \in TreePaths /\ stack' = Detached(p) /\ \A r \in stable' : ~IsPrefix(p, r)
    <2>1. stable' = stable \ ({p} \union Below(src, p)) /\ stack' = Detached(p)
        BY <1>5 DEF EditRemove, EditCreate, Touch
    <2>2. Apart(src, src', {p}) /\ p \in TreePaths
        BY <1>5, EditReplaces
    <2>3. DOMAIN src \subseteq AllPaths
        BY DEF Shape, TreesOK, IsTree, AllPaths, TreePaths
    <2>4. \A r \in stable' : ~IsPrefix(p, r)
        BY <1>2, <2>1, <2>2, <2>3, AboveBelow
    <2>. QED  BY <1>2, <2>1, <2>2, <2>4 DEF Apart
<1>. QED  BY <1>1, <1>2, <1>3, <1>4, <1>5

\* The owner's edits are felt by what they touch alone.
LEMMA SteadyEdits ==
    ASSUME Shape, Steady, Active,
           \/ EditSeal
           \/ \E p \in Paths : EditFile(p) \/ EditMeta(p) \/ EditRemove(p) \/ EditCreate(p)
    PROVE  Standing' /\ OpenSteady' /\ DoingSteady' /\ SkipsSteady'
<1>1. Standing /\ OpenSteady /\ DoingSteady /\ SkipsSteady
    BY DEF Steady
<1>2. /\ stable' \subseteq stable /\ was' = was /\ UNCHANGED <<dst, pc, op, doing, outcome, report, targets>>
      /\ \A r \in stable' : r \in DOMAIN src' /\ src'[r] = src[r]
      /\ \/ stack' = stack
         \/ \E p \in TreePaths : stack' = Detached(p) /\ \A r \in stable' : ~IsPrefix(p, r)
    BY <1>1, EditsTouch
<1>3. Standing'
    BY <1>1, <1>2 DEF Standing
<1>4. DoingSteady'
    BY <1>1, <1>2 DEF DoingSteady
<1>5. SkipsSteady'
    BY <1>1, <1>2 DEF SkipsSteady, report
<1>6. OpenSteady'
    <2>1. CASE stack' = stack
        BY <1>1, <1>2, <2>1 DEF OpenSteady
    <2>2. ASSUME NEW p \in TreePaths, stack' = Detached(p), \A r \in stable' : ~IsPrefix(p, r)
          PROVE  OpenSteady'
        <3>1. stack \in Seq(FrameType) /\ Len(stack) \in Nat /\ DOMAIN stack = 1..Len(stack)
            BY StackLen DEF Shape, StackOK, WalkOK
        <3>2. \A i \in 1..Len(stack) : stack[i] \in FrameType
            BY <3>1, ElementOfSeq
        <3>3. Len(stack') = Len(stack) /\ DOMAIN stack' = 1..Len(stack)
            BY <2>2, <3>1 DEF Detached
        <3>4. ASSUME NEW i \in 1..Len(stack)
              PROVE  /\ stack'[i].at = stack[i].at /\ stack'[i].meta = stack[i].meta
                     /\ stack'[i].gone <=> stack[i].gone \/ IsPrefix(p, stack[i].at)
            BY <2>2, <3>1, <3>2 DEF Detached, FrameType
        <3>5. ASSUME NEW i \in 1..Len(stack), NEW r \in stable', IsPrefix(stack[i].at, r)
              PROVE  ~IsPrefix(p, stack[i].at)
            <4>1. r \in TreePaths
                BY <1>1, <1>2, Untouched
            <4>2. stack[i].at \in TreePaths
                BY <3>2 DEF FrameType
            <4>. QED  BY <2>2, <3>5, <4>1, <4>2, PrefixOrder DEF TreePaths
        <3>. QED  BY <1>1, <1>2, <3>3, <3>4, <3>5 DEF OpenSteady
    <2>. QED  BY <1>2, <2>1, <2>2
<1>. QED  BY <1>3, <1>4, <1>5, <1>6

\* So the untouched stands, whatever happens beside it.
LEMMA SteadyNext == Shape /\ Steady /\ [Next]_vars => Steady'
<1>. SUFFICES ASSUME Shape, Steady, [Next]_vars, Active'
              PROVE  Standing' /\ OpenSteady' /\ DoingSteady' /\ SkipsSteady'
    BY DEF Steady
<1>1. CASE StartSync \/ StartCopy
    BY <1>1, SteadyBegins
<1>2. CASE WalkStep
    <2>1. CASE Active
        BY <1>2, <2>1, SteadyWalks
    <2>2. CASE ~Active
        BY <1>2, <2>2 DEF WalkStep, Active
    <2>. QED  BY <2>1, <2>2
<1>3. CASE \/ EditSeal
           \/ \E p \in Paths : EditFile(p) \/ EditMeta(p) \/ EditRemove(p) \/ EditCreate(p)
    <2>1. pc' = pc
        BY <1>3 DEF EditSeal, EditFile, EditMeta, EditRemove, EditCreate, Touch
    <2>. QED  BY <1>3, <2>1, SteadyEdits DEF Active
<1>4. CASE UNCHANGED vars
    BY <1>4 DEF vars, trees, walk, report, history, Steady, Active,
                Standing, OpenSteady, DoingSteady, SkipsSteady
<1>. QED  BY <1>1, <1>2, <1>3, <1>4, WalkSteps DEF Active

-----------------------------------------------------------------------------
(* What a walk has carried over, and what it has still to come to. *)

Kept(p) == p \in DOMAIN dst /\ SameAs(dst[p], was[p])

\* Special files are no loss to a transfer, unless the source goes afterwards.
Owed(p) == was[p].kind # "special" \/ skipped = {}

\* A walk has an entry before it when it has left a directory above the entry,
\* or the entry, to do, or is in the directory that it is.
Way(st, pass, p) ==
    \E i \in 1..Len(st) :
        \/ st[i].at = p
        \/ \E q \in st[i].names \union (IF pass = "mirror" THEN st[i].subs ELSE {}) : IsPrefix(q, p)

Ahead(p) == Way(stack, pc, p) \/ (doing # Nothing /\ doing.path = p)
Clean    == failed = {} /\ ~blind

Carries ==
    /\ pc \in {"mirror", "copy"} /\ Clean => \A p \in stable : Owed(p) => Kept(p) \/ Ahead(p)
    /\ pc = "prune" /\ Clean => \A p \in stable : was[p].kind # "special" => Kept(p)
    /\ pc = "clear" => \A p \in stable : Kept(p)
    /\ pc = "copy" => ~blind
    /\ SuccessCarries

\* An entry is the same as itself; of a file all but its links counts.
LEMMA SameIs ==
    /\ \A e \in Entries : SameAs(e, e)
    /\ \A e, d \in Entries : e.kind = "file" /\ d.kind = "file" /\ e.data = d.data
                             /\ e.time = d.time /\ e.meta = d.meta => SameAs(d, e)
<1>1. ASSUME NEW e \in Entries
      PROVE  SameAs(e, e)
    <2>1. CASE e.kind = "file"
        <3>1. e \in [kind : {"file"}, data : Contents \union {"partial"},
                     time : Nat, meta : Metadata, twin : BOOLEAN]
            BY <2>1, EntryKinds
        <3>2. [e EXCEPT !.twin = e.twin] = e
            BY <3>1
        <3>. QED  BY <3>2 DEF SameAs
    <2>2. CASE e.kind # "file"
        BY <2>2 DEF SameAs
    <2>. QED  BY <2>1, <2>2
<1>2. ASSUME NEW e \in Entries, NEW d \in Entries, e.kind = "file", d.kind = "file",
             e.data = d.data, e.time = d.time, e.meta = d.meta
      PROVE  SameAs(d, e)
    <2>1. /\ e \in [kind : {"file"}, data : Contents \union {"partial"},
                    time : Nat, meta : Metadata, twin : BOOLEAN]
          /\ d \in [kind : {"file"}, data : Contents \union {"partial"},
                    time : Nat, meta : Metadata, twin : BOOLEAN]
        BY <1>2, EntryKinds
    <2>2. [d EXCEPT !.twin = e.twin] = e
        BY <1>2, <2>1
    <2>. QED  BY <1>2, <2>2 DEF SameAs
<1>. QED  BY <1>1, <1>2

\* What a walk has before it after a step, by what the step did to the stack.
LEMMA WayKinds ==
    ASSUME Shape, stack # <<>>, NEW pass, NEW r, Way(stack, pass, r)
    PROVE  /\ \A p : Way(LessName(p), pass, r) \/ IsPrefix(p, r)
           /\ \A p : Way(LessSub(p), pass, r) \/ IsPrefix(p, r)
           /\ \A p \in Top.names : pass = "mirror" => Way(Aside(p), pass, r)
           /\ Top.names = {} /\ (pass = "mirror" => Top.subs = {}) =>
                Way(Front(stack), pass, r) \/ r = Top.at
<1>1. WalkOK(stack, src)
    BY DEF Shape, StackOK
<1>2. Len(stack) \in Nat \ {0} /\ Top = stack[Len(stack)]
    BY <1>1, TopIs DEF Top
<1>3. PICK i \in 1..Len(stack) :
          \/ stack[i].at = r
          \/ \E q \in stack[i].names \union (IF pass = "mirror" THEN stack[i].subs ELSE {}) : IsPrefix(q, r)
    BY DEF Way
<1>4. ASSUME NEW v, Len(v) = Len(stack), Last(v).at = Top.at, NEW p,
             \A j \in 1..Len(stack) : v[j] = IF j = Len(stack) THEN Last(v) ELSE stack[j],
             Top.names \ {p} \subseteq Last(v).names, Top.subs \ {p} \subseteq Last(v).subs
      PROVE  Way(v, pass, r) \/ IsPrefix(p, r)
    <2>1. CASE i = Len(stack)
        <3>1. v[i] = Last(v)
            BY <1>4, <2>1
        <3>. QED  BY <1>2, <1>3, <1>4, <2>1, <3>1 DEF Way
    <2>2. CASE i # Len(stack)
        <3>1. v[i] = stack[i]
            BY <1>4, <2>2
        <3>. QED  BY <1>3, <1>4, <3>1 DEF Way
    <2>. QED  BY <2>1, <2>2
<1>5. \A p : Way(LessName(p), pass, r) \/ IsPrefix(p, r)
    <2>. SUFFICES ASSUME NEW p
                  PROVE  Way(LessName(p), pass, r) \/ IsPrefix(p, r)
        OBVIOUS
    <2>1. /\ Len(LessName(p)) = Len(stack) /\ Last(LessName(p)).at = Top.at
          /\ Last(LessName(p)).names = Top.names \ {p} /\ Last(LessName(p)).subs = Top.subs
          /\ \A j \in 1..Len(stack) :
               LessName(p)[j] = IF j = Len(stack) THEN Last(LessName(p)) ELSE stack[j]
        BY <1>1, LessNameIs
    <2>2. Top.names \ {p} \subseteq Last(LessName(p)).names /\ Top.subs \ {p} \subseteq Last(LessName(p)).subs
        BY <2>1
    <2>. QED  BY <1>4, <2>1, <2>2
<1>6. \A p : Way(LessSub(p), pass, r) \/ IsPrefix(p, r)
    <2>. SUFFICES ASSUME NEW p
                  PROVE  Way(LessSub(p), pass, r) \/ IsPrefix(p, r)
        OBVIOUS
    <2>1. /\ Len(LessSub(p)) = Len(stack) /\ Last(LessSub(p)).at = Top.at
          /\ Last(LessSub(p)).names = Top.names /\ Last(LessSub(p)).subs = Top.subs \ {p}
          /\ \A j \in 1..Len(stack) :
               LessSub(p)[j] = IF j = Len(stack) THEN Last(LessSub(p)) ELSE stack[j]
        BY <1>1, LessSubIs
    <2>2. Top.names \ {p} \subseteq Last(LessSub(p)).names /\ Top.subs \ {p} \subseteq Last(LessSub(p)).subs
        BY <2>1
    <2>. QED  BY <1>4, <2>1, <2>2
<1>7. ASSUME NEW p \in Top.names, pass = "mirror"
      PROVE  Way(Aside(p), pass, r)
    <2>1. /\ Len(Aside(p)) = Len(stack) /\ Last(Aside(p)).at = Top.at
          /\ Last(Aside(p)).names = Top.names \ {p} /\ Last(Aside(p)).subs = Top.subs \union {p}
          /\ \A j \in 1..Len(stack) :
               Aside(p)[j] = IF j = Len(stack) THEN Last(Aside(p)) ELSE stack[j]
        BY <1>1, AsideIs
    <2>2. Top.names \union Top.subs \subseteq Last(Aside(p)).names \union Last(Aside(p)).subs
        BY <2>1
    <2>3. CASE i = Len(stack)
        <3>1. Aside(p)[i] = Last(Aside(p))
            BY <2>1, <2>3
        <3>. QED  BY <1>2, <1>3, <1>7, <2>1, <2>2, <2>3, <3>1 DEF Way
    <2>4. CASE i # Len(stack)
        <3>1. Aside(p)[i] = stack[i]
            BY <2>1, <2>4
        <3>. QED  BY <1>3, <2>1, <3>1 DEF Way
    <2>. QED  BY <2>3, <2>4
<1>8. ASSUME Top.names = {}, pass = "mirror" => Top.subs = {}
      PROVE  Way(Front(stack), pass, r) \/ r = Top.at
    <2>1. Len(Front(stack)) = Len(stack) - 1 /\ \A j \in 1..Len(stack) - 1 : Front(stack)[j] = stack[j]
        BY <1>1, WalkPop
    <2>2. CASE i = Len(stack)
        BY <1>2, <1>3, <1>8, <2>2
    <2>3. CASE i # Len(stack)
        <3>1. i \in 1..Len(Front(stack)) /\ Front(stack)[i] = stack[i]
            BY <1>2, <2>1, <2>3
        <3>. QED  BY <1>3, <3>1 DEF Way
    <2>. QED  BY <2>2, <2>3
<1>. QED  BY <1>5, <1>6, <1>7, <1>8

\* A directory that is listed has all that is in it before the walk.
LEMMA WayDown ==
    ASSUME Shape, Standing, NEW v, WalkOK(v, src), v # <<>>, Last(v).at = Top.at,
           NEW p \in AllPaths, Front(p) = Top.at, IsDir(src, p), NEW pass
    PROVE  \A r \in stable : Way(v, pass, r) \/ IsPrefix(p, r) => Way(Append(v, Listed(p)), pass, r)
<1>1. p \in TreePaths /\ TreesOK /\ IsTree(src)
    BY DEF AllPaths, Shape, TreesOK
<1>2. /\ Listed(p) \in FrameType /\ Listed(p).at = p
      /\ Listed(p).names = Kids(src, p) /\ Listed(p).subs = {}
    BY <1>1, FramesAre
<1>3. /\ Len(Append(v, Listed(p))) = Len(v) + 1
      /\ \A i \in 1..Len(v) + 1 : Append(v, Listed(p))[i] = IF i = Len(v) + 1 THEN Listed(p) ELSE v[i]
    BY <1>2, OpensDown
<1>4. Len(v) \in Nat
    BY TopIs
<1>. DEFINE u == Append(v, Listed(p))
<1>5. /\ \A i \in 1..Len(v) : i \in 1..Len(u) /\ u[i] = v[i]
      /\ Len(u) \in 1..Len(u) /\ u[Len(u)] = Listed(p)
    BY <1>3, <1>4
<1>. HIDE DEF u
<1>6. ASSUME NEW r \in stable, Way(v, pass, r)
      PROVE  Way(u, pass, r)
    <2>1. PICK i \in 1..Len(v) :
              \/ v[i].at = r
              \/ \E q \in v[i].names \union (IF pass = "mirror" THEN v[i].subs ELSE {}) : IsPrefix(q, r)
        BY <1>6 DEF Way
    <2>. QED  BY <1>5, <2>1 DEF Way
<1>7. ASSUME NEW r \in stable, IsPrefix(p, r)
      PROVE  Way(u, pass, r)
    <2>1. CASE r = p
        BY <1>2, <1>5, <2>1 DEF Way
    <2>2. CASE r # p
        <3>1. r \in TreePaths
            BY Untouched
        <3>2. PICK q \in TreePaths : q # <<>> /\ Front(q) = p /\ IsPrefix(q, r)
            BY <1>1, <1>7, <2>2, <3>1, NextLevel DEF IsStrictPrefix, TreePaths
        <3>3. q \in DOMAIN src
            BY <3>2, Untouched DEF AllPaths
        <3>4. q \in Kids(src, p)
            BY <1>1, <3>2, <3>3, KidsAre
        <3>. QED  BY <1>2, <1>5, <3>2, <3>4 DEF Way
    <2>. QED  BY <2>1, <2>2
<1>. QED  BY <1>6, <1>7 DEF u

\* What is noted with success still in reach is a special file, passed over
\* before: nothing that is owed is at or below it.
LEMMA NotedSpares ==
    ASSUME Shape, Standing, SkipsSteady, UNCHANGED was, NEW p, NEW r \in stable, Clean', Owed(r)'
    PROVE  /\ Noted(p) => ~IsPrefix(p, r)
           /\ Found("special", p) /\ skipped' = skipped \union {p} => ~IsPrefix(p, r)
<1>1. ASSUME Noted(p), IsPrefix(p, r)
      PROVE  FALSE
    <2>1. failed' = {} /\ p \in skipped' /\ p \in skipped \ failed
        BY <1>1 DEF Noted, Note, Clean
    <2>2. was[r].kind = "special"
        BY <1>1, <2>1 DEF SkipsSteady
    <2>. QED  BY <2>1, <2>2 DEF Owed
<1>2. ASSUME Found("special", p), skipped' = skipped \union {p}, IsPrefix(p, r)
      PROVE  FALSE
    <2>1. p \in DOMAIN src /\ src[p].kind = "special"
        BY <1>2 DEF Found, There
    <2>2. p \in TreePaths /\ ~IsDir(src, p)
        BY <2>1 DEF Shape, TreesOK, IsTree, TreePaths, IsDir, IsA
    <2>3. r = p /\ src[r] = was[r]
        BY <1>2, <2>2, Untouched
    <2>. QED  BY <1>2, <2>1, <2>3 DEF Owed
<1>. QED  BY <1>1, <1>2

\* What has been carried over stays where the destination does.
LEMMA KeptStays ==
    ASSUME UNCHANGED was, NEW P, Apart(dst, dst', P), NEW r \in TreePaths,
           \A p \in P : ~IsPrefix(p, r), Kept(r)
    PROVE  Kept(r)'
BY DEF Apart, Kept

\* An entry of the directory on top is done; what is at or below it is kept, or
\* before the walk, or not owed.
LEMMA CarryEntry ==
    ASSUME Shape, Standing, SkipsSteady, UNCHANGED was, NEW pass \in {"mirror", "copy"}, NEW p,
           Entry(pass, p), pc' = pc, Apart(dst, dst', {p}),
           \/ stack' = LessName(p)
           \/ stack' = Aside(p) /\ pass = "mirror"
           \/ IsDir(src, p) /\ stack' = Append(LessName(p), Listed(p)),
           NEW r \in stable, Kept(r) \/ Ahead(r),
           IsPrefix(p, r) => Kept(r)' \/ Ahead(r)'
    PROVE  Kept(r)' \/ Ahead(r)'
<1>1. stack # <<>> /\ pc = pass /\ doing = Nothing /\ p \in AllPaths /\ Front(p) = Top.at /\ p \in Top.names
    BY EntryIs
<1>2. r \in TreePaths
    BY Untouched
<1>3. SUFFICES ASSUME ~IsPrefix(p, r)
               PROVE  Kept(r)' \/ Ahead(r)'
    OBVIOUS
<1>4. CASE Kept(r)
    BY <1>2, <1>3, <1>4, KeptStays
<1>5. CASE Way(stack, pass, r)
    <2>1. Way(LessName(p), pass, r)
        BY <1>1, <1>3, <1>5, WayKinds
    <2>2. CASE stack' = LessName(p)
        BY <1>1, <2>1, <2>2 DEF Ahead
    <2>3. CASE stack' = Aside(p) /\ pass = "mirror"
        BY <1>1, <1>5, <2>3, WayKinds DEF Ahead
    <2>4. CASE IsDir(src, p) /\ stack' = Append(LessName(p), Listed(p))
        <3>1. WalkOK(LessName(p), src) /\ LessName(p) # <<>> /\ Last(LessName(p)).at = Top.at
            BY <1>1, LessNameIs DEF Shape, StackOK
        <3>2. Way(Append(LessName(p), Listed(p)), pass, r)
            BY <1>1, <2>1, <2>4, <3>1, WayDown
        <3>. QED  BY <1>1, <2>4, <3>2 DEF Ahead
    <2>. QED  BY <2>2, <2>3, <2>4
<1>. QED  BY <1>1, <1>4, <1>5 DEF Ahead

\* Where there is no directory to go down into, only the entry itself is meant.
LEMMA OnlyItself ==
    ASSUME Shape, Standing, NEW p, There(p), src[p].kind # "dir", NEW r \in stable, IsPrefix(p, r)
    PROVE  r = p /\ src[p] = was[r] /\ src[p] \in Entries
<1>1. p \in DOMAIN src
    BY DEF There
<1>2. p \in TreePaths /\ ~IsDir(src, p)
    BY <1>1 DEF Shape, TreesOK, IsTree, TreePaths, IsDir, IsA
<1>. QED  BY <1>2, Untouched

\* An entry that sync is done with is kept, or it is not owed.
LEMMA CarryMirror ==
    ASSUME Shape, Steady, NEW p,
           MirrorGone(p) \/ MirrorSpecial(p) \/ MirrorDir(p) \/ MirrorLink(p) \/ MirrorFile(p),
           Clean', NEW r \in stable, Owed(r)', Kept(r) \/ Ahead(r)
    PROVE  Kept(r)' \/ Ahead(r)'
<1>1. Entry("mirror", p) /\ pc' = pc /\ UNCHANGED <<src, was, stable>>
    BY DEF MirrorGone, MirrorSpecial, MirrorDir, MirrorLink, MirrorFile, Stepped, history
<1>2. /\ stack # <<>> /\ pc = "mirror" /\ p \in Top.names /\ p \in TreePaths /\ doing = Nothing
      /\ WalkOK(stack, src)
    BY <1>1, EntryIs DEF Shape, StackOK
<1>3. Standing /\ SkipsSteady
    BY <1>2 DEF Steady, Active
<1>4. stack' = LessName(p) \/ stack' = Aside(p)
    BY DEF MirrorGone, MirrorSpecial, MirrorDir, MirrorLink, MirrorFile, Aside
<1>5. Apart(dst, dst', {p})
    BY <1>2, MirrorDirDoes, MirrorLinkDoes, ApartSteps DEF MirrorGone, MirrorSpecial, MirrorFile
<1>6. ASSUME IsPrefix(p, r)
      PROVE  Kept(r)' \/ Ahead(r)'
    <2>1. ~Noted(p) /\ ~(Found("special", p) /\ skipped' = skipped \union {p})
        BY <1>1, <1>3, <1>6, NotedSpares
    <2>2. CASE MirrorGone(p) \/ MirrorSpecial(p)
        BY <2>1, <2>2 DEF MirrorGone, MirrorSpecial
    <2>3. CASE MirrorDir(p)
        <3>1. stack' = Aside(p)
            BY <2>1, <2>3 DEF MirrorDir, Aside
        <3>2. /\ Len(Aside(p)) = Len(stack) /\ p \in Last(Aside(p)).subs
              /\ Aside(p)[Len(stack)] = Last(Aside(p)) /\ Len(stack) \in 1..Len(stack)
            BY <1>2, AsideIs, TopIs
        <3>3. Way(Aside(p), "mirror", r)
            BY <1>6, <3>2 DEF Way
        <3>. QED  BY <1>1, <1>2, <3>1, <3>3 DEF Ahead
    <2>4. CASE MirrorLink(p)
        <3>1. r = p /\ src[p] = was[r] /\ src[p] \in Entries
            BY <1>3, <1>6, <2>4, OnlyItself DEF MirrorLink, Found
        <3>2. p \in DOMAIN dst' /\ dst'[p] = src[p]
            BY <2>1, <2>4 DEF MirrorLink, Put
        <3>. QED  BY <1>1, <3>1, <3>2, SameIs DEF Kept
    <2>5. CASE MirrorFile(p)
        <3>1. r = p
            BY <1>3, <1>6, <2>5, OnlyItself DEF MirrorFile, Found
        <3>2. doing'.path = p /\ doing'.stage = "check"
            BY <2>5 DEF MirrorFile, At
        <3>. QED  BY <3>1, <3>2 DEF Ahead, Nothing
    <2>. QED  BY <2>2, <2>3, <2>4, <2>5
<1>7. "mirror" \in {"mirror", "copy"}
    OBVIOUS
<1>. QED  BY <1>1, <1>3, <1>4, <1>5, <1>6, <1>7, CarryEntry

\* The same of copy.
LEMMA CarryCopy ==
    ASSUME Shape, Steady, NEW p,
           CopyGone(p) \/ CopySpecial(p) \/ CopyDir(p) \/ CopyLink(p) \/ CopyFile(p),
           Clean', NEW r \in stable, Owed(r)', Kept(r) \/ Ahead(r)
    PROVE  Kept(r)' \/ Ahead(r)'
<1>1. Entry("copy", p) /\ pc' = pc /\ UNCHANGED <<src, was, stable>>
    BY DEF CopyGone, CopySpecial, CopyDir, CopyLink, CopyFile, Stepped, history
<1>2. /\ stack # <<>> /\ pc = "copy" /\ p \in Top.names /\ p \in TreePaths /\ doing = Nothing
      /\ p \in AllPaths /\ Front(p) = Top.at
    BY <1>1, EntryIs
<1>3. Standing /\ SkipsSteady
    BY <1>2 DEF Steady, Active
<1>4. stack' = LessName(p) \/ (IsDir(src, p) /\ stack' = Append(LessName(p), Listed(p)))
    BY DEF CopyGone, CopySpecial, CopyDir, CopyLink, CopyFile, CanOpen
<1>5. Apart(dst, dst', {p})
    BY <1>2, CopyDirDoes, CopyLinkDoes, ApartSteps DEF CopyGone, CopySpecial, CopyFile
<1>6. ASSUME IsPrefix(p, r)
      PROVE  Kept(r)' \/ Ahead(r)'
    <2>1. ~Noted(p) /\ ~(Found("special", p) /\ skipped' = skipped \union {p})
        BY <1>1, <1>3, <1>6, NotedSpares
    <2>2. CASE CopyGone(p) \/ CopySpecial(p)
        BY <2>1, <2>2 DEF CopyGone, CopySpecial
    <2>3. CASE CopyDir(p)
        <3>1. IsDir(src, p) /\ stack' = Append(LessName(p), Listed(p))
            BY <2>1, <2>3 DEF CopyDir, CanOpen
        <3>2. WalkOK(LessName(p), src) /\ LessName(p) # <<>> /\ Last(LessName(p)).at = Top.at
            BY <1>2, LessNameIs DEF Shape, StackOK
        <3>3. Way(Append(LessName(p), Listed(p)), "copy", r)
            BY <1>2, <1>3, <1>6, <3>1, <3>2, WayDown
        <3>. QED  BY <1>1, <1>2, <3>1, <3>3 DEF Ahead
    <2>4. CASE CopyLink(p)
        <3>1. r = p /\ src[p] = was[r] /\ src[p] \in Entries
            BY <1>3, <1>6, <2>4, OnlyItself DEF CopyLink, Found
        <3>2. p \in DOMAIN dst' /\ dst'[p] = src[p]
            BY <2>1, <2>4 DEF CopyLink, Put
        <3>. QED  BY <1>1, <3>1, <3>2, SameIs DEF Kept
    <2>5. CASE CopyFile(p)
        <3>1. r = p
            BY <1>3, <1>6, <2>5, OnlyItself DEF CopyFile, Found
        <3>2. doing'.path = p /\ doing'.stage = "open"
            BY <2>5 DEF CopyFile, At
        <3>. QED  BY <3>1, <3>2 DEF Ahead, Nothing
    <2>. QED  BY <2>2, <2>3, <2>4, <2>5
<1>7. "copy" \in {"mirror", "copy"}
    OBVIOUS
<1>. QED  BY <1>1, <1>3, <1>4, <1>5, <1>6, <1>7, CarryEntry

\* A level that sync goes down to is before it.
LEMMA CarryDown ==
    ASSUME Shape, Steady, MirrorDown, Clean', NEW r \in stable, Owed(r)', Kept(r) \/ Ahead(r)
    PROVE  Kept(r)' \/ Ahead(r)'
<1>1. stack # <<>> /\ pc = "mirror" /\ pc' = pc /\ doing = Nothing /\ UNCHANGED <<src, dst, was, stable>>
    BY DEF MirrorDown, Stepped, history
<1>2. Standing /\ SkipsSteady
    BY <1>1 DEF Steady, Active
<1>3. CASE Kept(r)
    BY <1>1, <1>3 DEF Kept
<1>4. CASE Way(stack, "mirror", r)
    <2>1. PICK p \in Top.subs :
              \/ stack' = LessSub(p) /\ Noted(p)
              \/ IsDir(src, p) /\ stack' = Append(LessSub(p), Listed(p))
        BY DEF MirrorDown, CanOpen
    <2>2. Way(LessSub(p), "mirror", r) \/ IsPrefix(p, r)
        BY <1>1, <1>4, WayKinds
    <2>3. CASE stack' = LessSub(p) /\ Noted(p)
        <3>1. ~IsPrefix(p, r)
            BY <1>1, <1>2, <2>3, NotedSpares
        <3>. QED  BY <1>1, <2>2, <2>3, <3>1 DEF Ahead
    <2>4. CASE IsDir(src, p) /\ stack' = Append(LessSub(p), Listed(p))
        <3>1. p \in AllPaths /\ Front(p) = Top.at
            BY <1>1, SubIs
        <3>2. WalkOK(LessSub(p), src) /\ LessSub(p) # <<>> /\ Last(LessSub(p)).at = Top.at
            BY <1>1, LessSubIs DEF Shape, StackOK
        <3>3. Way(Append(LessSub(p), Listed(p)), "mirror", r)
            BY <1>2, <2>2, <2>4, <3>1, <3>2, WayDown
        <3>. QED  BY <1>1, <2>4, <3>3 DEF Ahead
    <2>. QED  BY <2>1, <2>3, <2>4
<1>. QED  BY <1>1, <1>3, <1>4 DEF Ahead

\* A directory that is left with nothing before it has the metadata it is to have.
LEMMA CarryUp ==
    ASSUME Shape, Steady, MirrorUp \/ CopyUp, NEW r \in stable, Kept(r) \/ Ahead(r)
    PROVE  Kept(r)' \/ Ahead(r)'
<1>1. /\ stack # <<>> /\ pc \in {"mirror", "copy"} /\ pc' = pc /\ doing = Nothing
      /\ UNCHANGED <<src, was, stable>>
      /\ Top.names = {} /\ (pc = "mirror" => Top.subs = {}) /\ stack' = Front(stack)
    BY DEF MirrorUp, CopyUp, Stepped, history
<1>2. Standing /\ OpenSteady
    BY <1>1 DEF Steady, Active
<1>3. Len(stack) \in 1..Len(stack) /\ Top = stack[Len(stack)]
    BY <1>1, TopIs DEF Shape, StackOK, Top
<1>4. /\ r \in AllPaths /\ src[r] = was[r] /\ src[r] \in Entries
    BY <1>2, Untouched
<1>5. PICK m \in Metadata :
          dst' = Sealed(Top.at, m) /\ m = IF pc = "mirror" /\ Top.gone THEN m
                                          ELSE IF pc = "mirror" THEN Opened(Top.at).meta ELSE Top.meta
    <2>1. CASE MirrorUp
        BY <2>1, MirrorUpDoes DEF MirrorUp
    <2>2. CASE CopyUp
        <3>1. Top.meta \in Metadata
            BY <1>1, TopIs DEF Shape, StackOK, Top, FrameType
        <3>. QED  BY <2>2, <3>1 DEF CopyUp
    <2>. QED  BY <2>1, <2>2
<1>6. /\ DOMAIN dst' = DOMAIN dst
      /\ \A q \in DOMAIN dst : dst'[q] = IF q = Top.at THEN [kind |-> "dir", meta |-> m] ELSE dst[q]
    BY <1>1, <1>5, LeavesUp
<1>7. CASE r = Top.at
    <2>1. ~Top.gone /\ was[r].kind = "dir" /\ (pc = "copy" => Top.meta = was[r].meta)
        <3>1. IsPrefix(Top.at, r)
            BY <1>4, <1>7, PrefixOrder DEF AllPaths, TreePaths
        <3>. QED  BY <1>2, <1>3, <1>7, <3>1 DEF OpenSteady
    <2>2. m = was[r].meta
        <3>1. Opened(r).meta = src[r].meta
            BY <1>4 DEF Opened, AllPaths
        <3>. QED  BY <1>1, <1>4, <1>5, <1>7, <2>1, <3>1
    <2>3. was[r] = [kind |-> "dir", meta |-> m]
        <3>1. was[r] \in [kind : {"dir"}, meta : Metadata]
            BY <1>4, <2>1, EntryKinds
        <3>. QED  BY <2>2, <3>1
    <2>4. r \in DOMAIN dst
        <3>1. IsDir(dst, Top.at)
            BY <1>1, <1>3 DEF Shape, StackOK, OpenIn
        <3>. QED  BY <1>4, <1>7, <3>1 DEF IsDir, IsA, AllPaths
    <2>5. dst'[r] = was[r] /\ r \in DOMAIN dst'
        BY <1>6, <1>7, <2>3, <2>4
    <2>. QED  BY <1>1, <1>4, <2>5, SameIs DEF Kept
<1>8. CASE r # Top.at
    <2>1. CASE Kept(r)
        BY <1>1, <1>6, <1>8, <2>1 DEF Kept
    <2>2. CASE Way(stack, pc, r)
        BY <1>1, <1>8, <2>2, WayKinds DEF Ahead
    <2>. QED  BY <1>1, <2>1, <2>2 DEF Ahead
<1>. QED  BY <1>7, <1>8

\* What can be read of an untouched file is its content.
LEMMA CurrentIs ==
    ASSUME Shape, Steady, doing.stage # "none", doing.path \in stable
    PROVE  /\ Current = was[doing.path].data /\ Standing /\ doing.st = was[doing.path]
           /\ was[doing.path].kind = "file" /\ src[doing.path] = was[doing.path]
           /\ doing.path \in DOMAIN src /\ src[doing.path] \in Entries
           /\ doing.stage = "write" => doing.data = was[doing.path].data
<1>. DEFINE p == doing.path
<1>1. /\ doing # Nothing /\ stack # <<>> /\ pc \in {"mirror", "copy"}
      /\ p \in AllPaths /\ Front(p) = Top.at /\ doing.st.kind = "file"
    BY DoingIs
<1>2. Standing /\ OpenSteady /\ DoingSteady
    BY <1>1 DEF Steady, Active
<1>3. doing.st = was[p] /\ (doing.stage = "write" => doing.data = was[p].data)
    BY <1>1, <1>2 DEF DoingSteady
<1>4. p \in DOMAIN src /\ src[p] = was[p] /\ src[p] \in Entries
    BY <1>2, Untouched
<1>5. WalkOK(stack, src)
    BY DEF Shape, StackOK
<1>6. Len(stack) \in 1..Len(stack) /\ Top = stack[Len(stack)]
    BY <1>1, <1>5, TopIs DEF Top
<1>7. IsPrefix(Top.at, p)
    BY <1>1, <1>5, <1>6, TopIs DEF Top
<1>8. ~Top.gone
    BY <1>2, <1>6, <1>7 DEF OpenSteady
<1>9. Current = src[p].data
    BY <1>1, <1>3, <1>4, <1>8 DEF Current, Found, There
<1>. QED  BY <1>1, <1>2, <1>3, <1>4, <1>9

\* A file of the destination that is taken for up to date is.
LEMMA CarryCheck ==
    ASSUME Shape, Steady, QuickInv, Check, NEW r \in stable, Kept(r) \/ Ahead(r)
    PROVE  Kept(r)' \/ Ahead(r)'
<1>. DEFINE p == doing.path
<1>1. doing.stage = "check" /\ UNCHANGED <<stack, pc, src, was, stable>>
    BY DEF Check, Stepped, history
<1>2. /\ p \in AllPaths /\ p \in TreePaths /\ doing # Nothing /\ doing \in WorkType
      /\ pc \in {"mirror", "copy"}
    BY <1>1, DoingIs
<1>3. CASE doing' = [doing EXCEPT !.stage = "open"] /\ UNCHANGED dst
    <2>1. doing'.path = p /\ doing' # Nothing
        BY <1>2, <1>3 DEF WorkType, Nothing
    <2>. QED  BY <1>1, <1>3, <2>1 DEF Kept, Ahead
<1>4. CASE doing' = Nothing /\ ~Rewrites /\ dst' = Refreshed
    <2>1. IsA("file", dst, p)
        BY <1>4 DEF Rewrites, NeedsUpdate
    <2>2. /\ DOMAIN dst' = DOMAIN dst /\ \A q \in DOMAIN dst : q # p => dst'[q] = dst[q]
          /\ dst'[p] = [dst[p] EXCEPT !.meta = doing.st.meta, !.time = doing.st.time]
        BY <1>4, <2>1 DEF Refreshed, IsA
    <2>3. CASE r = p
        <3>1. /\ Current = was[p].data /\ Standing /\ doing.st = was[p] /\ was[p].kind = "file"
              /\ src[p] = was[p] /\ p \in DOMAIN src /\ was[p] \in Entries
            BY <1>1, <2>3, CurrentIs
        <3>2. dst[p].data = was[p].data
            <4>1. CASE op.checksum
                BY <1>4, <3>1, <4>1 DEF Rewrites, NeedsUpdate
            <4>2. CASE ~op.checksum
                <5>1. dst[p].time = src[p].time
                    BY <1>4, <3>1, <4>2 DEF Rewrites, NeedsUpdate
                <5>2. IsA("file", src, p) /\ p \in DOMAIN src \intersect DOMAIN dst
                    BY <2>1, <3>1 DEF IsA
                <5>. QED  BY <2>1, <3>1, <5>1, <5>2 DEF QuickInv, QuickCheckSound
            <4>. QED  BY <4>1, <4>2
        <3>3. dst[p] \in [kind : {"file"}, data : Contents \union {"partial"},
                          time : Nat, meta : Metadata, twin : BOOLEAN] /\ p \in DOMAIN dst
            BY <2>1, EntryKinds DEF Shape, TreesOK, IsTree, IsA
        <3>4. /\ dst'[p].data = was[p].data /\ dst'[p].time = was[p].time
              /\ dst'[p].meta = was[p].meta /\ dst'[p].kind = "file"
            BY <2>2, <3>1, <3>2, <3>3
        <3>5. dst'[p] \in Entries
            BY <2>2, <3>3, CheckDoes DEF IsTree
        <3>6. SameAs(dst'[p], was[p])
            BY <3>1, <3>4, <3>5, SameIs
        <3>. QED  BY <1>1, <2>2, <2>3, <3>3, <3>6 DEF Kept
    <2>4. CASE r # p
        BY <1>1, <2>2, <2>4 DEF Kept, Ahead
    <2>. QED  BY <2>3, <2>4
<1>. QED  BY <1>3, <1>4 DEF Check

\* What is written is what has been read, of a file nobody has touched its own.
LEMMA CarryContent ==
    ASSUME Shape, Steady, CopyOpen \/ CopyWrite \/ CopyWriteFails,
           Clean', NEW r \in stable, Owed(r)', Kept(r) \/ Ahead(r)
    PROVE  Kept(r)' \/ Ahead(r)'
<1>. DEFINE p == doing.path
            n == doing.name
<1>1. doing.stage \in {"open", "write"} /\ UNCHANGED <<stack, pc, src, was, stable>>
    BY DEF CopyOpen, CopyWrite, CopyWriteFails, Stepped, history
<1>2. /\ p \in AllPaths /\ p \in TreePaths /\ doing # Nothing /\ doing \in WorkType
      /\ pc \in {"mirror", "copy"} /\ SourceName(p) /\ n \in {p, TempOf(p)} /\ n \in TreePaths
    BY <1>1, DoingIs
<1>3. Standing /\ SkipsSteady
    BY <1>2 DEF Steady, Active
<1>4. r \in TreePaths /\ SourceName(r) /\ src[r] = was[r] /\ src[r] \in Entries
    BY <1>3, Untouched
<1>5. r # p => r # n
    BY <1>2, <1>4, TempIs
<1>6. ASSUME r # p, \A q \in TreePaths : q # p /\ q # n => (q \in DOMAIN dst => q \in DOMAIN dst' /\ dst'[q] = dst[q])
      PROVE  Kept(r)' \/ Ahead(r)'
    <2>1. CASE Kept(r)
        BY <1>1, <1>4, <1>5, <1>6, <2>1 DEF Kept
    <2>2. CASE Way(stack, pc, r)
        BY <1>1, <2>2 DEF Ahead
    <2>. QED  BY <1>6, <2>1, <2>2 DEF Ahead
<1>7. ASSUME Noted(p)
      PROVE  r # p
    <2>1. ~IsPrefix(p, r)
        BY <1>1, <1>3, <1>7, NotedSpares
    <2>. QED  BY <1>2, <2>1, PrefixOrder DEF TreePaths
<1>8. CASE CopyOpen
    <2>1. dst' = dst \/ dst' = Put(dst, n, Partial)
        BY <1>8, CopyOpenDoes
    <2>2. \A q \in TreePaths : q # p /\ q # n => (q \in DOMAIN dst => q \in DOMAIN dst' /\ dst'[q] = dst[q])
        BY <2>1 DEF Put
    <2>3. CASE Noted(p)
        BY <1>6, <1>7, <2>2, <2>3
    <2>4. CASE doing' = [doing EXCEPT !.stage = "write", !.data = src[p].data]
        <3>1. doing'.path = p /\ doing'.stage = "write"
            BY <1>2, <2>4 DEF WorkType
        <3>2. r = p => Ahead(r)'
            BY <3>1 DEF Ahead, Nothing
        <3>. QED  BY <1>6, <2>2, <3>2
    <2>. QED  BY <1>8, <2>3, <2>4 DEF CopyOpen
<1>9. CASE CopyWriteFails
    <2>1. Noted(p) /\ (dst' = dst \/ dst' = Without(dst, {n}))
        BY <1>9 DEF CopyWriteFails
    <2>2. \A q \in TreePaths : q # p /\ q # n => (q \in DOMAIN dst => q \in DOMAIN dst' /\ dst'[q] = dst[q])
        BY <2>1 DEF Without
    <2>. QED  BY <1>6, <1>7, <2>1, <2>2
<1>10. CASE CopyWrite
    <2>. DEFINE t == IF n = p THEN dst ELSE Without(dst, {n})
    <2>1. PICK d \in {doing.data, Current} \ {"none"} : dst' = Put(t, p, Written(d))
        BY <1>10 DEF CopyWrite
    <2>2. \A q \in TreePaths : q # p /\ q # n => (q \in DOMAIN dst => q \in DOMAIN dst' /\ dst'[q] = dst[q])
        BY <2>1 DEF Without, Put
    <2>3. p \in DOMAIN dst' /\ dst'[p] = Written(d) /\ doing.stage = "write"
        BY <1>10, <2>1 DEF Put, CopyWrite
    <2>4. IsTree(dst')
        BY <2>1, <2>3, CopyWriteDoes
    <2>5. dst'[p] \in Entries
        BY <2>3, <2>4 DEF IsTree
    <2>. HIDE DEF t
    <2>6. ASSUME r = p
          PROVE  Kept(r)'
        <3>1. /\ Current = was[p].data /\ doing.data = was[p].data /\ doing.st = was[p]
              /\ was[p].kind = "file" /\ was[p] \in Entries
            BY <2>3, <2>6, CurrentIs
        <3>2. d = was[p].data
            BY <3>1
        <3>3. /\ dst'[p].data = was[p].data /\ dst'[p].time = was[p].time
              /\ dst'[p].meta = was[p].meta /\ dst'[p].kind = "file"
            BY <2>3, <3>1, <3>2 DEF Written, File
        <3>4. SameAs(dst'[p], was[p])
            BY <2>5, <3>1, <3>3, SameIs
        <3>. QED  BY <1>1, <2>3, <2>6, <3>4 DEF Kept
    <2>. QED  BY <1>6, <2>2, <2>6
<1>. QED  BY <1>8, <1>9, <1>10

-----------------------------------------------------------------------------
(* A command from its beginning to its end. *)

\* The steps within a command, and between two: what they note and record is
\* more than there was.
Onward ==
    /\ UNCHANGED <<was, op, blind>>
    /\ stable' \subseteq stable /\ ever \subseteq ever'
    /\ seen \subseteq seen' /\ skipped \subseteq skipped' /\ failed \subseteq failed'

\* All steps are such but the first one of a command.
LEMMA StepsOnward == [Next]_vars => Onward \/ StartSync \/ StartCopy \/ Rename
<1>. SUFFICES ASSUME [Next]_vars
              PROVE  Onward \/ StartSync \/ StartCopy \/ Rename
    OBVIOUS
<1>1. \A p : Noted(p) => UNCHANGED blind /\ seen' = seen /\ skipped \subseteq skipped' /\ failed \subseteq failed'
    BY DEF Noted, Note
<1>2. Silent => UNCHANGED <<blind, seen, skipped, failed>>
    BY DEF Silent, report
<1>3. CollectDown \/ CollectUp \/ CollectEnd => Onward
    BY <1>1, <1>2 DEF CollectDown, CollectUp, CollectEnd, Stepped, history, Onward
<1>4. ASSUME NEW p, MirrorGone(p) \/ MirrorSpecial(p) \/ MirrorDir(p) \/ MirrorLink(p) \/ MirrorFile(p)
      PROVE  Onward
    BY <1>1, <1>2, <1>4 DEF MirrorGone, MirrorSpecial, MirrorDir, MirrorLink, MirrorFile,
                            Stepped, history, Onward
<1>5. Check \/ MirrorDown \/ MirrorUp \/ MirrorEnd \/ PruneNext \/ PruneEnd => Onward
    BY <1>1, <1>2 DEF Check, MirrorDown, MirrorUp, MirrorEnd, PruneNext, PruneEnd, Stepped, history, Onward
<1>6. ASSUME NEW p, CopyGone(p) \/ CopySpecial(p) \/ CopyLink(p) \/ CopyDir(p) \/ CopyFile(p)
      PROVE  Onward
    BY <1>1, <1>2, <1>6 DEF CopyGone, CopySpecial, CopyLink, CopyDir, CopyFile, Stepped, history, Onward
<1>7. ASSUME NEW p, ClearGone(p) \/ ClearFile(p) \/ ClearDown(p) \/ ClearFails(p)
      PROVE  Onward
    BY <1>2, <1>7 DEF ClearGone, ClearFile, ClearDown, ClearFails, Stepped, history, Onward
<1>8. CopyUp \/ CopyEnd \/ ClearUp \/ CopyOpen \/ CopyWrite \/ CopyWriteFails => Onward
    BY <1>1, <1>2 DEF CopyUp, CopyEnd, ClearUp, CopyOpen, CopyWrite, CopyWriteFails, Stepped, history, Onward
<1>9. EditSeal => Onward
    BY DEF EditSeal, Touch, report, Onward
<1>10. ASSUME NEW p \in Paths, EditFile(p) \/ EditMeta(p) \/ EditRemove(p) \/ EditCreate(p)
       PROVE  Onward
    BY <1>10 DEF EditFile, EditMeta, EditRemove, EditCreate, Touch, report, Onward
<1>11. Crash \/ Over \/ UNCHANGED vars => Onward
    BY DEF Crash, Over, vars, report, history, Onward
<1>. QED  BY <1>3, <1>4, <1>5, <1>6, <1>7, <1>8, <1>9, <1>10, <1>11, StepCases

\* The pass in which a step is one.
LEMMA StepPasses ==
    ASSUME Shape
    PROVE  /\ StartSync \/ StartCopy \/ Rename \/ Over => pc = "idle"
           /\ CollectDown \/ CollectUp \/ CollectEnd => pc = "collect"
           /\ MirrorDown \/ MirrorUp \/ MirrorEnd => pc = "mirror"
           /\ PruneNext \/ PruneEnd => pc = "prune"
           /\ CopyUp \/ CopyEnd => pc = "copy"
           /\ ClearUp => pc = "clear"
           /\ Check \/ CopyOpen \/ CopyWrite \/ CopyWriteFails => pc \in {"mirror", "copy"}
           /\ \A p :
                /\ MirrorGone(p) \/ MirrorSpecial(p) \/ MirrorDir(p) \/ MirrorLink(p) \/ MirrorFile(p) =>
                     pc = "mirror"
                /\ CopyGone(p) \/ CopySpecial(p) \/ CopyLink(p) \/ CopyDir(p) \/ CopyFile(p) => pc = "copy"
                /\ ClearGone(p) \/ ClearFile(p) \/ ClearDown(p) \/ ClearFails(p) => pc = "clear"
<1>1. StartSync \/ StartCopy \/ Rename \/ Over => pc = "idle"
    BY DEF StartSync, StartCopy, Rename, Over, Begin
<1>2. /\ CollectDown \/ CollectUp \/ CollectEnd => pc = "collect"
      /\ MirrorDown \/ MirrorUp \/ MirrorEnd => pc = "mirror"
      /\ PruneNext \/ PruneEnd => pc = "prune"
      /\ CopyUp \/ CopyEnd => pc = "copy"
      /\ ClearUp => pc = "clear"
    BY DEF CollectDown, CollectUp, CollectEnd, MirrorDown, MirrorUp, MirrorEnd, PruneNext, PruneEnd,
           CopyUp, CopyEnd, ClearUp
<1>3. Check \/ CopyOpen \/ CopyWrite \/ CopyWriteFails => pc \in {"mirror", "copy"}
    BY DoingIs DEF Check, CopyOpen, CopyWrite, CopyWriteFails
<1>4. ASSUME NEW p
      PROVE  /\ MirrorGone(p) \/ MirrorSpecial(p) \/ MirrorDir(p) \/ MirrorLink(p) \/ MirrorFile(p) =>
                  pc = "mirror"
             /\ CopyGone(p) \/ CopySpecial(p) \/ CopyLink(p) \/ CopyDir(p) \/ CopyFile(p) => pc = "copy"
             /\ ClearGone(p) \/ ClearFile(p) \/ ClearDown(p) \/ ClearFails(p) => pc = "clear"
    BY DEF MirrorGone, MirrorSpecial, MirrorDir, MirrorLink, MirrorFile, CopyGone, CopySpecial, CopyLink,
           CopyDir, CopyFile, ClearGone, ClearFile, ClearDown, ClearFails, Entry
<1>. QED  BY <1>1, <1>2, <1>3, <1>4

\* The pass that a step leaves the command in.
LEMMA PassSteps ==
    ASSUME Shape, [Next]_vars
    PROVE  /\ pc' = "collect" => pc = "collect" \/ StartSync
           /\ pc' = "mirror" => pc = "mirror" \/ CollectEnd
           /\ pc' = "prune" => pc = "prune" \/ MirrorEnd
           /\ pc' = "copy" => pc = "copy" \/ StartCopy
           /\ pc' = "clear" => pc = "clear" \/ CopyEnd
           /\ pc' = "idle" => \/ pc = "idle" \/ Rename \/ Crash \/ MirrorEnd \/ PruneEnd \/ CopyEnd \/ ClearUp
                              \/ \E p : ClearFails(p)
<1>1. CollectDown \/ CollectUp => pc' = pc
    BY DEF CollectDown, CollectUp, Stepped
<1>2. ASSUME NEW p, MirrorGone(p) \/ MirrorSpecial(p) \/ MirrorDir(p) \/ MirrorLink(p) \/ MirrorFile(p)
      PROVE  pc' = pc
    BY <1>2 DEF MirrorGone, MirrorSpecial, MirrorDir, MirrorLink, MirrorFile, Stepped
<1>3. Check \/ MirrorDown \/ MirrorUp \/ PruneNext => pc' = pc
    BY DEF Check, MirrorDown, MirrorUp, PruneNext, Stepped, walk
<1>4. ASSUME NEW p, CopyGone(p) \/ CopySpecial(p) \/ CopyLink(p) \/ CopyDir(p) \/ CopyFile(p)
      PROVE  pc' = pc
    BY <1>4 DEF CopyGone, CopySpecial, CopyLink, CopyDir, CopyFile, Stepped
<1>5. ASSUME NEW p, ClearGone(p) \/ ClearFile(p) \/ ClearDown(p)
      PROVE  pc' = pc
    BY <1>5 DEF ClearGone, ClearFile, ClearDown, Stepped
<1>6. CopyUp \/ CopyOpen \/ CopyWrite \/ CopyWriteFails => pc' = pc
    BY DEF CopyUp, CopyOpen, CopyWrite, CopyWriteFails, Stepped
<1>7. EditSeal => pc' = pc
    BY DEF EditSeal, Touch
<1>8. ASSUME NEW p \in Paths, EditFile(p) \/ EditMeta(p) \/ EditRemove(p) \/ EditCreate(p)
      PROVE  pc' = pc
    BY <1>8 DEF EditFile, EditMeta, EditRemove, EditCreate, Touch
<1>9. Over \/ UNCHANGED vars => pc' = pc
    BY DEF Over, vars, walk
<1>10. StartSync => pc' = "collect"
    BY DEF StartSync
<1>11. CollectEnd => pc' = "mirror"
    BY DEF CollectEnd
<1>12. StartCopy => pc' = "copy"
    BY DEF StartCopy
<1>13. MirrorEnd => pc' \in {"prune", "idle"}
    BY DEF MirrorEnd, End
<1>14. Rename \/ PruneEnd \/ Crash => pc' = "idle"
    BY DEF Rename, PruneEnd, Crash, End
<1>15. CopyEnd => pc' \in {"clear", "idle"}
    BY DEF CopyEnd, End
<1>16. ClearUp => pc = "clear" /\ pc' \in {"clear", "idle"}
    BY DEF ClearUp, End
<1>17. ASSUME NEW p, ClearFails(p)
       PROVE  pc' = "idle"
    BY <1>17 DEF ClearFails, End
<1>. DEFINE Goal == /\ pc' = "collect" => pc = "collect" \/ StartSync
                    /\ pc' = "mirror" => pc = "mirror" \/ CollectEnd
                    /\ pc' = "prune" => pc = "prune" \/ MirrorEnd
                    /\ pc' = "copy" => pc = "copy" \/ StartCopy
                    /\ pc' = "clear" => pc = "clear" \/ CopyEnd
                    /\ pc' = "idle" => \/ pc = "idle" \/ Rename \/ Crash \/ MirrorEnd \/ PruneEnd \/ CopyEnd \/ ClearUp
                                       \/ \E p : ClearFails(p)
<1>18. pc' = pc => Goal
    OBVIOUS
<1>19. StartSync \/ StartCopy \/ CollectEnd \/ MirrorEnd \/ PruneEnd \/ Rename \/ CopyEnd \/ ClearUp \/ Crash => Goal
    BY <1>10, <1>11, <1>12, <1>13, <1>14, <1>15, <1>16
<1>20. ASSUME NEW p, ClearFails(p)
       PROVE  Goal
    BY <1>17, <1>20
<1>. HIDE DEF Goal
<1>21. Goal
    BY <1>1, <1>2, <1>3, <1>4, <1>5, <1>6, <1>7, <1>8, <1>9, <1>18, <1>19, <1>20, StepCases
<1>. QED  BY <1>21 DEF Goal

-----------------------------------------------------------------------------
(* What sync has seen of its source. *)

\* A level the first walk has still to list.
Unlisted(st, q) == \E i \in 1..Len(st) : \E r \in st[i].subs : IsPrefix(r, q) /\ r # q

\* Something at or above it has been stepped over, and noted.
Passed(q) == LevelsOf(q) \intersect skipped # {}

\* The source has been seen down to every untouched entry, or is about to be.
Noticed ==
    pc \in {"collect", "mirror"} /\ ~blind =>
        \A p \in stable : \A q \in AllPaths : IsPrefix(q, p) =>
            q \in seen \/ Passed(q) \/ (pc = "collect" /\ Unlisted(stack, q))

\* Nothing untouched is at or below what is to be pruned.
Spared == pc = "prune" => \A p \in stable : \A q \in targets : ~IsPrefix(q, p)

\* What has been seen the source has had.
Recorded == seen \subseteq ever /\ (pc # "idle" => DOMAIN src \subseteq ever)

\* What stands beyond the source is next to something noted, or about to go.
Pruned ==
    pc = "prune" =>
        /\ ~blind
        /\ \A p \in DOMAIN dst : p \in ever \/ Passed(p) \/ \E q \in targets : IsPrefix(q, p)

\* A level below one that has been passed over has been as well.
LEMMA PassedIs ==
    ASSUME NEW p \in AllPaths, NEW q \in AllPaths, IsPrefix(p, q)
    PROVE  Passed(p) \/ p \in skipped => Passed(q)
<1>1. p \in Seq(Range(Names)) /\ q \in Seq(Range(Names))
    BY DEF AllPaths, TreePaths
<1>2. /\ LevelsOf(p) = {r \in Seq(Range(Names)) : r # <<>> /\ IsPrefix(r, p)}
      /\ LevelsOf(q) = {r \in Seq(Range(Names)) : r # <<>> /\ IsPrefix(r, q)}
    BY <1>1, LevelsArePrefixes
<1>3. LevelsOf(p) \subseteq LevelsOf(q) /\ p \in LevelsOf(q)
    BY <1>1, <1>2, PrefixOrder DEF AllPaths
<1>. QED  BY <1>3 DEF Passed

\* What has to be listed after a step of the first walk.
LEMMA UnlistedKinds ==
    ASSUME Shape, stack # <<>>, NEW q, Unlisted(stack, q)
    PROVE  /\ \A p : Unlisted(LessSub(p), q) \/ (IsPrefix(p, q) /\ p # q)
           /\ Top.subs = {} => Unlisted(Front(stack), q)
<1>1. WalkOK(stack, src)
    BY DEF Shape, StackOK
<1>2. Len(stack) \in Nat \ {0} /\ Top = stack[Len(stack)]
    BY <1>1, TopIs DEF Top
<1>3. PICK i \in 1..Len(stack) : \E r \in stack[i].subs : IsPrefix(r, q) /\ r # q
    BY DEF Unlisted
<1>4. ASSUME NEW p, ~(IsPrefix(p, q) /\ p # q)
      PROVE  Unlisted(LessSub(p), q)
    <2>1. /\ Len(LessSub(p)) = Len(stack) /\ Last(LessSub(p)).subs = Top.subs \ {p}
          /\ \A j \in 1..Len(stack) :
               LessSub(p)[j] = IF j = Len(stack) THEN Last(LessSub(p)) ELSE stack[j]
        BY <1>1, LessSubIs
    <2>2. PICK r \in stack[i].subs : IsPrefix(r, q) /\ r # q
        BY <1>3
    <2>3. r \in LessSub(p)[i].subs
        BY <1>2, <1>4, <2>1, <2>2
    <2>. QED  BY <2>1, <2>2, <2>3 DEF Unlisted
<1>5. ASSUME Top.subs = {}
      PROVE  Unlisted(Front(stack), q)
    <2>1. Len(Front(stack)) = Len(stack) - 1 /\ \A j \in 1..Len(stack) - 1 : Front(stack)[j] = stack[j]
        BY <1>1, WalkPop
    <2>2. i \in 1..Len(Front(stack)) /\ Front(stack)[i] = stack[i]
        BY <1>2, <1>3, <1>5, <2>1
    <2>. QED  BY <1>3, <2>2 DEF Unlisted
<1>. QED  BY <1>4, <1>5

\* A level below a directory is an entry of it, or below a subdirectory of it.
LEMMA LevelBelow ==
    ASSUME NEW t, IsTree(t), NEW r \in DOMAIN t, NEW q \in AllPaths, IsPrefix(q, r),
           NEW p \in TreePaths, IsPrefix(p, q), p # q
    PROVE  q \in Kids(t, p) \/ \E n \in Subdirs(t, p) : IsPrefix(n, q) /\ n # q
<1>1. q \in TreePaths /\ r \in TreePaths
    BY DEF AllPaths, IsTree, TreePaths
<1>2. PICK n \in TreePaths : n # <<>> /\ Front(n) = p /\ IsPrefix(n, q)
    BY <1>1, NextLevel DEF IsStrictPrefix, TreePaths
<1>3. IsPrefix(n, r)
    BY <1>1, <1>2, PrefixOrder DEF TreePaths
<1>4. n # r => IsDir(t, n)
    BY <1>2, <1>3, TreeAbove
<1>5. n \in DOMAIN t
    BY <1>2, <1>4 DEF IsDir, IsA
<1>6. n \in Kids(t, p)
    BY <1>2, <1>5, KidsAre
<1>7. CASE n = q
    BY <1>6, <1>7
<1>8. CASE n # q
    <2>1. n # r
        BY <1>1, <1>2, <1>8, PrefixOrder DEF TreePaths
    <2>. QED  BY <1>2, <1>4, <1>6, <1>8, <2>1 DEF Subdirs
<1>. QED  BY <1>7, <1>8

\* The first walk lists all there is, from the root on.
LEMMA CollectNotices ==
    ASSUME Shape, Steady, StartSync \/ CollectDown \/ CollectUp, Noticed
    PROVE  Noticed'
<1>. DEFINE Goal(q) == q \in seen' \/ Passed(q)' \/ (pc' = "collect" /\ Unlisted(stack', q))
<1>1. CASE StartSync
    <2>1. SUFFICES ASSUME ~blind', NEW r \in stable', NEW q \in AllPaths, IsPrefix(q, r)
                   PROVE  Goal(q)
        BY DEF Noticed
    <2>2. /\ stable' = DOMAIN src
          /\ pc' = "collect" /\ seen' = Kids(src, <<>>)
          /\ stack' = << [Opened(<<>>) EXCEPT !.subs = Subdirs(src, <<>>)] >>
        BY <1>1, <2>1 DEF StartSync, Begin, trees
    <2>3. /\ Len(stack') = 1 /\ 1 \in 1..Len(stack') /\ stack'[1].subs = Subdirs(src, <<>>)
        <3>. DEFINE f == [Opened(<<>>) EXCEPT !.subs = Subdirs(src, <<>>)]
        <3>1. f.subs = Subdirs(src, <<>>) /\ stack' = <<f>>
            BY <2>2 DEF Opened
        <3>. HIDE DEF f
        <3>2. Len(<<f>>) = 1 /\ <<f>>[1] = f /\ 1 \in 1..1
            OBVIOUS
        <3>. QED  BY <3>1, <3>2
    <2>4. <<>> \in TreePaths /\ IsPrefix(<<>>, q) /\ q # <<>>
        BY PrefixOrder, EmptySeq DEF TreePaths, AllPaths
    <2>5. q \in Kids(src, <<>>) \/ \E n \in Subdirs(src, <<>>) : IsPrefix(n, q) /\ n # q
        BY <2>1, <2>2, <2>4, LevelBelow DEF Shape, TreesOK
    <2>. QED  BY <2>2, <2>3, <2>5 DEF Unlisted
<1>2. CASE CollectDown \/ CollectUp
    <2>1. /\ pc = "collect" /\ pc' = "collect" /\ stack # <<>> /\ UNCHANGED <<src, stable, blind>>
          /\ seen \subseteq seen' /\ skipped \subseteq skipped'
        BY <1>2 DEF CollectDown, CollectUp, Stepped, history, Silent, report, Noted, Note
    <2>2. SUFFICES ASSUME ~blind, NEW r \in stable, NEW q \in AllPaths, IsPrefix(q, r),
                          pc = "collect" /\ Unlisted(stack, q)
                   PROVE  Goal(q)
        BY <2>1 DEF Noticed, Passed
    <2>3. CASE CollectUp
        BY <2>1, <2>2, <2>3, UnlistedKinds DEF CollectUp
    <2>4. CASE CollectDown
        <3>1. PICK p \in Top.subs :
                  IF CanOpen(Top, p)
                    THEN /\ stack' = Append(LessSub(p), [Opened(p) EXCEPT !.subs = Subdirs(src, p)])
                         /\ seen' = seen \union Kids(src, p)
                    ELSE stack' = LessSub(p) /\ Noted(p)
            BY <2>4 DEF CollectDown
        <3>2. p \in AllPaths /\ p \in TreePaths /\ Front(p) = Top.at
            BY <2>1, SubIs DEF AllPaths
        <3>3. Unlisted(LessSub(p), q) \/ (IsPrefix(p, q) /\ p # q)
            BY <2>1, <2>2, UnlistedKinds
        <3>4. CASE ~CanOpen(Top, p)
            <4>1. p \in skipped' /\ stack' = LessSub(p)
                BY <3>1, <3>4 DEF Noted, Note
            <4>2. p \in LevelsOf(q) \/ ~IsPrefix(p, q)
                BY <2>2, <3>2, LevelsArePrefixes DEF AllPaths, TreePaths
            <4>. QED  BY <2>1, <3>3, <4>1, <4>2 DEF Passed
        <3>5. CASE CanOpen(Top, p)
            <4>. DEFINE f == [Opened(p) EXCEPT !.subs = Subdirs(src, p)]
                        v == LessSub(p)
            <4>1. IsDir(src, p) /\ r \in DOMAIN src
                BY <2>1, <2>2, <3>5 DEF CanOpen, Steady, Active, Standing
            <4>2. f \in FrameType /\ f.at = p /\ f.names = {} /\ f.subs = Subdirs(src, p)
                <5>1. f \in FrameType
                    BY <3>2, <4>1, FramesAre DEF Shape
                <5>. QED  BY <5>1 DEF Opened
            <4>3. WalkOK(v, src) /\ v # <<>> /\ Last(v).at = Top.at /\ Len(v) \in Nat
                BY <2>1, <3>1, LessSubIs, TopIs DEF Shape, StackOK
            <4>4. /\ Len(Append(v, f)) = Len(v) + 1
                  /\ \A i \in 1..Len(v) + 1 : Append(v, f)[i] = IF i = Len(v) + 1 THEN f ELSE v[i]
                BY <3>2, <4>1, <4>2, <4>3, OpensDown
            <4>5. stack' = Append(v, f) /\ seen' = seen \union Kids(src, p)
                BY <3>1, <3>5
            <4>. HIDE DEF f, v
            <4>6. /\ \A i \in 1..Len(v) : i \in 1..Len(stack') /\ stack'[i] = v[i]
                  /\ Len(stack') \in 1..Len(stack') /\ stack'[Len(stack')] = f
                BY <4>3, <4>4, <4>5
            <4>7. CASE Unlisted(v, q)
                BY <2>1, <4>6, <4>7 DEF Unlisted, Goal
            <4>8. CASE IsPrefix(p, q) /\ p # q
                <5>1. q \in Kids(src, p) \/ \E n \in Subdirs(src, p) : IsPrefix(n, q) /\ n # q
                    BY <2>2, <3>2, <4>1, <4>8, LevelBelow DEF Shape, TreesOK
                <5>. QED  BY <2>1, <4>2, <4>5, <4>6, <5>1 DEF Unlisted, Goal
            <4>. QED  BY <3>3, <4>7, <4>8 DEF v
        <3>. QED  BY <3>4, <3>5
    <2>. QED  BY <1>2, <2>3, <2>4
<1>. QED  BY <1>1, <1>2

\* What the owner does leaves a walk what it has to do.
LEMMA EditsStack ==
    ASSUME Shape,
           \/ EditSeal
           \/ \E p \in Paths : EditFile(p) \/ EditMeta(p) \/ EditRemove(p) \/ EditCreate(p)
    PROVE  /\ UNCHANGED <<dst, pc, op, doing, outcome, report, targets>>
           /\ Len(stack') = Len(stack)
           /\ \A i \in 1..Len(stack) : /\ stack'[i].at = stack[i].at
                                       /\ stack'[i].names = stack[i].names /\ stack'[i].subs = stack[i].subs
<1>1. UNCHANGED <<dst, pc, op, doing, outcome, report, targets>>
    BY DEF EditSeal, EditFile, EditMeta, EditRemove, EditCreate, Touch
<1>2. stack \in Seq(FrameType) /\ Len(stack) \in Nat /\ DOMAIN stack = 1..Len(stack)
    BY StackLen DEF Shape, StackOK, WalkOK
<1>3. \A i \in 1..Len(stack) : stack[i] \in FrameType
    BY <1>2, ElementOfSeq
<1>4. stack' = stack \/ \E p : stack' = Detached(p)
    BY DEF EditSeal, EditFile, EditMeta, EditRemove, EditCreate
<1>5. ASSUME NEW p, stack' = Detached(p)
      PROVE  /\ Len(stack') = Len(stack)
             /\ \A i \in 1..Len(stack) : /\ stack'[i].at = stack[i].at
                                         /\ stack'[i].names = stack[i].names /\ stack'[i].subs = stack[i].subs
    <2>1. Len(stack') = Len(stack) /\ DOMAIN stack' = 1..Len(stack)
        BY <1>2, <1>5 DEF Detached
    <2>2. ASSUME NEW i \in 1..Len(stack)
          PROVE  /\ stack'[i].at = stack[i].at
                 /\ stack'[i].names = stack[i].names /\ stack'[i].subs = stack[i].subs
        BY <1>2, <1>3, <1>5 DEF Detached, FrameType
    <2>. QED  BY <2>1, <2>2
<1>. QED  BY <1>1, <1>4, <1>5

\* The first walk, and what can happen beside it.
LEMMA CollectSteps ==
    ASSUME Shape, [Next]_vars, pc = "collect", pc' = "collect"
    PROVE  \/ CollectDown \/ CollectUp \/ UNCHANGED vars
           \/ EditSeal
           \/ \E p \in Paths : EditFile(p) \/ EditMeta(p) \/ EditRemove(p) \/ EditCreate(p)
<1>1. ~CollectEnd /\ ~Crash
    BY DEF CollectEnd, Crash, End
<1>. QED  BY <1>1, StepPasses, StepCases

\* What is untouched is seen by sync, or noted above.
LEMMA NoticedNext == Shape /\ Steady /\ Noticed /\ [Next]_vars => Noticed'
<1>. SUFFICES ASSUME Shape, Steady, Noticed, [Next]_vars
              PROVE  Noticed'
    OBVIOUS
<1>1. CASE StartSync \/ CollectDown \/ CollectUp
    BY <1>1, CollectNotices
<1>2. CASE StartCopy \/ Rename
    BY <1>2 DEF StartCopy, Rename, End, Noticed
<1>3. CASE Onward /\ pc = "mirror"
    <2>1. pc' # "collect"
        BY <1>3, PassSteps DEF StartSync, Begin
    <2>. QED  BY <1>3, <2>1 DEF Noticed, Onward, Passed
<1>4. CASE Onward /\ CollectEnd
    <2>1. pc = "collect" /\ stack = <<>> /\ pc' = "mirror"
        BY <1>4 DEF CollectEnd
    <2>2. \A q : ~Unlisted(stack, q)
        BY <2>1, EmptySeq DEF Unlisted
    <2>. QED  BY <1>4, <2>1, <2>2 DEF Noticed, Onward, Passed
<1>5. CASE /\ Onward /\ pc' = "collect" /\ pc = "collect"
           /\ \/ UNCHANGED vars
              \/ EditSeal
              \/ \E p \in Paths : EditFile(p) \/ EditMeta(p) \/ EditRemove(p) \/ EditCreate(p)
    <2>1. \A q : Unlisted(stack, q) => Unlisted(stack', q)
        <3>1. CASE UNCHANGED vars
            BY <3>1 DEF vars, walk
        <3>2. CASE ~UNCHANGED vars
            <4>1. Len(stack') = Len(stack) /\ \A i \in 1..Len(stack) : stack'[i].subs = stack[i].subs
                BY <1>5, <3>2, EditsStack
            <4>. QED  BY <4>1 DEF Unlisted
        <3>. QED  BY <3>1, <3>2
    <2>. QED  BY <1>5, <2>1 DEF Noticed, Onward, Passed
<1>6. CASE pc' \notin {"collect", "mirror"}
    BY <1>6 DEF Noticed
<1>. QED  BY <1>1, <1>2, <1>3, <1>4, <1>5, <1>6, StepsOnward, PassSteps, CollectSteps

\* A pruning, and what can happen beside it.
LEMMA PruneSteps ==
    ASSUME Shape, [Next]_vars, pc = "prune"
    PROVE  \/ PruneNext
           \/ PruneEnd \/ Crash
           \/ pc' = "prune" /\ UNCHANGED <<dst, targets, report>>
<1>1. ASSUME \/ EditSeal
             \/ \E p \in Paths : EditFile(p) \/ EditMeta(p) \/ EditRemove(p) \/ EditCreate(p)
      PROVE  pc' = "prune" /\ UNCHANGED <<dst, targets, report>>
    BY <1>1, EditsStack
<1>2. UNCHANGED vars => pc' = "prune" /\ UNCHANGED <<dst, targets, report>>
    BY DEF vars, walk, trees
<1>. QED  BY <1>1, <1>2, StepPasses, StepCases

\* Nothing untouched is pruned: it has been seen, or is beside what is noted.
LEMMA SparedNext == Shape /\ Noticed /\ Spared /\ [Next]_vars => Spared'
<1>. SUFFICES ASSUME Shape, Noticed, Spared, [Next]_vars, pc' = "prune",
                     NEW r \in stable', NEW q \in targets', IsPrefix(q, r)
              PROVE  FALSE
    BY DEF Spared
<1>1. pc = "prune" \/ MirrorEnd
    BY PassSteps
<1>2. CASE MirrorEnd
    <2>1. /\ pc = "mirror" /\ ~blind /\ targets' = Orphans /\ UNCHANGED stable
        BY <1>2 DEF MirrorEnd, End, Prunes, history
    <2>2. q \in DOMAIN dst /\ q \notin seen /\ ~Passed(q)
        BY <2>1 DEF Orphans, Passed
    <2>3. q \in AllPaths
        BY <2>2 DEF Shape, TreesOK, IsTree, AllPaths, TreePaths
    <2>. QED  BY <2>1, <2>2, <2>3 DEF Noticed
<1>3. CASE pc = "prune"
    <2>1. Onward
        BY <1>3, StepsOnward DEF StartSync, StartCopy, Rename, Begin
    <2>2. targets' \subseteq targets
        <3>1. ~(PruneEnd \/ Crash)
            BY DEF PruneEnd, Crash, End
        <3>. QED  BY <1>3, <3>1, PruneSteps DEF PruneNext
    <2>. QED  BY <1>3, <2>1, <2>2 DEF Spared, Onward
<1>. QED  BY <1>1, <1>2, <1>3

\* What is seen is there, and the source has only what the owner gives it.
LEMMA RecordedNext == Shape /\ Recorded /\ [Next]_vars => Recorded'
<1>. SUFFICES ASSUME Shape, Recorded, [Next]_vars
              PROVE  Recorded'
    OBVIOUS
<1>1. \A p : Kids(src, p) \subseteq DOMAIN src
    BY DEF Kids, Below
<1>2. CASE StartSync \/ StartCopy
    BY <1>1, <1>2 DEF StartSync, StartCopy, Begin, trees, Recorded
<1>3. CASE Rename
    BY <1>3 DEF Rename, End, Recorded
<1>4. ASSUME Onward, pc' = "idle" \/ pc # "idle", seen' \subseteq seen \union DOMAIN src, DOMAIN src' \subseteq DOMAIN src,
             pc # "idle" \/ seen' = seen
      PROVE  Recorded'
    BY <1>4 DEF Recorded, Onward
<1>5. \A p : Noted(p) => seen' = seen
    BY DEF Noted
<1>6. Silent => seen' = seen
    BY DEF Silent, report
<1>7. CASE /\ ~(StartSync \/ StartCopy \/ Rename)
           /\ ~EditSeal
           /\ ~\E p \in Paths : EditFile(p) \/ EditMeta(p) \/ EditRemove(p) \/ EditCreate(p)
    <2>1. Onward /\ (pc' = "idle" \/ pc # "idle")
        <3>1. pc' \in Passes
            BY ShapeNext DEF Shape, Basics
        <3>2. CollectEnd \/ MirrorEnd \/ CopyEnd => pc # "idle"
            BY DEF CollectEnd, MirrorEnd, CopyEnd
        <3>. QED  BY <1>7, <3>1, <3>2, StepsOnward, PassSteps DEF Passes
    <2>2. DOMAIN src' \subseteq DOMAIN src
        <3>1. \A p : ClearFile(p) => DOMAIN src' \subseteq DOMAIN src
            BY ClearDoes
        <3>2. ClearUp => DOMAIN src' \subseteq DOMAIN src
            BY DEF ClearUp, Without
        <3>. QED  BY <1>7, <3>1, <3>2, StepCases, TreesStay DEF trees
    <2>3. seen' = seen \/ (seen' \subseteq seen \union DOMAIN src /\ pc # "idle")
        <3>1. CollectDown \/ CollectUp \/ CollectEnd \/ MirrorDown =>
                seen' = seen \/ (seen' \subseteq seen \union DOMAIN src /\ pc # "idle")
            BY <1>1, <1>5, <1>6 DEF CollectDown, CollectUp, CollectEnd, MirrorDown
        <3>2. ASSUME NEW p, MirrorGone(p) \/ MirrorSpecial(p) \/ MirrorDir(p) \/ MirrorLink(p) \/ MirrorFile(p)
              PROVE  seen' = seen
            BY <1>5, <1>6, <3>2 DEF MirrorGone, MirrorSpecial, MirrorDir, MirrorLink, MirrorFile
        <3>3. ASSUME NEW p, CopyGone(p) \/ CopySpecial(p) \/ CopyLink(p) \/ CopyDir(p) \/ CopyFile(p)
              PROVE  seen' = seen
            BY <1>5, <1>6, <3>3 DEF CopyGone, CopySpecial, CopyLink, CopyDir, CopyFile
        <3>4. ASSUME NEW p, ClearGone(p) \/ ClearFile(p) \/ ClearDown(p) \/ ClearFails(p)
              PROVE  seen' = seen
            BY <1>6, <3>4 DEF ClearGone, ClearFile, ClearDown, ClearFails
        <3>5. Check \/ MirrorUp \/ MirrorEnd \/ PruneNext \/ PruneEnd \/ CopyUp \/ CopyEnd \/ ClearUp
              \/ CopyOpen \/ CopyWrite \/ CopyWriteFails => seen' = seen
            BY <1>5, <1>6 DEF Check, MirrorUp, MirrorEnd, PruneNext, PruneEnd, CopyUp, CopyEnd, ClearUp,
                              CopyOpen, CopyWrite, CopyWriteFails
        <3>6. Crash \/ Over \/ UNCHANGED vars => seen' = seen
            BY DEF Crash, Over, vars, report
        <3>. QED  BY <1>7, <3>1, <3>2, <3>3, <3>4, <3>5, <3>6, StepCases
    <2>. QED  BY <1>4, <2>1, <2>2, <2>3
<1>8. CASE \/ EditSeal
           \/ \E p \in Paths : EditFile(p) \/ EditMeta(p) \/ EditRemove(p) \/ EditCreate(p)
    <2>1. ever' = ever \union DOMAIN src' /\ seen' = seen
        BY <1>8 DEF EditSeal, EditFile, EditMeta, EditRemove, EditCreate, Touch, report
    <2>. QED  BY <2>1 DEF Recorded
<1>. QED  BY <1>2, <1>3, <1>7, <1>8

\* Of the levels of a path, the first one that is not in a set.
LEMMA FirstLevel ==
    ASSUME NEW p \in AllPaths, NEW S, p \notin S
    PROVE  \E q \in AllPaths : IsPrefix(q, p) /\ q \notin S /\ Above(q) \subseteq S
<1>. DEFINE T == {q \in AllPaths : IsPrefix(q, p) /\ q \notin S}
            N == {Len(q) : q \in T}
<1>1. p \in T /\ N \subseteq Nat
    BY PrefixOrder DEF AllPaths, TreePaths
<1>2. PICK n \in N : \A m \in N : ~(m < n)
    <2>1. IsWellFoundedOn(OpToRel(<, Nat), Nat)
        BY NatLessThanWellFounded
    <2>2. N # {}
        BY <1>1
    <2>. HIDE DEF N
    <2>3. PICK x \in N : \A y \in N : ~(<<y, x>> \in OpToRel(<, Nat))
        BY <1>1, <2>1, <2>2, WFMin
    <2>. QED  BY <1>1, <2>3 DEF OpToRel
<1>3. PICK q \in T : Len(q) = n
    BY <1>2
<1>4. q \in AllPaths /\ q \in TreePaths /\ IsPrefix(q, p) /\ q \notin S
    BY <1>3 DEF AllPaths
<1>5. ASSUME NEW r \in Above(q)
      PROVE  r \in S
    <2>1. r \in AllPaths /\ IsPrefix(r, q) /\ r # q
        BY <1>4, <1>5, LevelsArePrefixes DEF Above, AllPaths, TreePaths
    <2>2. IsPrefix(r, p) /\ Len(r) < Len(q)
        BY <1>4, <2>1, PrefixOrder DEF AllPaths, TreePaths
    <2>. QED  BY <1>2, <1>3, <2>1, <2>2
<1>. QED  BY <1>4, <1>5

\* The targets of a pruning are all there is beyond the source.
LEMMA PrunedNext == Shape /\ Recorded /\ Pruned /\ [Next]_vars => Pruned'
<1>. SUFFICES ASSUME Shape, Recorded, Pruned, [Next]_vars, pc' = "prune"
              PROVE  Pruned'
    BY DEF Pruned
<1>1. pc = "prune" \/ MirrorEnd
    BY PassSteps
<1>2. IsTree(dst) /\ DOMAIN dst \subseteq AllPaths
    BY DEF Shape, TreesOK, IsTree, AllPaths, TreePaths
<1>3. CASE MirrorEnd
    <2>1. ~blind /\ targets' = Orphans /\ UNCHANGED <<dst, ever, blind, skipped>>
        BY <1>3 DEF MirrorEnd, End, Prunes, history, Silent, report, trees
    <2>2. ASSUME NEW p \in DOMAIN dst
          PROVE  p \in ever \/ Passed(p) \/ \E q \in targets' : IsPrefix(q, p)
        <3>1. CASE p \in seen
            BY <3>1 DEF Recorded
        <3>2. CASE p \notin seen
            <4>1. PICK q \in AllPaths : IsPrefix(q, p) /\ q \notin seen /\ Above(q) \subseteq seen
                BY <1>2, <3>2, FirstLevel
            <4>2. q \in DOMAIN dst
                BY <1>2, <4>1, TreeAbove DEF IsDir, IsA, AllPaths
            <4>3. CASE Passed(q)
                BY <1>2, <4>1, <4>3, PassedIs
            <4>4. CASE ~Passed(q)
                BY <2>1, <4>1, <4>2, <4>4 DEF Orphans, Passed
            <4>. QED  BY <4>3, <4>4
        <3>. QED  BY <3>1, <3>2
    <2>. QED  BY <2>1, <2>2 DEF Pruned, Passed
<1>4. CASE pc = "prune"
    <2>1. Onward
        BY <1>4, StepsOnward DEF StartSync, StartCopy, Rename, Begin
    <2>2. ~(PruneEnd \/ Crash)
        BY DEF PruneEnd, Crash, End
    <2>3. ~blind /\ \A p \in DOMAIN dst : p \in ever \/ Passed(p) \/ \E q \in targets : IsPrefix(q, p)
        BY <1>4 DEF Pruned
    <2>4. CASE UNCHANGED <<dst, targets, report>>
        BY <2>1, <2>3, <2>4 DEF Pruned, Onward, Passed, report
    <2>5. CASE PruneNext
        <3>1. PICK p \in targets : /\ targets' = targets \ {p}
                                   /\ \/ dst' = Drop(dst, p)
                                      \/ dst' \in Remnants(dst, p) /\ Noted(p)
            BY <2>5 DEF PruneNext
        <3>2. p \in AllPaths /\ DOMAIN dst' \subseteq DOMAIN dst
            BY <3>1, PruneNextDoes
        <3>3. ASSUME NEW r \in DOMAIN dst'
              PROVE  r \in ever' \/ Passed(r)' \/ \E q \in targets' : IsPrefix(q, r)
            <4>1. r \in DOMAIN dst /\ r \in AllPaths
                BY <1>2, <3>2
            <4>2. CASE ~IsPrefix(p, r)
                BY <2>1, <2>3, <3>1, <4>1, <4>2 DEF Onward, Passed
            <4>3. CASE IsPrefix(p, r)
                <5>1. dst' # Drop(dst, p)
                    BY <1>2, <3>2, <4>3, DropTree
                <5>2. p \in skipped'
                    BY <3>1, <5>1 DEF Noted, Note
                <5>3. p \in LevelsOf(r)
                    BY <3>2, <4>1, <4>3, LevelsArePrefixes DEF AllPaths, TreePaths
                <5>. QED  BY <5>2, <5>3 DEF Passed
            <4>. QED  BY <4>2, <4>3
        <3>. QED  BY <2>1, <2>3, <3>3 DEF Pruned, Onward
    <2>. QED  BY <1>4, <2>2, <2>4, <2>5, PruneSteps
<1>. QED  BY <1>1, <1>3, <1>4

\* Between two commands.
LEMMA IdleSteps ==
    ASSUME Shape, [Next]_vars, pc = "idle"
    PROVE  \/ StartSync \/ StartCopy \/ Rename
           \/ UNCHANGED vars
           \/ EditSeal
           \/ \E p \in Paths : EditFile(p) \/ EditMeta(p) \/ EditRemove(p) \/ EditCreate(p)
<1>1. ~Crash
    BY DEF Crash
<1>2. Over => UNCHANGED vars
    BY DEF Over
<1>. QED  BY <1>1, <1>2, StepPasses, StepCases

\* A sync --delete that ends well has pruned.
LEMMA SuccessPrunesNext == Shape /\ Pruned /\ SuccessPrunes /\ [Next]_vars => SuccessPrunes'
<1>. SUFFICES ASSUME Shape, Pruned, SuccessPrunes, [Next]_vars, pc' = "idle", outcome' = "ok", op'.delete
              PROVE  \A p \in DOMAIN dst' : p \in ever' \/ LevelsOf(p) \intersect skipped' # {}
    BY DEF SuccessPrunes
<1>1. op'.kind = "sync"
    <2>1. Shape'
        BY ShapeNext
    <2>2. op' \in Operations \union {NoOperation}
        BY <2>1 DEF Shape, Basics
    <2>3. ~NoOperation.delete
        BY DEF NoOperation
    <2>. QED  BY <2>2, <2>3, TransferAssumption
<1>2. ~Rename
    BY <1>1 DEF Rename, Begin
<1>3. Onward /\ op' = op
    BY <1>2, StepsOnward DEF StartSync, StartCopy, Onward
<1>4. ~Crash
    BY DEF Crash, End
<1>5. ~CopyEnd /\ ~ClearUp /\ \A p : ~ClearFails(p)
    BY <1>1, <1>3 DEF CopyEnd, ClearUp, ClearFails, Entry, Shape, Basics, KindOK
<1>6. CASE MirrorEnd
    <2>1. blind /\ outcome' = Verdict
        BY <1>3, <1>6 DEF MirrorEnd, End, Prunes
    <2>. QED  BY <2>1 DEF Verdict
<1>7. CASE PruneEnd
    <2>1. pc = "prune" /\ targets = {} /\ UNCHANGED <<dst, skipped, ever>>
        BY <1>7 DEF PruneEnd, Silent, report, trees, history
    <2>. QED  BY <2>1 DEF Pruned, Passed
<1>8. CASE pc = "idle"
    <2>1. ~StartSync /\ ~StartCopy
        BY DEF StartSync, StartCopy
    <2>2. UNCHANGED vars => UNCHANGED <<dst, outcome, skipped>>
        BY DEF vars, trees, report
    <2>3. UNCHANGED <<dst, outcome, skipped>>
        BY <1>2, <1>8, <2>1, <2>2, IdleSteps, EditsStack DEF report
    <2>. QED  BY <1>3, <1>8, <2>3 DEF SuccessPrunes, Onward
<1>. QED  BY <1>2, <1>4, <1>5, <1>6, <1>7, <1>8, PassSteps

\* The walks that transfer, and what can happen beside them.
LEMMA TransferSteps ==
    ASSUME Shape, [Next]_vars, pc \in {"mirror", "copy"}, pc' \in {"mirror", "copy"}
    PROVE  \/ \E p : MirrorGone(p) \/ MirrorSpecial(p) \/ MirrorDir(p) \/ MirrorLink(p) \/ MirrorFile(p)
           \/ \E p : CopyGone(p) \/ CopySpecial(p) \/ CopyDir(p) \/ CopyLink(p) \/ CopyFile(p)
           \/ MirrorDown \/ MirrorUp \/ CopyUp
           \/ Check \/ CopyOpen \/ CopyWrite \/ CopyWriteFails
           \/ UNCHANGED vars
           \/ EditSeal
           \/ \E p \in Paths : EditFile(p) \/ EditMeta(p) \/ EditRemove(p) \/ EditCreate(p)
<1>1. ~MirrorEnd /\ ~CopyEnd /\ ~Crash
    BY DEF MirrorEnd, CopyEnd, Crash, End
<1>. QED  BY <1>1, StepPasses, StepCases

\* A walk begins with all of the source before it, or with a failure.
LEMMA CarryRoot ==
    ASSUME Shape, Shape', Steady, StartCopy \/ CollectEnd, Clean', NEW r \in stable', Owed(r)'
    PROVE  Ahead(r)'
<1>1. /\ src' = src /\ r \in DOMAIN src /\ r \in AllPaths
      /\ stack' = <<Listed(<<>>)>> \/ (stack' = <<Opened(<<>>)>> /\ <<>> \in failed' \union (skipped \ failed))
    <2>1. CASE StartCopy
        BY <2>1 DEF StartCopy, Begin, trees, Shape, TreesOK, IsTree, AllPaths, TreePaths
    <2>2. CASE CollectEnd
        <3>1. pc = "collect" /\ UNCHANGED <<src, stable>>
            BY <2>2 DEF CollectEnd, trees, history
        <3>2. r \in DOMAIN src /\ r \in AllPaths
            BY <3>1, Untouched DEF Steady, Active
        <3>. QED  BY <2>2, <3>1, <3>2 DEF CollectEnd, Noted, Note
    <2>. QED  BY <2>1, <2>2
<1>2. <<>> \notin failed'
    BY DEF Clean
<1>3. CASE <<>> \in skipped \ failed /\ stack' # <<Listed(<<>>)>>
    <2>1. CollectEnd /\ pc = "collect" /\ UNCHANGED <<was, stable>>
        BY <1>1, <1>2, <1>3 DEF CollectEnd, StartCopy, history
    <2>2. SkipsSteady
        BY <2>1 DEF Steady, Active
    <2>3. r = <<>>
        BY <1>1, <1>3, <2>1, <2>2, PrefixOrder DEF SkipsSteady, AllPaths, TreePaths
    <2>. QED  BY <1>1, <2>3 DEF AllPaths
<1>4. CASE stack' = <<Listed(<<>>)>>
    <2>1. <<>> \in TreePaths /\ IsDir(src, <<>>) /\ IsTree(src) /\ r \in TreePaths
        BY <1>1, EmptySeq DEF TreePaths, IsDir, Shape, TreesOK, AllPaths
    <2>2. Listed(<<>>).names = Kids(src, <<>>)
        BY <2>1, FramesAre DEF Shape
    <2>3. IsStrictPrefix(<<>>, r)
        BY <1>1, <2>1, PrefixOrder DEF IsStrictPrefix, TreePaths, AllPaths
    <2>4. PICK q \in TreePaths : q # <<>> /\ Front(q) = <<>> /\ IsPrefix(q, r)
        BY <2>1, <2>3, NextLevel DEF TreePaths
    <2>5. q # r => IsDir(src, q)
        BY <1>1, <2>1, <2>4, TreeAbove
    <2>6. q \in Kids(src, <<>>)
        BY <1>1, <2>1, <2>4, <2>5, KidsAre DEF IsDir, IsA
    <2>. DEFINE f == Listed(<<>>)
    <2>7. q \in f.names /\ stack' = <<f>>
        BY <1>4, <2>2, <2>6
    <2>. HIDE DEF f
    <2>8. Len(<<f>>) = 1 /\ <<f>>[1] = f /\ 1 \in 1..1
        OBVIOUS
    <2>. QED  BY <2>4, <2>7, <2>8 DEF Ahead, Way
<1>. QED  BY <1>1, <1>2, <1>3, <1>4

\* What the owner does elsewhere leaves an entry kept, or before the walk.
LEMMA CarryEdits ==
    ASSUME Shape, Onward,
           \/ EditSeal
           \/ \E p \in Paths : EditFile(p) \/ EditMeta(p) \/ EditRemove(p) \/ EditCreate(p),
           NEW r, Kept(r) \/ Ahead(r)
    PROVE  Kept(r)' \/ Ahead(r)'
<1>1. /\ UNCHANGED <<dst, pc, doing, was>> /\ Len(stack') = Len(stack)
      /\ \A i \in 1..Len(stack) : /\ stack'[i].at = stack[i].at
                                  /\ stack'[i].names = stack[i].names /\ stack'[i].subs = stack[i].subs
    BY EditsStack DEF Onward
<1>2. Way(stack, pc, r) => Way(stack', pc, r)
    BY <1>1 DEF Way
<1>. QED  BY <1>1, <1>2 DEF Kept, Ahead

\* All that is untouched is kept or before the walk, at any step of it.
LEMMA CarryTransfer ==
    ASSUME Shape, Steady, QuickInv, Carries, [Next]_vars, pc' \in {"mirror", "copy"},
           Clean', NEW r \in stable', Owed(r)'
    PROVE  Kept(r)' \/ Ahead(r)'
<1>1. CASE StartCopy \/ CollectEnd
    BY <1>1, CarryRoot, ShapeNext
<1>2. CASE pc \in {"mirror", "copy"}
    <2>1. Onward
        BY <1>2, StepsOnward DEF StartSync, StartCopy, Rename, Begin
    <2>2. Clean /\ r \in stable /\ Owed(r)
        BY <2>1 DEF Onward, Clean, Owed
    <2>3. Kept(r) \/ Ahead(r)
        BY <1>2, <2>2 DEF Carries
    <2>4. ASSUME NEW p, MirrorGone(p) \/ MirrorSpecial(p) \/ MirrorDir(p) \/ MirrorLink(p) \/ MirrorFile(p)
          PROVE  Kept(r)' \/ Ahead(r)'
        BY <2>2, <2>3, <2>4, CarryMirror
    <2>5. ASSUME NEW p, CopyGone(p) \/ CopySpecial(p) \/ CopyDir(p) \/ CopyLink(p) \/ CopyFile(p)
          PROVE  Kept(r)' \/ Ahead(r)'
        BY <2>2, <2>3, <2>5, CarryCopy
    <2>6. UNCHANGED vars => Kept(r)' \/ Ahead(r)'
        BY <2>3 DEF vars, trees, walk, history, Kept, Ahead
    <2>7. MirrorDown => Kept(r)' \/ Ahead(r)'
        BY <2>2, <2>3, CarryDown
    <2>8. MirrorUp \/ CopyUp => Kept(r)' \/ Ahead(r)'
        BY <2>2, <2>3, CarryUp
    <2>9. Check => Kept(r)' \/ Ahead(r)'
        BY <2>2, <2>3, CarryCheck
    <2>10. CopyOpen \/ CopyWrite \/ CopyWriteFails => Kept(r)' \/ Ahead(r)'
        BY <2>2, <2>3, CarryContent
    <2>11. CASE \/ EditSeal
                \/ \E p \in Paths : EditFile(p) \/ EditMeta(p) \/ EditRemove(p) \/ EditCreate(p)
        BY <2>1, <2>3, <2>11, CarryEdits
    <2>. QED  BY <1>2, <2>4, <2>5, <2>6, <2>7, <2>8, <2>9, <2>10, <2>11, TransferSteps
<1>. QED  BY <1>1, <1>2, PassSteps

\* A walk that has come to its end has nothing before it.
LEMMA CarryEnd ==
    ASSUME Shape, Carries, Clean, pc \in {"mirror", "copy"}, stack = <<>>, NEW r \in stable, Owed(r)
    PROVE  Kept(r)
<1>1. doing = Nothing
    BY DEF Shape, DoingOK
<1>2. ~Way(stack, pc, r)
    BY EmptySeq DEF Way
<1>. QED  BY <1>1, <1>2 DEF Carries, Ahead

\* A pruning spares what has been carried over.
LEMMA CarryPrune ==
    ASSUME Shape, Spared, Carries, [Next]_vars, pc' = "prune",
           Clean', NEW r \in stable', was'[r].kind # "special"
    PROVE  Kept(r)'
<1>1. CASE MirrorEnd
    <2>1. /\ pc = "mirror" /\ stack = <<>> /\ Clean /\ r \in stable /\ UNCHANGED <<dst, was>>
        BY <1>1 DEF MirrorEnd, Silent, report, trees, history, Clean
    <2>. QED  BY <2>1, CarryEnd DEF Owed, Kept
<1>2. CASE pc = "prune"
    <2>1. Onward
        BY <1>2, StepsOnward DEF StartSync, StartCopy, Rename, Begin
    <2>2. Clean /\ r \in stable /\ UNCHANGED was
        BY <2>1 DEF Onward, Clean
    <2>3. Kept(r)
        BY <1>2, <2>2 DEF Carries
    <2>4. ~(PruneEnd \/ Crash)
        BY DEF PruneEnd, Crash, End
    <2>5. CASE UNCHANGED <<dst, targets, report>>
        BY <2>2, <2>3, <2>5 DEF Kept
    <2>6. CASE PruneNext
        <3>1. PICK p \in targets : dst' = Drop(dst, p) \/ dst' \in Remnants(dst, p)
            BY <2>6 DEF PruneNext
        <3>2. p \in TreePaths /\ Apart(dst, dst', {p})
            BY <3>1, PruneNextDoes
        <3>3. ~IsPrefix(p, r)
            BY <1>2, <2>2, <3>1 DEF Spared
        <3>4. r \in TreePaths
            BY <2>3 DEF Kept, Shape, TreesOK, IsTree, TreePaths
        <3>. QED  BY <2>2, <2>3, <3>2, <3>3, <3>4, KeptStays
    <2>. QED  BY <1>2, <2>4, <2>5, <2>6, PruneSteps
<1>. QED  BY <1>1, <1>2, PassSteps

\* While a move removes its source it leaves the destination.
LEMMA ClearLeaves ==
    ASSUME Shape, [Next]_vars, pc = "clear"
    PROVE  UNCHANGED dst
BY StepPasses, StepCases, TreesStay DEF trees

\* What a move has carried over stays while it removes its source.
LEMMA CarryClear ==
    ASSUME Shape, Carries, [Next]_vars, pc' = "clear", NEW r \in stable'
    PROVE  Kept(r)'
<1>1. CASE CopyEnd
    <2>1. /\ pc = "copy" /\ stack = <<>> /\ Clears /\ r \in stable /\ UNCHANGED <<dst, was>>
        BY <1>1 DEF CopyEnd, trees, history, End
    <2>2. Clean /\ Owed(r)
        BY <2>1 DEF Clears, Clean, Owed, Carries
    <2>. QED  BY <2>1, <2>2, CarryEnd DEF Kept
<1>2. CASE pc = "clear"
    <2>1. Onward
        BY <1>2, StepsOnward DEF StartSync, StartCopy, Rename, Begin
    <2>2. dst' = dst
        BY <1>2, ClearLeaves
    <2>. QED  BY <1>2, <2>1, <2>2 DEF Carries, Onward, Kept
<1>. QED  BY <1>1, <1>2, PassSteps

\* A command ends well only with everything carried over.
LEMMA CarrySuccess ==
    ASSUME Shape, Shape', Carries, [Next]_vars, pc' = "idle", outcome' = "ok",
           NEW r \in stable', was'[r].kind # "special"
    PROVE  Kept(r)'
<1>1. CASE Rename
    <2>1. outcome' = "ok" => dst' = src /\ was' = src /\ stable' = DOMAIN src
        BY <1>1 DEF Rename, Begin, End
    <2>2. r \in DOMAIN src /\ src[r] \in Entries
        BY <2>1 DEF Shape, TreesOK, IsTree
    <2>. QED  BY <2>1, <2>2, SameIs DEF Kept
<1>2. CASE ~Rename
    <2>1. Onward
        BY <1>2, StepsOnward DEF StartSync, StartCopy
    <2>2. r \in stable /\ UNCHANGED was /\ (Clean' => Clean)
        BY <2>1 DEF Onward, Clean
    <2>3. ~Crash /\ \A p : ~ClearFails(p)
        BY DEF Crash, ClearFails, End
    <2>4. CASE MirrorEnd
        <3>1. pc = "mirror" /\ stack = <<>> /\ Verdict = "ok" /\ dst' = dst
            BY <2>4 DEF MirrorEnd, End, trees
        <3>2. Clean /\ Owed(r)
            BY <2>2, <3>1 DEF Verdict, Clean, Owed
        <3>. QED  BY <2>2, <3>1, <3>2, CarryEnd DEF Kept
    <2>5. CASE PruneEnd
        <3>1. pc = "prune" /\ Verdict = "ok" /\ dst' = dst
            BY <2>5 DEF PruneEnd, End, trees
        <3>2. Clean
            BY <3>1 DEF Verdict, Clean
        <3>. QED  BY <2>2, <3>1, <3>2 DEF Carries, Kept
    <2>6. CASE CopyEnd
        <3>1. pc = "copy" /\ stack = <<>> /\ Verdict = "ok" /\ dst' = dst
            BY <2>6 DEF CopyEnd, End, trees
        <3>2. Clean /\ Owed(r)
            BY <2>2, <3>1 DEF Verdict, Clean, Owed
        <3>. QED  BY <2>2, <3>1, <3>2, CarryEnd DEF Kept
    <2>7. CASE ClearUp
        <3>1. pc = "clear" /\ dst' = dst
            BY <2>7 DEF ClearUp
        <3>. QED  BY <2>2, <3>1 DEF Carries, Kept
    <2>8. CASE pc = "idle"
        <3>1. ~StartSync /\ ~StartCopy
            BY DEF StartSync, StartCopy
        <3>2. UNCHANGED vars => UNCHANGED <<dst, outcome>>
            BY DEF vars, trees
        <3>3. UNCHANGED <<dst, outcome>>
            BY <1>2, <2>8, <3>1, <3>2, IdleSteps, EditsStack
        <3>. QED  BY <2>2, <2>8, <3>3 DEF Carries, SuccessCarries, Kept
    <2>. QED  BY <1>2, <2>3, <2>4, <2>5, <2>6, <2>7, <2>8, PassSteps
<1>. QED  BY <1>1, <1>2

\* Success means carried over, from the first pass to the last.
LEMMA CarriesNext == Shape /\ Steady /\ QuickInv /\ Spared /\ Carries /\ [Next]_vars => Carries'
<1>. SUFFICES ASSUME Shape, Steady, QuickInv, Spared, Carries, [Next]_vars
              PROVE  Carries'
    OBVIOUS
<1>1. Shape'
    BY ShapeNext
<1>2. pc' \in {"mirror", "copy"} /\ Clean' => \A p \in stable' : Owed(p)' => Kept(p)' \/ Ahead(p)'
    BY CarryTransfer
<1>3. pc' = "prune" /\ Clean' => \A p \in stable' : was'[p].kind # "special" => Kept(p)'
    BY CarryPrune
<1>4. pc' = "clear" => \A p \in stable' : Kept(p)'
    BY CarryClear
<1>5. pc' = "copy" => ~blind'
    <2>1. StartCopy => ~blind'
        BY DEF StartCopy
    <2>2. pc = "copy" => Onward
        BY StepsOnward DEF StartSync, StartCopy, Rename, Begin
    <2>. QED  BY <2>1, <2>2, PassSteps DEF Carries, Onward
<1>6. SuccessCarries'
    BY <1>1, CarrySuccess DEF SuccessCarries, Kept
<1>. QED  BY <1>2, <1>3, <1>4, <1>5, <1>6 DEF Carries

\* The owner removes nothing of what is counted as untouched afterwards.
LEMMA EditsKeep ==
    ASSUME Shape,
           \/ EditSeal
           \/ \E p \in Paths : EditFile(p) \/ EditMeta(p) \/ EditRemove(p) \/ EditCreate(p),
           NEW r \in stable', r \in DOMAIN src
    PROVE  r \in DOMAIN src'
<1>1. EditSeal => src' = src
    BY DEF EditSeal
<1>2. ASSUME NEW p \in Paths, EditFile(p) \/ EditMeta(p)
      PROVE  DOMAIN src' = DOMAIN src
    BY <1>2, EditFileDoes, EditMetaDoes
<1>3. ASSUME NEW p \in Paths, EditRemove(p) \/ EditCreate(p)
      PROVE  r \in DOMAIN src'
    <2>1. r # p /\ r \notin Below(src, p)
        BY <1>3 DEF EditRemove, EditCreate, Touch
    <2>2. Apart(src, src', {p}) /\ p \in TreePaths
        BY <1>3, EditReplaces
    <2>3. DOMAIN src \subseteq AllPaths
        BY DEF Shape, TreesOK, IsTree, AllPaths, TreePaths
    <2>4. ~IsPrefix(p, r) /\ r \in TreePaths
        BY <2>1, <2>2, <2>3, AboveBelow DEF AllPaths
    <2>. QED  BY <2>2, <2>4 DEF Apart
<1>. QED  BY <1>1, <1>2, <1>3

\* A move has what is untouched in its source until it has carried over all of it.
LEMMA MoveNext ==
    Shape /\ Steady /\ QuickInv /\ Spared /\ Carries /\ MoveLosesNothing /\ [Next]_vars => MoveLosesNothing'
<1>. SUFFICES ASSUME Shape, Steady, QuickInv, Spared, Carries, MoveLosesNothing, [Next]_vars,
                     op'.kind = "move", NEW r \in stable'
              PROVE  r \in DOMAIN src' \/ Kept(r)'
    BY DEF MoveLosesNothing, Kept
<1>1. Shape' /\ Steady' /\ Carries'
    BY ShapeNext, SteadyNext, CarriesNext
<1>2. CASE pc' \in {"collect", "mirror", "copy"}
    BY <1>1, <1>2 DEF Steady, Active, Standing
<1>3. CASE pc' = "clear"
    BY <1>1, <1>3 DEF Carries
<1>4. pc' # "prune"
    BY <1>1 DEF Shape, Basics, KindOK
<1>5. CASE pc' = "idle" /\ pc # "idle"
    <2>1. Onward
        BY <1>5, StepsOnward DEF StartSync, StartCopy, Rename, Begin
    <2>2. op.kind = "move" /\ r \in stable /\ UNCHANGED was
        BY <2>1 DEF Onward
    <2>3. CASE pc = "clear"
        <3>1. Kept(r) /\ dst' = dst
            BY <2>2, <2>3, ClearLeaves DEF Carries
        <3>. QED  BY <2>2, <3>1 DEF Kept
    <2>4. CASE pc # "clear"
        <3>1. pc = "copy"
            BY <1>5, <2>2, <2>4 DEF Shape, Basics, KindOK, Passes
        <3>2. r \in DOMAIN src
            BY <2>2, <3>1 DEF Steady, Active, Standing
        <3>3. ~PruneEnd /\ ~ClearUp /\ ~Rename /\ \A p : ~ClearFails(p)
            BY <3>1 DEF PruneEnd, ClearUp, Rename, Begin, ClearFails, Entry
        <3>4. src' = src
            BY <1>5, <3>3, PassSteps, TreesStay DEF trees
        <3>. QED  BY <3>2, <3>4
    <2>. QED  BY <2>3, <2>4
<1>6. CASE pc' = "idle" /\ pc = "idle"
    <2>1. ~StartSync /\ ~StartCopy
        BY <1>6 DEF StartSync, StartCopy
    <2>2. CASE Rename
        <3>1. /\ was' = src /\ stable' = DOMAIN src
              /\ dst' = src \/ src' = src
            BY <2>2 DEF Rename, Begin, trees
        <3>2. r \in DOMAIN src /\ src[r] \in Entries
            BY <3>1 DEF Shape, TreesOK, IsTree
        <3>. QED  BY <3>1, <3>2, SameIs DEF Kept
    <2>3. CASE ~Rename
        <3>1. Onward
            BY <2>1, <2>3, StepsOnward
        <3>2. r \in stable /\ UNCHANGED <<was, op>>
            BY <3>1 DEF Onward
        <3>3. r \in DOMAIN src \/ Kept(r)
            BY <3>2 DEF MoveLosesNothing, Kept
        <3>4. CASE UNCHANGED vars
            BY <3>3, <3>4 DEF vars, trees, history, Kept
        <3>5. CASE \/ EditSeal
                   \/ \E p \in Paths : EditFile(p) \/ EditMeta(p) \/ EditRemove(p) \/ EditCreate(p)
            <4>1. dst' = dst
                BY <3>5, EditsStack
            <4>. QED  BY <3>2, <3>3, <3>5, <4>1, EditsKeep DEF Kept
        <3>. QED  BY <1>6, <2>1, <2>3, <3>4, <3>5, IdleSteps
    <2>. QED  BY <2>2, <2>3
<1>7. pc' \in Passes
    BY <1>1 DEF Shape, Basics
<1>. QED  BY <1>2, <1>3, <1>4, <1>5, <1>6, <1>7 DEF Passes

\* What leaves the destination has been touched, or is being reported.
SparesStep == \A p \in DOMAIN dst \ DOMAIN dst' : p \in stable => p \in skipped'

\* What a step takes away untouched is noted by it.
LEMMA SparesNext == Shape /\ Steady /\ Spared /\ [Next]_vars => SparesStep
<1>. SUFFICES ASSUME Shape, Steady, Spared, [Next]_vars,
                     NEW r \in DOMAIN dst \ DOMAIN dst', r \in stable
              PROVE  r \in skipped'
    BY DEF SparesStep
<1>1. r \in AllPaths /\ r \in TreePaths /\ IsTree(dst)
    BY DEF Shape, TreesOK, IsTree, AllPaths, TreePaths
<1>2. \A p : Noted(p) => p \in skipped'
    BY DEF Noted, Note
<1>3. ASSUME NEW p \in TreePaths, Apart(dst, dst', {p})
      PROVE  IsPrefix(p, r)
    BY <1>1, <1>3 DEF Apart
<1>4. ASSUME NEW p, MirrorDir(p) \/ MirrorLink(p) \/ CopyDir(p) \/ CopyLink(p)
      PROVE  r \in skipped'
    <2>1. Entry("mirror", p) \/ Entry("copy", p)
        BY <1>4 DEF MirrorDir, MirrorLink, CopyDir, CopyLink
    <2>2. p \in TreePaths /\ pc \in {"mirror", "copy"}
        BY <2>1, EntryIs
    <2>3. Apart(dst, dst', {p})
        BY <1>4, MirrorDirDoes, MirrorLinkDoes, CopyDirDoes, CopyLinkDoes
    <2>4. IsPrefix(p, r)
        BY <1>3, <2>2, <2>3
    <2>5. r = p
        <3>1. CASE MirrorLink(p) \/ CopyLink(p)
            <4>1. There(p) /\ src[p].kind # "dir"
                BY <3>1 DEF MirrorLink, CopyLink, Found
            <4>. QED  BY <2>2, <2>4, <4>1, OnlyItself DEF Steady, Active
        <3>2. CASE MirrorDir(p) \/ CopyDir(p)
            BY <3>2 DEF MirrorDir, CopyDir, Put, Without
        <3>. QED  BY <1>4, <3>1, <3>2
    <2>6. Noted(p)
        BY <1>4, <2>5 DEF MirrorDir, MirrorLink, CopyDir, CopyLink, Put
    <2>. QED  BY <1>2, <2>5, <2>6
<1>5. ~(Check \/ MirrorUp \/ CopyUp)
    <2>1. Check => DOMAIN dst' = DOMAIN dst
        BY DEF Check, Refreshed
    <2>2. MirrorUp \/ CopyUp => DOMAIN dst' = DOMAIN dst
        BY DEF MirrorUp, CopyUp, Sealed
    <2>. QED  BY <2>1, <2>2
<1>6. ~(CopyOpen \/ CopyWrite \/ CopyWriteFails)
    <2>1. SUFFICES ASSUME CopyOpen \/ CopyWrite \/ CopyWriteFails
                   PROVE  FALSE
        OBVIOUS
    <2>2. doing.stage \in {"open", "write"}
        BY <2>1 DEF CopyOpen, CopyWrite, CopyWriteFails
    <2>3. /\ doing.path \in AllPaths /\ SourceName(doing.path)
          /\ doing.name \in {doing.path, TempOf(doing.path)} /\ pc \in {"mirror", "copy"}
        BY <2>2, DoingIs
    <2>4. SourceName(r)
        BY <2>3, Untouched DEF Steady, Active
    <2>5. r = doing.name /\ doing.name # doing.path
        BY <2>1, CopyOpenDoes DEF CopyWrite, CopyWriteFails, Put, Without
    <2>. QED  BY <2>3, <2>4, <2>5, TempIs
<1>7. ASSUME PruneNext
      PROVE  FALSE
    <2>1. PICK p \in targets : dst' = Drop(dst, p) \/ dst' \in Remnants(dst, p)
        BY <1>7 DEF PruneNext
    <2>2. p \in TreePaths /\ Apart(dst, dst', {p})
        BY <2>1, PruneNextDoes
    <2>. QED  BY <1>3, <1>7, <2>1, <2>2 DEF Spared, PruneNext
<1>8. ~Rename
    <2>1. dst # EmptyTree
        BY DEF EmptyTree
    <2>. QED  BY <2>1 DEF Rename, trees
<1>9. dst' # dst
    OBVIOUS
<1>10. ~(MirrorEnd \/ CollectDown \/ CollectUp \/ CollectEnd \/ StartSync \/ StartCopy \/ MirrorDown
         \/ PruneEnd \/ CopyEnd \/ ClearUp \/ EditSeal \/ Crash \/ Over \/ UNCHANGED vars)
    BY <1>9, TreesStay DEF trees
<1>11. ASSUME NEW p
       PROVE  ~(MirrorGone(p) \/ MirrorSpecial(p) \/ MirrorFile(p) \/ CopyGone(p) \/ CopySpecial(p) \/ CopyFile(p)
                \/ ClearGone(p) \/ ClearFile(p) \/ ClearDown(p) \/ ClearFails(p)
                \/ EditFile(p) \/ EditMeta(p) \/ EditRemove(p) \/ EditCreate(p))
    BY <1>9, TreesStay DEF trees
<1>. QED  BY <1>4, <1>5, <1>6, <1>7, <1>8, <1>10, <1>11, StepCases

-----------------------------------------------------------------------------
(* What a transfer does for sure. *)

IInv == Shape /\ QuickInv /\ Steady /\ Noticed /\ Spared /\ Recorded /\ Pruned
        /\ Carries /\ SuccessPrunes /\ MoveLosesNothing

\* It begins so.
LEMMA Begins == Init => IInv
<1>. SUFFICES ASSUME Init
              PROVE  IInv
    OBVIOUS
<1>1. Shape /\ QuickInv
    BY ShapeInit, QuickInit
<1>2. Steady /\ Noticed /\ Spared /\ Pruned
    BY DEF Init, Steady, Active, Noticed, Spared, Pruned
<1>3. Recorded /\ SuccessPrunes /\ Carries
    BY DEF Init, Recorded, SuccessPrunes, Carries, SuccessCarries
<1>4. MoveLosesNothing
    BY DEF Init, MoveLosesNothing
<1>. QED  BY <1>1, <1>2, <1>3, <1>4 DEF IInv

\* It stays so.
LEMMA Continues == IInv /\ [Next]_vars => IInv'
BY ShapeNext, QuickNext, SteadyNext, NoticedNext, SparedNext, RecordedNext, PrunedNext,
   CarriesNext, SuccessPrunesNext, MoveNext DEF IInv

\* A transfer that reports success has carried over whatever of the source was
\* there all along, but the special files, whatever else was edited meanwhile.
THEOREM SuccessfulTransfersCarry == Spec => []SuccessCarries
<1>1. IInv => SuccessCarries
    BY DEF IInv, Carries
<1>. QED  BY <1>1, Begins, Continues, PTL DEF Spec

\* After a successful sync --delete the destination has nothing the source
\* never had, but next to a special file.
THEOREM SuccessfulSyncsPrune == Spec => []SuccessPrunes
<1>1. IInv => SuccessPrunes
    BY DEF IInv
<1>. QED  BY <1>1, Begins, Continues, PTL DEF Spec

\* A move has everything untouched in its source or in its destination, at any
\* moment, in success, failure and death.
THEOREM MovesLoseNothing == Spec => []MoveLosesNothing
<1>1. IInv => MoveLosesNothing
    BY DEF IInv
<1>. QED  BY <1>1, Begins, Continues, PTL DEF Spec

\* No step takes from the destination what stands untouched in the source,
\* unless it notes it as skipped.
THEOREM CounterpartsAreSpared == Spec => SparesCounterparts
<1>1. IInv /\ [Next]_vars => [SparesStep]_vars
    BY SparesNext DEF IInv
<1>. QED  BY <1>1, Begins, Continues, PTL DEF Spec, SparesCounterparts, SparesStep

=============================================================================
