------------------------------ MODULE FileTrees ------------------------------
(***************************************************************************)
(* Directory trees: functions from the paths below a root, sequences of    *)
(* names, to entries with a "kind".  A directory that is not the root is   *)
(* an entry of its own.                                                    *)
(***************************************************************************)
EXTENDS Naturals, FiniteSets, Sequences, SequencesExt, TLC

CONSTANT Names      \* the names a component may have, in string order

EmptyTree == <<>>

TreePaths == Seq(Range(Names))      \* the root included
AllPaths  == TreePaths \ {<<>>}

IsA(k, t, p)  == p \in DOMAIN t /\ t[p].kind = k
IsDir(t, p)   == p = <<>> \/ IsA("dir", t, p)
LevelsOf(p)   == {SubSeq(p, 1, n) : n \in 1..Len(p)}
Above(p)      == LevelsOf(p) \ {p}
Below(t, p)   == {q \in DOMAIN t : IsStrictPrefix(p, q)}
Without(t, S) == [p \in DOMAIN t \ S |-> t[p]]

\* Mutant: what is below it is left.
DropAlone(t, p) == Without(t, {p})

\* rmtree_at(): the entry and all that is below it; links are not followed.
Drop(t, p) == Without(t, Below(t, p) \union {p})
Put(t, p, e) == [q \in DOMAIN t \union {p} |-> IF q = p THEN e ELSE t[q]]

PathLess(p, q) ==
    LET rank(n) == CHOOSE i \in DOMAIN Names : Names[i] = n
        differ  == {i \in 1..Len(p) : i > Len(q) \/ p[i] # q[i]}
        first   == CHOOSE i \in differ : \A j \in differ : i <= j
    IN  IF differ = {} THEN Len(p) < Len(q)
        ELSE first <= Len(q) /\ rank(p[first]) < rank(q[first])
Sorted(S) ==
    [i \in 1..Cardinality(S) |-> CHOOSE p \in S : Cardinality({q \in S : PathLess(q, p)}) = i - 1]
=============================================================================
