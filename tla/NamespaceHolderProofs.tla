------------------------ MODULE NamespaceHolderProofs ------------------------
(***************************************************************************)
(* Theorems about NamespaceHolder, for any number of sessions, kills,      *)
(* pids, launchers, deaths and strangers.                                  *)
(*                                                                         *)
(* That every holder is on record says nothing of a holder that is only    *)
(* being made, nor of one that is being released.  The invariant follows   *)
(* each launcher and holder through the handshake (Spawned), each session  *)
(* through it on the other side (Shaken), and says of every holder that    *)
(* it is on record, will never settle, or is in the hands of the one       *)
(* session that has the lock (Accounted).                                  *)
(***************************************************************************)
EXTENDS NamespaceHolder, SequenceTheorems, TLAPS

Making   == Handshake \union Recording
Dead     == {"zombie", "gone"}
Young    == {"born", "stack", "chroot"}
ModeType == [chroot : BOOLEAN, idmap : BOOLEAN, foreground : BOOLEAN]

-----------------------------------------------------------------------------
(* Types *)

SpawnType == [launcher : LauncherAt, holder : HolderAt, pid : Pids \union {0}, mode : ModeType,
              userns : BOOLEAN]

PipeType == [pid   : {<<>>, <<"MAP">>, <<"pid">>, <<"K">>},
             map   : {<<>>, <<"M">>},
             idmap : {<<>>, <<"I">>},
             sync  : {<<>>, <<"K">>},
             go    : Seq({"go"})]

ClientType == [at : Places, mode : ModeType, spawn : Nat, pid : Pids \union {0}, start : Nat,
               todo : {<<>>, <<"maxiso">>, <<"flags", "maxiso">>, AllFiles}, then : Places]

RecordType == {Absent, Empty} \union
              [kind : {"whole"}, pid : Pids, start : Nat, custom : BOOLEAN]

Typed ==
    /\ has \in [pid : BOOLEAN, user : BOOLEAN]
    /\ spawn \in Seq(SpawnType) /\ Len(spawn) <= MaxSpawns
    /\ pipe \in Seq(PipeType) /\ Len(pipe) = Len(spawn)
    /\ owner \in [Pids -> Nat]
    /\ record \in RecordType
    /\ flags \in BOOLEAN /\ maxiso \in BOOLEAN
    /\ lock \in Sessions \union {Nobody}
    /\ me \in [Clients -> ClientType]

-----------------------------------------------------------------------------
(* The lock and the pids *)

\* Whether a session is somewhere between taking sessions.lock and leaving it.
Locked(c) ==
    \/ me[c].at \in Making \union {"look", "spawn", "mounts", "unlock"} \union Releasing
    \/ me[c].at = "clean" /\ me[c].then \in {"spawn", "unlock"}

\* Where a client can be, and what it has with it.
Placed(c) ==
    /\ c \in Sessions =>
          /\ lock = c <=> Locked(c)
          /\ me[c].at # "seek"
          /\ me[c].at \in Releasing => me[c].then = "unlock"
          /\ me[c].at = "clean" => me[c].then \in {"lock", "spawn", "unlock"}
    /\ c \in Killers =>
          me[c].at \in {"out", "seek", "clean"} \union Releasing /\ me[c].then = "out"
    /\ me[c].at = "clean" => me[c].todo # <<>>

LockInv == \A c \in Clients : Placed(c)

\* A pid is a holder's until the holder is reaped.
Owned ==
    \A k \in Spawns :
        /\ spawn[k].holder # "none" => spawn[k].pid \in Pids
        /\ spawn[k].holder \notin {"none", "gone"} => owner[spawn[k].pid] = k

\* A client that is about to record or to signal a pid has no stranger's.
Spares(c) ==
    /\ me[c].at \in Recording \union {"term", "poll", "kill"} => me[c].pid \in Pids
    /\ me[c].at = "open" => owner[me[c].pid] # Stranger
    /\ me[c].at = "write" => me[c].start # Stranger
    /\ me[c].at \in {"term", "poll", "kill"} /\ me[c].start # NoStart
          => owner[me[c].pid] # Stranger

NoStrangers ==
    /\ record.kind = "whole" => record.start # Stranger
    /\ \A c \in Clients : Spares(c)
    /\ struck = FALSE

-----------------------------------------------------------------------------
(* The handshake *)

\* What a launcher, its holder and their pipes are to each other.
Spawned(k) ==
    LET s == spawn[k]
        w == pipe[k]
    IN  /\ s.launcher \in {"born", "maps", "fork"} => s.holder = "none"
        /\ s.launcher \in {"sync", "self", "wait"} => s.holder # "none"
        /\ s.launcher \in {"born", "fork", "sync"} => w.pid = <<>>
        /\ s.launcher = "self" /\ s.holder \in Young => w.pid = <<>>
        /\ w.pid = <<"MAP">> => s.launcher \in {"maps", "gone"} /\ s.holder = "none" /\ w.map = <<>>
        /\ w.pid \in {<<"pid">>, <<"K">>} => s.holder \in Settled \union Dead
        /\ w.pid = <<"K">> => s.launcher \in {"self", "gone"}
        /\ w.sync = <<"K">> => s.holder \in Settled \union Dead
        /\ s.launcher = "sync" /\ s.holder \in Settled => w.sync = <<"K">>
        /\ s.launcher = "wait" => s.holder \notin Young
        /\ s.launcher = "gone" /\ s.holder \in Young => k \in astray

\* What a session knows of the holder it makes.
Shaken(c) ==
    LET k == My(c)
        s == spawn[k]
        w == pipe[k]
    IN  me[c].at \in Making =>
        /\ k \in Spawns
        /\ s.mode.chroot = me[c].mode.chroot
        /\ me[c].at = "map" =>
              /\ w.map = <<>> /\ w.idmap = <<>>
              /\ s.launcher = "born" \/ w.pid = <<"MAP">> => s.mode.idmap = me[c].mode.idmap
        /\ me[c].at = "idmap" =>
              /\ s.mode.idmap /\ w.idmap = <<>>
              /\ s.launcher # "born"
              /\ s.holder \in {"none", "born", "stack"} \union Dead
        /\ me[c].at = "reap" =>
              /\ w.pid = <<>> /\ s.launcher \in {"self", "wait", "gone"}
              /\ s.launcher = "self" => s.holder \notin Young
        /\ me[c].at \in Handshake /\ s.launcher \in {"wait", "gone"} /\ s.holder \in Settled =>
              k \in astray \/ w.pid = <<"pid">>
        /\ me[c].at \in Recording =>
              s.holder \in Settled \union Dead /\ me[c].pid = s.pid

-----------------------------------------------------------------------------
(* The record *)

\* A holder that is dead, was never forked, or waits for a word that nobody will say.
Doomed(k) ==
    \/ spawn[k].holder \in Dead
    \/ spawn[k].holder = "none" /\ spawn[k].launcher = "gone"
    \/ /\ spawn[k].holder \in {"none", "born", "stack"} /\ spawn[k].launcher # "born"
       /\ spawn[k].mode.idmap /\ pipe[k].idmap = <<>>
       /\ \A c \in Sessions : My(c) = k => me[c].at \notin {"map", "idmap"}

Written(k) == record.kind = "whole" /\ record.pid = spawn[k].pid /\ record.start = k

OnRecord(k) ==
    /\ spawn[k].holder \in Settled
    /\ Written(k) /\ flags
    /\ spawn[k].mode.chroot => maxiso

\* The record of a holder that is being recorded, as far as it has got.
Progress(c) ==
    My(c) \notin astray /\ spawn[My(c)].holder \in Settled =>
        /\ me[c].at = "write" => record = Empty /\ me[c].start = My(c)
        /\ me[c].at = "flags" => Written(My(c))
        /\ me[c].at = "maxiso" => Written(My(c)) /\ flags

\* What a session knows of all the others: there is no other holder, while it
\* makes one; there is none that it does not release.
Certain(c) ==
    /\ \A k \in Spawns \ astray :
          /\ \/ me[c].at \in Making \union {"spawn"}
             \/ me[c].at = "clean" /\ me[c].then # "lock"
             => Doomed(k) \/ (me[c].at \in Making /\ My(c) = k)
          /\ me[c].at \in {"term", "poll", "kill"} =>
                Doomed(k) \/ (spawn[k].holder \in Settled /\ me[c].pid = spawn[k].pid)
    /\ me[c].at \in Recording => Progress(c)

\* Every holder is on record, in the hands of a session, or no holder.
Found(k) ==
    \/ Doomed(k)
    \/ OnRecord(k)
    \/ \E c \in Sessions : My(c) = k /\ me[c].at \in Making

Accounted ==
    /\ \A k \in Spawns \ astray : Found(k)
    /\ \A c \in Sessions : Certain(c)

HandInv ==
    /\ \A k \in Spawns : Spawned(k)
    /\ \A c \in Sessions : Shaken(c)

IInv == Typed /\ LockInv /\ Owned /\ NoStrangers /\ HandInv /\ Accounted

-----------------------------------------------------------------------------
(* Changing a launcher, a holder, a pipe, a client *)

\* One entry of a sequence changes.
LEMMA Changed ==
    ASSUME NEW S, NEW seq \in Seq(S), NEW k \in 1..Len(seq), NEW v \in S
    PROVE  LET new == [seq EXCEPT ![k] = v]
           IN  /\ new \in Seq(S) /\ Len(new) = Len(seq) /\ new[k] = v
               /\ \A j \in 1..Len(seq) : j # k => new[j] = seq[j]
BY ExceptSeq

\* What the pipes do with words.
LEMMA Words ==
    /\ \A w : Append(<<>>, w) = <<w>> /\ Head(<<w>>) = w /\ Tail(<<w>>) = <<>>
    /\ \A w : <<w>> # <<>>
    /\ <<"MAP">> # <<"pid">> /\ <<"MAP">> # <<"K">> /\ <<"pid">> # <<"K">>
OBVIOUS

\* The types of a launcher, its holder and its pipes.
LEMMA SpawnFields ==
    ASSUME Typed, NEW k \in Spawns
    PROVE  /\ spawn[k] \in SpawnType /\ pipe[k] \in PipeType
           /\ spawn[k].launcher \in LauncherAt /\ spawn[k].holder \in HolderAt
           /\ spawn[k].pid \in Pids \union {0} /\ spawn[k].mode \in ModeType
           /\ pipe[k].pid \in {<<>>, <<"MAP">>, <<"pid">>, <<"K">>}
           /\ pipe[k].map \in {<<>>, <<"M">>}
           /\ pipe[k].idmap \in {<<>>, <<"I">>}
           /\ pipe[k].sync \in {<<>>, <<"K">>}
<1>1. spawn[k] \in SpawnType /\ pipe[k] \in PipeType
  BY DEF Typed, Spawns
<1> QED
  BY <1>1 DEF SpawnType, PipeType

\* The launcher k moves, and nothing else of it.
LEMMA LauncherMoves ==
    ASSUME Typed, NEW k \in Spawns, NEW place \in LauncherAt, LauncherGoes(k, place)
    PROVE  /\ spawn' \in Seq(SpawnType) /\ Len(spawn') = Len(spawn)
           /\ spawn'[k].launcher = place /\ spawn'[k].holder = spawn[k].holder
           /\ spawn'[k].pid = spawn[k].pid /\ spawn'[k].mode = spawn[k].mode
           /\ spawn'[k].userns = spawn[k].userns
           /\ \A j \in Spawns : j # k => spawn'[j] = spawn[j]
<1>1. spawn[k] \in SpawnType
  BY SpawnFields
<1>2. [spawn[k] EXCEPT !.launcher = place] \in SpawnType
  BY <1>1 DEF SpawnType
<1>3. spawn' = [spawn EXCEPT ![k] = [spawn[k] EXCEPT !.launcher = place]]
  BY DEF LauncherGoes
<1>4. /\ spawn' \in Seq(SpawnType) /\ Len(spawn') = Len(spawn)
      /\ spawn'[k] = [spawn[k] EXCEPT !.launcher = place]
      /\ \A j \in Spawns : j # k => spawn'[j] = spawn[j]
  BY <1>2, <1>3, Changed DEF Typed, Spawns
<1> QED
  BY <1>1, <1>4 DEF SpawnType

\* The holder k moves, and nothing else of it.
LEMMA HolderMoves ==
    ASSUME Typed, NEW k \in Spawns, NEW place \in HolderAt, HolderGoes(k, place)
    PROVE  /\ spawn' \in Seq(SpawnType) /\ Len(spawn') = Len(spawn)
           /\ spawn'[k].holder = place /\ spawn'[k].launcher = spawn[k].launcher
           /\ spawn'[k].pid = spawn[k].pid /\ spawn'[k].mode = spawn[k].mode
           /\ spawn'[k].userns = spawn[k].userns
           /\ \A j \in Spawns : j # k => spawn'[j] = spawn[j]
<1>1. spawn[k] \in SpawnType
  BY SpawnFields
<1>2. [spawn[k] EXCEPT !.holder = place] \in SpawnType
  BY <1>1 DEF SpawnType
<1>3. spawn' = [spawn EXCEPT ![k] = [spawn[k] EXCEPT !.holder = place]]
  BY DEF HolderGoes
<1>4. /\ spawn' \in Seq(SpawnType) /\ Len(spawn') = Len(spawn)
      /\ spawn'[k] = [spawn[k] EXCEPT !.holder = place]
      /\ \A j \in Spawns : j # k => spawn'[j] = spawn[j]
  BY <1>2, <1>3, Changed DEF Typed, Spawns
<1> QED
  BY <1>1, <1>4 DEF SpawnType

\* The words a pipe is for, apart from "go".
Word(p, w) == \/ p = "pid" /\ w \in {"MAP", "pid", "K"}
              \/ p = "map" /\ w = "M"
              \/ p = "idmap" /\ w = "I"
              \/ p = "sync" /\ w = "K"

\* A word is put into a pipe of k that is empty.
LEMMA Telling ==
    ASSUME Typed, NEW k \in Spawns, NEW p, NEW w, Word(p, w),
           pipe[k][p] = <<>>, pipe' = Told(k, p, w)
    PROVE  /\ pipe' \in Seq(PipeType) /\ Len(pipe') = Len(pipe)
           /\ pipe'[k][p] = <<w>>
           /\ \A q \in {"pid", "map", "idmap", "sync"} \ {p} : pipe'[k][q] = pipe[k][q]
           /\ \A j \in Spawns : j # k => pipe'[j] = pipe[j]
<1>1. pipe[k] \in PipeType
  BY SpawnFields
<1>2. [pipe[k] EXCEPT ![p] = <<w>>] \in PipeType
  BY <1>1 DEF PipeType, Word
<1>3. pipe' = [pipe EXCEPT ![k] = [pipe[k] EXCEPT ![p] = Append(pipe[k][p], w)]]
  BY DEF Told
<1>4. pipe' = [pipe EXCEPT ![k] = [pipe[k] EXCEPT ![p] = <<w>>]]
  BY <1>3, Words
<1>5. /\ pipe' \in Seq(PipeType) /\ Len(pipe') = Len(pipe)
      /\ pipe'[k] = [pipe[k] EXCEPT ![p] = <<w>>]
      /\ \A j \in Spawns : j # k => pipe'[j] = pipe[j]
  BY <1>2, <1>4, Changed DEF Typed, Spawns
<1>6. p \in {"pid", "map", "idmap", "sync"}
  BY DEF Word
<1> QED
  BY <1>1, <1>5, <1>6 DEF PipeType

\* The word that a pipe of k holds is taken.
LEMMA Taking ==
    ASSUME Typed, NEW k \in Spawns, NEW p, NEW w, Word(p, w),
           Hears(k, p, w), pipe' = Took(k, p)
    PROVE  /\ pipe[k][p] = <<w>>
           /\ pipe' \in Seq(PipeType) /\ Len(pipe') = Len(pipe)
           /\ pipe'[k][p] = <<>>
           /\ \A q \in {"pid", "map", "idmap", "sync"} \ {p} : pipe'[k][q] = pipe[k][q]
           /\ \A j \in Spawns : j # k => pipe'[j] = pipe[j]
<1>1. pipe[k] \in PipeType
  BY SpawnFields
<1>2. [pipe[k] EXCEPT ![p] = <<>>] \in PipeType
  BY <1>1 DEF PipeType, Word
<1>3. pipe[k][p] = <<w>>
  BY <1>1, Words DEF PipeType, Word, Hears
<1>4. pipe' = [pipe EXCEPT ![k] = [pipe[k] EXCEPT ![p] = Tail(pipe[k][p])]]
  BY DEF Took
<1>5. pipe' = [pipe EXCEPT ![k] = [pipe[k] EXCEPT ![p] = <<>>]]
  BY <1>3, <1>4, Words
<1>6. /\ pipe' \in Seq(PipeType) /\ Len(pipe') = Len(pipe)
      /\ pipe'[k] = [pipe[k] EXCEPT ![p] = <<>>]
      /\ \A j \in Spawns : j # k => pipe'[j] = pipe[j]
  BY <1>2, <1>5, Changed DEF Typed, Spawns
<1>7. p \in {"pid", "map", "idmap", "sync"}
  BY DEF Word
<1> QED
  BY <1>1, <1>3, <1>6, <1>7 DEF PipeType

-----------------------------------------------------------------------------
(* Steps of launchers and holders *)

\* What is left when one launcher and its holder move: the clients, the files
\* and the others stay as they are, and a holder that is up or dead goes no way back.
Framed(k) ==
    /\ UNCHANGED <<has, record, flags, maxiso, lock, me, struck>>
    /\ spawn' \in Seq(SpawnType) /\ Len(spawn') = Len(spawn)
    /\ pipe' \in Seq(PipeType) /\ Len(pipe') = Len(pipe)
    /\ \A j \in Spawns : j # k => spawn'[j] = spawn[j] /\ pipe'[j] = pipe[j]
    /\ owner' \in [Pids -> Nat]
    /\ \A p \in Pids : owner[p] # Stranger => owner'[p] # Stranger
    /\ astray \subseteq astray'
    /\ spawn'[k].mode.chroot = spawn[k].mode.chroot
    /\ spawn[k].holder # "none" => spawn'[k].pid = spawn[k].pid
    /\ spawn[k].holder \in Dead => spawn'[k].holder \in Dead
    /\ spawn[k].holder \in Settled => spawn'[k].holder \in Settled \union Dead
    /\ Owned'

\* What the step of k must show of k itself.
Evolved(k) ==
    /\ Spawned(k)'
    /\ \A c \in Sessions : My(c) = k => Shaken(c)'
    /\ Doomed(k) => Doomed(k)'

\* A step of the launcher or holder k that changes only what is its own (Framed) and leaves
\* it where the handshake has it (Evolved) keeps the invariant.
LEMMA KernelStep ==
    ASSUME IInv, NEW k \in Spawns, Framed(k), Evolved(k)
    PROVE  IInv'
<1> USE DEF IInv
<1>0. Spawns' = Spawns
  BY DEF Framed, Spawns
<1>1. Typed'
  BY DEF Typed, Framed
<1>2. LockInv'
  BY DEF LockInv, Placed, Locked, Framed
<1>3. NoStrangers'
  <2>1. /\ record' = record /\ me' = me /\ struck' = struck
        /\ \A p \in Pids : owner[p] # Stranger => owner'[p] # Stranger
    BY DEF Framed
  <2>2. ASSUME NEW c \in Clients PROVE Spares(c)'
    BY <2>1 DEF NoStrangers, Spares, Recording
  <2> QED
    BY <2>1, <2>2 DEF NoStrangers
<1>4. HandInv'
  <2>1. ASSUME NEW j \in Spawns PROVE Spawned(j)'
    <3>1. CASE j = k
      BY <3>1 DEF Evolved
    <3>2. CASE j # k
      <4>1. spawn'[j] = spawn[j] /\ pipe'[j] = pipe[j] /\ (j \in astray => j \in astray')
        BY <3>2 DEF Framed
      <4> QED
        BY <4>1 DEF Spawned, HandInv
    <3> QED
      BY <3>1, <3>2
  <2>2. ASSUME NEW c \in Sessions PROVE Shaken(c)'
    <3>1. CASE My(c) = k
      BY <3>1 DEF Evolved
    <3>2. CASE My(c) # k /\ me[c].at \in Making
      <4>0. Shaken(c)
        BY DEF HandInv
      <4>1. My(c) \in Spawns /\ My(c)' = My(c) /\ me'[c] = me[c]
        BY <4>0, <3>2 DEF Shaken, Framed, My
      <4>2. /\ spawn'[My(c)] = spawn[My(c)] /\ pipe'[My(c)] = pipe[My(c)]
            /\ My(c) \in astray => My(c) \in astray'
        BY <3>2, <4>1 DEF Framed
      <4> QED
        BY <4>0, <4>1, <4>2, <1>0 DEF Shaken
    <3>3. CASE me[c].at \notin Making
      BY <3>3 DEF Shaken, Framed
    <3> QED
      BY <3>1, <3>2, <3>3
  <2> QED
    BY <2>1, <2>2, <1>0 DEF HandInv
<1>5. Accounted'
  <2>0. /\ me' = me /\ record' = record /\ flags' = flags /\ maxiso' = maxiso
        /\ astray \subseteq astray'
    BY DEF Framed
  <2>1. ASSUME NEW j \in Spawns
        PROVE  /\ spawn[j].holder \in Dead => spawn'[j].holder \in Dead
               /\ spawn[j].holder \in Settled =>
                    /\ spawn'[j].holder \in Settled \union Dead
                    /\ spawn'[j].pid = spawn[j].pid
                    /\ spawn'[j].mode.chroot = spawn[j].mode.chroot
               /\ Doomed(j) => Doomed(j)'
    <3>1. CASE j = k
      BY <3>1 DEF Framed, Evolved, Settled
    <3>2. CASE j # k
      <4>1. spawn'[j] = spawn[j] /\ pipe'[j] = pipe[j]
        BY <3>2 DEF Framed
      <4> QED
        BY <4>1, <2>0 DEF Doomed, My
    <3> QED
      BY <3>1, <3>2
  <2>2. ASSUME NEW j \in Spawns, OnRecord(j) PROVE Doomed(j)' \/ OnRecord(j)'
    BY <2>0, <2>1, <2>2 DEF OnRecord, Written, Doomed
  <2>3. ASSUME NEW c \in Sessions, me[c].at \in Recording PROVE Progress(c)'
    <3>1. My(c) \in Spawns /\ spawn[My(c)].holder \in Settled \union Dead
      BY <2>3 DEF HandInv, Shaken, Making
    <3>2. Progress(c)
      BY <2>3 DEF Accounted, Certain
    <3>3. CASE spawn[My(c)].holder \in Dead
      BY <3>1, <3>3, <2>0, <2>1 DEF Progress, My, Settled, Dead
    <3>4. CASE spawn[My(c)].holder \in Settled
      BY <3>1, <3>2, <3>4, <2>0, <2>1 DEF Progress, My, Written
    <3> QED
      BY <3>1, <3>3, <3>4
  <2>4. ASSUME NEW j \in Spawns \ astray'
        PROVE  Found(j)'
    BY <2>0, <2>1, <2>2 DEF Accounted, Found, My
  <2>5. ASSUME NEW c \in Sessions, NEW j \in Spawns \ astray'
        PROVE  /\ \/ me[c].at \in Making \union {"spawn"}
                  \/ me[c].at = "clean" /\ me[c].then # "lock"
                  => Doomed(j)' \/ (me[c].at \in Making /\ My(c) = j)
               /\ me[c].at \in {"term", "poll", "kill"} =>
                     Doomed(j)' \/ (spawn'[j].holder \in Settled /\ me[c].pid = spawn'[j].pid)
    <3>1. j \in Spawns \ astray
      BY <2>0
    <3>2. /\ \/ me[c].at \in Making \union {"spawn"}
             \/ me[c].at = "clean" /\ me[c].then # "lock"
             => Doomed(j) \/ (me[c].at \in Making /\ My(c) = j)
          /\ me[c].at \in {"term", "poll", "kill"} =>
                Doomed(j) \/ (spawn[j].holder \in Settled /\ me[c].pid = spawn[j].pid)
      BY <3>1 DEF Accounted, Certain
    <3>3. spawn'[j].holder \in Dead => Doomed(j)'
      BY DEF Doomed
    <3> QED
      BY <3>2, <3>3, <2>1
  <2> QED
    BY <2>0, <2>3, <2>4, <2>5, <1>0 DEF Accounted, Certain, My
<1> QED
  BY <1>1, <1>2, <1>3, <1>4, <1>5 DEF Framed

\* A launcher that moves changes only what is its own.
LEMMA LauncherFramed ==
    ASSUME IInv, NEW k \in Spawns, NEW place \in LauncherAt, LauncherGoes(k, place),
           pipe' \in Seq(PipeType), Len(pipe') = Len(pipe),
           \A j \in Spawns : j # k => pipe'[j] = pipe[j],
           UNCHANGED <<has, owner, record, flags, maxiso, lock, me, struck>>,
           astray \subseteq astray'
    PROVE  Framed(k)
<1>1. Typed
  BY DEF IInv
<1>2. /\ spawn' \in Seq(SpawnType) /\ Len(spawn') = Len(spawn)
      /\ spawn'[k].holder = spawn[k].holder /\ spawn'[k].pid = spawn[k].pid
      /\ spawn'[k].mode = spawn[k].mode
      /\ \A j \in Spawns : j # k => spawn'[j] = spawn[j]
  BY <1>1, LauncherMoves
<1>3. Owned'
  BY <1>2 DEF Owned, IInv, Spawns
<1>4. owner \in [Pids -> Nat]
  BY <1>1 DEF Typed
<1> QED
  BY <1>2, <1>3, <1>4 DEF Framed

\* A holder that moves changes only what is its own.
LEMMA HolderFramed ==
    ASSUME IInv, NEW k \in Spawns, NEW place \in HolderAt \ {"none", "gone"}, HolderGoes(k, place),
           Up(k), spawn[k].holder \in Settled => place \in Settled \union Dead,
           pipe' \in Seq(PipeType), Len(pipe') = Len(pipe),
           \A j \in Spawns : j # k => pipe'[j] = pipe[j],
           UNCHANGED <<has, owner, record, flags, maxiso, lock, me, struck>>,
           astray \subseteq astray'
    PROVE  Framed(k)
<1>1. Typed
  BY DEF IInv
<1>2. /\ spawn' \in Seq(SpawnType) /\ Len(spawn') = Len(spawn)
      /\ spawn'[k].holder = place /\ spawn'[k].pid = spawn[k].pid
      /\ spawn'[k].mode = spawn[k].mode
      /\ \A j \in Spawns : j # k => spawn'[j] = spawn[j]
  BY <1>1, HolderMoves
<1>3. spawn[k].holder \notin {"none", "gone", "zombie"}
  BY DEF Up
<1>4. Owned'
  BY <1>2, <1>3 DEF Owned, IInv, Spawns
<1>5. owner \in [Pids -> Nat]
  BY <1>1 DEF Typed
<1> QED
  BY <1>2, <1>3, <1>4, <1>5 DEF Framed, Dead

\* The pipes stay as they are.
LEMMA PipeKept ==
    ASSUME Typed, UNCHANGED pipe
    PROVE  /\ pipe' \in Seq(PipeType) /\ Len(pipe') = Len(pipe)
           /\ \A j \in Spawns : pipe'[j] = pipe[j]
BY DEF Typed

\* What is known of k, of its pipes and of the session that makes it.
LEMMA Knowing ==
    ASSUME IInv, NEW k \in Spawns
    PROVE  /\ Typed /\ Spawned(k) /\ \A c \in Sessions : Shaken(c)
           /\ spawn[k] \in SpawnType /\ pipe[k] \in PipeType
           /\ spawn[k].launcher \in LauncherAt /\ spawn[k].holder \in HolderAt
           /\ pipe[k].pid \in {<<>>, <<"MAP">>, <<"pid">>, <<"K">>}
           /\ pipe[k].map \in {<<>>, <<"M">>}
           /\ pipe[k].idmap \in {<<>>, <<"I">>}
           /\ pipe[k].sync \in {<<>>, <<"K">>}
BY SpawnFields DEF IInv, HandInv

\* The launcher moves before it has forked, with an end of the pipes or none.
LEMMA UnsharesKeeps ==
    ASSUME IInv, NEW k \in Spawns, Unshares(k)
    PROVE  Framed(k) /\ Evolved(k)
<1>0. /\ Typed /\ Spawned(k) /\ \A c \in Sessions : Shaken(c)
      /\ spawn[k] \in SpawnType /\ pipe[k] \in PipeType
      /\ pipe[k].pid \in {<<>>, <<"MAP">>, <<"pid">>, <<"K">>}
      /\ pipe[k].sync \in {<<>>, <<"K">>}
  BY Knowing
<1>1. spawn[k].launcher = "born" /\ spawn[k].holder = "none" /\ pipe[k].pid = <<>>
  BY <1>0 DEF Unshares, LauncherIn, Spawned
<1>2. UNCHANGED <<has, owner, record, flags, maxiso, lock, me, astray, struck>>
  BY DEF Unshares, Local, Same, files, past
<1>3. ~Doomed(k)
  BY <1>1 DEF Doomed, Dead
<1>4. \A c \in Sessions : My(c) = k => me[c].at \notin {"idmap"} \union Recording
  BY <1>0, <1>1 DEF Shaken, Making, Handshake, Settled, Dead
<1>5. CASE /\ Parents(k, {"map"}) # {}
           /\ LauncherGoes(k, "maps") /\ pipe' = Told(k, "pid", "MAP")
  <2>1. Word("pid", "MAP")
    BY DEF Word
  <2>2. /\ pipe' \in Seq(PipeType) /\ Len(pipe') = Len(pipe)
        /\ pipe'[k].pid = <<"MAP">> /\ pipe'[k].map = pipe[k].map
        /\ pipe'[k].idmap = pipe[k].idmap /\ pipe'[k].sync = pipe[k].sync
        /\ \A j \in Spawns : j # k => pipe'[j] = pipe[j]
    BY <1>0, <1>1, <1>5, <2>1, Telling
  <2>3. spawn'[k].launcher = "maps" /\ spawn'[k].holder = "none" /\ spawn'[k].mode = spawn[k].mode
    BY <1>0, <1>1, <1>5, LauncherMoves DEF LauncherAt
  <2>4. pipe[k].map = <<>>
    BY <1>0, <1>5 DEF Parents, Shaken, Making, Handshake
  <2>5. Framed(k)
    BY <1>2, <1>5, <2>2, LauncherFramed DEF LauncherAt
  <2>6. Spawned(k)'
    BY <1>0, <1>1, <2>2, <2>3, <2>4, Words DEF Spawned, Settled, Dead, Young
  <2>7. ASSUME NEW c \in Sessions, My(c) = k PROVE Shaken(c)'
    BY <1>0, <1>1, <1>2, <1>4, <2>2, <2>3, <2>5, <2>7 DEF Shaken, Framed, My, Spawns
  <2> QED
    BY <1>3, <2>5, <2>6, <2>7 DEF Evolved
<1>6. CASE /\ spawn' = [spawn EXCEPT ![k].launcher = "fork", ![k].userns = FALSE, ![k].mode.idmap = FALSE]
           /\ UNCHANGED pipe
  <2>0. spawn[k].mode \in ModeType
    BY <1>0 DEF SpawnType
  <2> DEFINE new == [spawn[k] EXCEPT !.launcher = "fork", !.userns = FALSE, !.mode.idmap = FALSE]
  <2>1. /\ new \in SpawnType /\ new.launcher = "fork" /\ new.holder = spawn[k].holder
        /\ new.pid = spawn[k].pid /\ new.mode.chroot = spawn[k].mode.chroot
        /\ new.mode.idmap = FALSE
    BY <1>0, <2>0 DEF SpawnType, ModeType, LauncherAt
  <2>2. spawn' = [spawn EXCEPT ![k] = new]
    BY <1>6
  <2> HIDE DEF new
  <2>3. /\ spawn' \in Seq(SpawnType) /\ Len(spawn') = Len(spawn) /\ spawn'[k] = new
        /\ \A j \in Spawns : j # k => spawn'[j] = spawn[j]
    BY <1>0, <2>1, <2>2, Changed DEF Typed, Spawns
  <2>4. Owned'
    BY <1>1, <1>2, <2>1, <2>3 DEF Owned, IInv, Spawns
  <2>5. Framed(k)
    BY <1>0, <1>1, <1>2, <1>6, <2>1, <2>3, <2>4, PipeKept DEF Framed, Dead, Settled, Typed
  <2>6. Spawned(k)'
    BY <1>0, <1>1, <1>6, <2>1, <2>3, Words DEF Spawned, Settled, Dead, Young
  <2>7. ASSUME NEW c \in Sessions, My(c) = k PROVE Shaken(c)'
    <3>1. /\ spawn'[k].launcher = "fork" /\ spawn'[k].holder = "none" /\ pipe'[k] = pipe[k]
          /\ spawn'[k].mode.chroot = spawn[k].mode.chroot
      BY <1>1, <1>6, <2>1, <2>3
    <3>2. Shaken(c) /\ me' = me /\ Spawns' = Spawns /\ My(c)' = k /\ pipe[k].pid # <<"MAP">>
      BY <1>0, <1>1, <1>2, <2>3, <2>7, Words DEF My, Spawns
    <3> QED
      BY <1>1, <1>4, <2>7, <3>1, <3>2 DEF Shaken
  <2> QED
    BY <1>3, <2>5, <2>6, <2>7 DEF Evolved
<1>7. CASE LauncherGoes(k, "gone") /\ UNCHANGED pipe
  <2>1. spawn'[k].launcher = "gone" /\ spawn'[k].holder = "none" /\ spawn'[k].mode = spawn[k].mode
    BY <1>0, <1>1, <1>7, LauncherMoves DEF LauncherAt
  <2>2. Framed(k)
    BY <1>0, <1>2, <1>7, LauncherFramed, PipeKept DEF LauncherAt
  <2>3. Spawned(k)'
    BY <1>0, <1>1, <1>7, <2>1, Words DEF Spawned, Settled, Dead, Young
  <2>4. ASSUME NEW c \in Sessions, My(c) = k PROVE Shaken(c)'
    BY <1>0, <1>1, <1>2, <1>4, <1>7, <2>1, <2>2, <2>4, Words DEF Shaken, Framed, My, Spawns, Settled
  <2> QED
    BY <1>3, <2>2, <2>3, <2>4 DEF Evolved
<1> QED
  BY <1>5, <1>6, <1>7 DEF Unshares

\* The session that makes k, before and after.
LEMMA StillMine ==
    ASSUME IInv, NEW k \in Spawns, Framed(k), NEW c \in Sessions, My(c) = k
    PROVE  /\ me' = me /\ Spawns' = Spawns /\ My(c)' = k
           /\ Shaken(c) /\ (k \in astray => k \in astray')
           /\ spawn'[k].mode.chroot = spawn[k].mode.chroot
BY DEF IInv, HandInv, Framed, My, Spawns

\* The first word that the launcher waits for, or the end of the file.
LEMMA AwaitsMapsKeeps ==
    ASSUME IInv, NEW k \in Spawns, AwaitsMaps(k)
    PROVE  Framed(k) /\ Evolved(k)
<1>0. /\ Typed /\ Spawned(k)
      /\ pipe[k].pid \in {<<>>, <<"MAP">>, <<"pid">>, <<"K">>}
      /\ pipe[k].sync \in {<<>>, <<"K">>}
  BY Knowing
<1>1. spawn[k].launcher = "maps" /\ spawn[k].holder = "none"
  BY <1>0 DEF AwaitsMaps, LauncherIn, Spawned
<1>2. UNCHANGED <<has, owner, record, flags, maxiso, lock, me, astray, struck>>
  BY DEF AwaitsMaps, Local, Same, files, past
<1>3. CASE Hears(k, "map", "M") /\ LauncherGoes(k, "fork") /\ pipe' = Took(k, "map")
  <2>1. Word("map", "M")
    BY DEF Word
  <2>2. /\ pipe' \in Seq(PipeType) /\ Len(pipe') = Len(pipe)
        /\ pipe[k].map = <<"M">> /\ pipe'[k].map = <<>> /\ pipe'[k].pid = pipe[k].pid
        /\ pipe'[k].idmap = pipe[k].idmap /\ pipe'[k].sync = pipe[k].sync
        /\ \A j \in Spawns : j # k => pipe'[j] = pipe[j]
    BY <1>0, <1>3, <2>1, Taking
  <2>3. /\ spawn'[k].launcher = "fork" /\ spawn'[k].holder = "none"
        /\ spawn'[k].mode = spawn[k].mode /\ spawn'[k].pid = spawn[k].pid
    BY <1>0, <1>1, <1>3, LauncherMoves DEF LauncherAt
  <2>4. pipe[k].pid = <<>>
    BY <1>0, <1>1, <2>2, Words DEF Spawned, Settled, Dead
  <2>5. Framed(k)
    BY <1>2, <1>3, <2>2, LauncherFramed DEF LauncherAt
  <2>6. Spawned(k)'
    BY <1>0, <1>1, <2>2, <2>3, <2>4, Words DEF Spawned, Settled, Dead, Young
  <2>7. ASSUME NEW c \in Sessions, My(c) = k PROVE Shaken(c)'
    BY <1>1, <2>2, <2>3, <2>4, <2>5, <2>7, StillMine, Words DEF Shaken
  <2>8. Doomed(k) => Doomed(k)'
    BY <1>1, <1>2, <2>2, <2>3 DEF Doomed, Dead, My
  <2> QED
    BY <2>5, <2>6, <2>7, <2>8 DEF Evolved
<1>4. CASE LauncherGoes(k, "gone") /\ UNCHANGED pipe
  <2>1. spawn'[k].launcher = "gone" /\ spawn'[k].holder = "none" /\ spawn'[k].mode = spawn[k].mode
    BY <1>0, <1>1, <1>4, LauncherMoves DEF LauncherAt
  <2>2. Framed(k)
    BY <1>0, <1>2, <1>4, LauncherFramed, PipeKept DEF LauncherAt
  <2>3. Spawned(k)'
    BY <1>0, <1>1, <1>4, <2>1, Words DEF Spawned, Settled, Dead, Young
  <2>4. ASSUME NEW c \in Sessions, My(c) = k PROVE Shaken(c)'
    <3>1. pipe'[k] = pipe[k]
      BY <1>4
    <3> QED
      BY <1>1, <2>1, <2>2, <2>4, <3>1, StillMine, Words DEF Shaken, Settled, Dead
  <2>5. Doomed(k)'
    BY <2>1 DEF Doomed
  <2> QED
    BY <2>2, <2>3, <2>4, <2>5 DEF Evolved
<1> QED
  BY <1>3, <1>4 DEF AwaitsMaps

\* The holder is born with a pid that nobody had.
LEMMA ForksKeeps ==
    ASSUME IInv, NEW k \in Spawns, Forks(k)
    PROVE  Framed(k) /\ Evolved(k)
<1>0. /\ Typed /\ Spawned(k) /\ spawn[k] \in SpawnType
      /\ pipe[k].pid \in {<<>>, <<"MAP">>, <<"pid">>, <<"K">>}
      /\ pipe[k].sync \in {<<>>, <<"K">>}
  BY Knowing
<1>1. spawn[k].launcher = "fork" /\ spawn[k].holder = "none" /\ pipe[k].pid = <<>>
  BY <1>0 DEF Forks, LauncherIn, Spawned
<1>2. UNCHANGED <<has, pipe, record, flags, maxiso, lock, me, astray, struck>>
  BY DEF Forks, Local, Same, files, past
<1>3. PICK p \in Pids :
        /\ owner[p] = Free /\ owner' = [owner EXCEPT ![p] = k]
        /\ spawn' = [spawn EXCEPT ![k].launcher = IF has.pid THEN "sync" ELSE "self",
                                 ![k].holder = "born", ![k].pid = p]
  BY DEF Forks
<1> DEFINE at == IF has.pid THEN "sync" ELSE "self"
           new == [spawn[k] EXCEPT !.launcher = at, !.holder = "born", !.pid = p]
<1>4. at \in {"sync", "self"}
  OBVIOUS
<1>5. /\ new \in SpawnType /\ new.launcher \in {"sync", "self"} /\ new.holder = "born"
      /\ new.pid = p /\ new.mode = spawn[k].mode
  BY <1>0, <1>4 DEF SpawnType, LauncherAt, HolderAt
<1>6. spawn' = [spawn EXCEPT ![k] = new]
  BY <1>3
<1> HIDE DEF new
<1>7. /\ spawn' \in Seq(SpawnType) /\ Len(spawn') = Len(spawn) /\ spawn'[k] = new
      /\ \A j \in Spawns : j # k => spawn'[j] = spawn[j]
  BY <1>0, <1>5, <1>6, Changed DEF Typed, Spawns
<1>8. /\ owner' \in [Pids -> Nat] /\ k # Stranger /\ k \in Nat
      /\ \A q \in Pids : owner[q] # Stranger => owner'[q] # Stranger
  BY <1>0, <1>3, HolderAssumption DEF Typed, Spawns, Stranger
<1>9. Owned'
  <2>1. ASSUME NEW j \in Spawns
        PROVE  /\ spawn'[j].holder # "none" => spawn'[j].pid \in Pids
               /\ spawn'[j].holder \notin {"none", "gone"} => owner'[spawn'[j].pid] = j
    <3>1. CASE j = k
      BY <1>0, <1>3, <1>5, <1>7, <3>1 DEF Typed
    <3>2. CASE j # k
      <4>1. /\ spawn[j].holder # "none" => spawn[j].pid \in Pids
            /\ spawn[j].holder \notin {"none", "gone"} => owner[spawn[j].pid] = j
        BY DEF IInv, Owned
      <4>2. j # Free
        BY DEF Spawns, Free
      <4> QED
        BY <1>0, <1>3, <1>7, <3>2, <4>1, <4>2 DEF Typed
    <3> QED
      BY <3>1, <3>2
  <2> QED
    BY <1>7, <2>1 DEF Owned, Spawns
<1>10. Framed(k)
  BY <1>0, <1>1, <1>2, <1>5, <1>7, <1>8, <1>9, PipeKept DEF Framed, Dead, Settled
<1>11. Spawned(k)'
  BY <1>0, <1>1, <1>2, <1>5, <1>7, Words DEF Spawned, Settled, Dead, Young
<1>12. ASSUME NEW c \in Sessions, My(c) = k PROVE Shaken(c)'
  <2>1. pipe'[k] = pipe[k] /\ spawn'[k].launcher \in {"sync", "self"} /\ spawn'[k].holder = "born"
        /\ spawn'[k].mode = spawn[k].mode
    BY <1>2, <1>5, <1>7
  <2> QED
    BY <1>1, <1>10, <1>12, <2>1, StillMine, Words DEF Shaken, Settled, Dead
<1>13. Doomed(k) => Doomed(k)'
  BY <1>1, <1>2, <1>5, <1>7 DEF Doomed, Dead, My
<1> QED
  BY <1>10, <1>11, <1>12, <1>13 DEF Evolved

\* The byte of the holder becomes the pid that the session hears; or the holder
\* has died without a word.
LEMMA PassesOnKeeps ==
    ASSUME IInv, NEW k \in Spawns, PassesOn(k)
    PROVE  Framed(k) /\ Evolved(k)
<1>0. /\ Typed /\ Spawned(k) /\ pipe[k] \in PipeType
      /\ spawn[k].holder \in HolderAt
      /\ pipe[k].sync \in {<<>>, <<"K">>}
  BY Knowing
<1>1. spawn[k].launcher = "sync" /\ spawn[k].holder # "none" /\ pipe[k].pid = <<>>
  BY <1>0 DEF PassesOn, LauncherIn, Spawned
<1>2. UNCHANGED <<has, owner, record, flags, maxiso, lock, me, astray, struck>>
  BY DEF PassesOn, Local, Same, files, past
<1>3. LauncherGoes(k, "wait")
  BY DEF PassesOn
<1>4. /\ spawn'[k].launcher = "wait" /\ spawn'[k].holder = spawn[k].holder
      /\ spawn'[k].mode = spawn[k].mode /\ spawn'[k].pid = spawn[k].pid
  BY <1>0, <1>3, LauncherMoves DEF LauncherAt
<1>5. CASE /\ Hears(k, "sync", "K")
           /\ pipe' = [pipe EXCEPT ![k].sync = <<>>, ![k].pid = Append(@, "pid")]
  <2>0. pipe[k].sync = <<"K">>
    BY <1>0, <1>5, Words DEF Hears
  <2> DEFINE new == [pipe[k] EXCEPT !.sync = <<>>, !.pid = <<"pid">>]
  <2>1. /\ new \in PipeType /\ new.sync = <<>> /\ new.pid = <<"pid">>
        /\ new.map = pipe[k].map /\ new.idmap = pipe[k].idmap
    BY <1>0 DEF PipeType
  <2>2. pipe' = [pipe EXCEPT ![k] = new]
    BY <1>1, <1>5, Words
  <2> HIDE DEF new
  <2>3. /\ pipe' \in Seq(PipeType) /\ Len(pipe') = Len(pipe) /\ pipe'[k] = new
        /\ \A j \in Spawns : j # k => pipe'[j] = pipe[j]
    BY <1>0, <2>1, <2>2, Changed DEF Typed, Spawns
  <2>4. Framed(k)
    BY <1>2, <1>3, <2>3, LauncherFramed DEF LauncherAt
  <2>5. spawn[k].holder \in Settled \union Dead
    BY <1>0, <2>0 DEF Spawned
  <2>6. Spawned(k)'
    BY <1>0, <1>1, <1>4, <2>1, <2>3, <2>5, Words DEF Spawned, Settled, Dead, Young
  <2>7. ASSUME NEW c \in Sessions, My(c) = k PROVE Shaken(c)'
    BY <1>1, <1>4, <2>1, <2>3, <2>4, <2>5, <2>7, StillMine, Words DEF Shaken, Dead, Settled
  <2>8. Doomed(k) => Doomed(k)'
    BY <1>1, <1>2, <1>4, <2>1, <2>3 DEF Doomed, Dead, My
  <2> QED
    BY <2>4, <2>6, <2>7, <2>8 DEF Evolved
<1>6. CASE EndOfFile(k, "sync") /\ UNCHANGED pipe
  <2>1. pipe[k].sync = <<>> /\ spawn[k].holder \notin Young
    BY <1>6 DEF EndOfFile, HasWriter, AnswersOpen, HolderIn, Young
  <2>2. spawn[k].holder \in Dead
    BY <1>0, <1>1, <2>1, Words DEF Spawned, HolderAt, Settled, Young, Dead
  <2>3. Framed(k)
    BY <1>0, <1>2, <1>3, <1>6, LauncherFramed, PipeKept DEF LauncherAt
  <2>4. Spawned(k)'
    BY <1>0, <1>1, <1>4, <1>6, <2>2, Words DEF Spawned, Settled, Dead, Young
  <2>5. ASSUME NEW c \in Sessions, My(c) = k PROVE Shaken(c)'
    <3>1. pipe'[k] = pipe[k]
      BY <1>6
    <3> QED
      BY <1>1, <1>4, <2>2, <2>3, <2>5, <3>1, StillMine, Words DEF Shaken, Dead, Settled
  <2>6. Doomed(k)'
    BY <1>4, <2>2 DEF Doomed
  <2> QED
    BY <2>3, <2>4, <2>5, <2>6 DEF Evolved
<1> QED
  BY <1>5, <1>6 DEF PassesOn

\* The pid of a dead holder is free again.
LEMMA ReapsKeeps ==
    ASSUME IInv, NEW k \in Spawns, Reaps(k)
    PROVE  Framed(k) /\ Evolved(k)
<1>0. /\ Typed /\ Spawned(k) /\ spawn[k] \in SpawnType
      /\ pipe[k].pid \in {<<>>, <<"MAP">>, <<"pid">>, <<"K">>}
      /\ pipe[k].sync \in {<<>>, <<"K">>}
  BY Knowing
<1>1. /\ spawn[k].holder = "zombie" /\ spawn[k].launcher # "born"
      /\ owner' = [owner EXCEPT ![spawn[k].pid] = Free]
      /\ spawn' = [spawn EXCEPT ![k].launcher = "gone", ![k].holder = "gone"]
  BY DEF Reaps, HolderIn, LauncherIn
<1>2. UNCHANGED <<has, pipe, record, flags, maxiso, lock, me, astray, struck>>
  BY DEF Reaps, Local, Same, files, past
<1> DEFINE new == [spawn[k] EXCEPT !.launcher = "gone", !.holder = "gone"]
<1>3. /\ new \in SpawnType /\ new.launcher = "gone" /\ new.holder = "gone"
      /\ new.pid = spawn[k].pid /\ new.mode = spawn[k].mode
  BY <1>0 DEF SpawnType, LauncherAt, HolderAt
<1>4. spawn' = [spawn EXCEPT ![k] = new]
  BY <1>1
<1> HIDE DEF new
<1>5. /\ spawn' \in Seq(SpawnType) /\ Len(spawn') = Len(spawn) /\ spawn'[k] = new
      /\ \A j \in Spawns : j # k => spawn'[j] = spawn[j]
  BY <1>0, <1>3, <1>4, Changed DEF Typed, Spawns
<1>6. /\ owner' \in [Pids -> Nat]
      /\ \A q \in Pids : owner[q] # Stranger => owner'[q] # Stranger
  <2>1. spawn[k].pid \in Pids
    BY <1>1 DEF IInv, Owned
  <2>2. Free \in Nat /\ Stranger # Free
    BY HolderAssumption DEF Stranger, Free
  <2> QED
    BY <1>0, <1>1, <2>1, <2>2 DEF Typed
<1>7. Owned'
  <2>1. ASSUME NEW j \in Spawns
        PROVE  /\ spawn'[j].holder # "none" => spawn'[j].pid \in Pids
               /\ spawn'[j].holder \notin {"none", "gone"} => owner'[spawn'[j].pid] = j
    <3>0. /\ spawn[j].holder # "none" => spawn[j].pid \in Pids
          /\ spawn[j].holder \notin {"none", "gone"} => owner[spawn[j].pid] = j
          /\ owner[spawn[k].pid] = k
      BY <1>1 DEF IInv, Owned
    <3>1. CASE j = k
      BY <1>1, <1>3, <1>5, <3>0, <3>1
    <3>2. CASE j # k
      BY <1>0, <1>1, <1>5, <3>0, <3>2 DEF Typed
    <3> QED
      BY <3>1, <3>2
  <2> QED
    BY <1>5, <2>1 DEF Owned, Spawns
<1>8. Framed(k)
  BY <1>0, <1>1, <1>2, <1>3, <1>5, <1>6, <1>7, PipeKept DEF Framed, Dead, Settled
<1>9. Spawned(k)'
  BY <1>0, <1>1, <1>2, <1>3, <1>5, Words DEF Spawned, Settled, Dead, Young
<1>10. ASSUME NEW c \in Sessions, My(c) = k PROVE Shaken(c)'
  <2>1. pipe'[k] = pipe[k] /\ spawn'[k].launcher = "gone" /\ spawn'[k].holder = "gone"
        /\ spawn'[k].mode = spawn[k].mode /\ spawn'[k].pid = spawn[k].pid
    BY <1>2, <1>3, <1>5
  <2>2. pipe[k].pid # <<"MAP">>
    BY <1>0, <1>1 DEF Spawned
  <2>3. /\ me' = me /\ Spawns' = Spawns /\ My(c)' = k /\ Shaken(c)
    BY <1>8, <1>10, StillMine
  <2> QED
    BY <1>10, <2>1, <2>2, <2>3 DEF Shaken, Settled, Dead
<1>11. Doomed(k)'
  BY <1>3, <1>5 DEF Doomed, Dead
<1> QED
  BY <1>8, <1>9, <1>10, <1>11 DEF Evolved

LEMMA BeginsKeeps ==
    ASSUME IInv, NEW k \in Spawns, Begins(k)
    PROVE  Framed(k) /\ Evolved(k)
<1>0. /\ Typed /\ Spawned(k) /\ spawn[k] \in SpawnType /\ spawn[k].mode \in ModeType
  BY Knowing DEF SpawnType
<1>1. spawn[k].holder = "born" /\ UNCHANGED pipe
  BY DEF Begins, HolderIn
<1>2. UNCHANGED <<has, owner, record, flags, maxiso, lock, me, astray, struck>>
  BY DEF Begins, Local, Same, files, past
<1> DEFINE place == IF spawn[k].mode.idmap THEN "stack" ELSE "chroot"
<1>3. /\ HolderGoes(k, place) /\ place \in {"stack", "chroot"}
      /\ spawn[k].mode.idmap => place = "stack"
  BY DEF Begins
<1> HIDE DEF place
<1>4. /\ spawn'[k].holder = place /\ spawn'[k].launcher = spawn[k].launcher
      /\ spawn'[k].mode = spawn[k].mode /\ spawn'[k].pid = spawn[k].pid
      /\ pipe'[k] = pipe[k]
  BY <1>0, <1>1, <1>3, HolderMoves DEF HolderAt
<1>5. Framed(k)
  BY <1>0, <1>1, <1>2, <1>3, HolderFramed, PipeKept DEF HolderAt, Up, Settled
<1>6. Spawned(k)'
  BY <1>0, <1>1, <1>2, <1>3, <1>4, Words DEF Spawned, Settled, Dead, Young
<1>7. ASSUME NEW c \in Sessions, My(c) = k PROVE Shaken(c)'
  BY <1>1, <1>3, <1>4, <1>5, <1>7, StillMine DEF Shaken, Dead, Settled, Young
<1>8. Doomed(k) => Doomed(k)'
  BY <1>1, <1>2, <1>3, <1>4 DEF Doomed, Dead, My
<1> QED
  BY <1>5, <1>6, <1>7, <1>8 DEF Evolved

\* A holder that dies, with or without having taken the word it waited for.
LEMMA DiesKeeps ==
    ASSUME IInv, NEW k \in Spawns, Up(k), HolderGoes(k, "zombie"),
           pipe' \in Seq(PipeType), Len(pipe') = Len(pipe),
           \A j \in Spawns : j # k => pipe'[j] = pipe[j],
           pipe'[k].pid = pipe[k].pid, pipe'[k].map = pipe[k].map, pipe'[k].sync = pipe[k].sync,
           pipe'[k].idmap \in {pipe[k].idmap, <<>>},
           UNCHANGED <<has, owner, record, flags, maxiso, lock, me, struck, astray>>
    PROVE  Framed(k) /\ Evolved(k)
<1>0. Typed /\ Spawned(k)
  BY Knowing
<1>1. spawn[k].holder \notin {"none", "zombie", "gone"}
  BY DEF Up
<1>2. /\ spawn'[k].holder = "zombie" /\ spawn'[k].launcher = spawn[k].launcher
      /\ spawn'[k].mode = spawn[k].mode /\ spawn'[k].pid = spawn[k].pid
  BY <1>0, HolderMoves DEF HolderAt
<1>3. Framed(k)
  BY HolderFramed DEF HolderAt, Dead
<1>4. Spawned(k)'
  BY <1>0, <1>1, <1>2, Words DEF Spawned, Settled, Dead, Young
<1>5. ASSUME NEW c \in Sessions, My(c) = k PROVE Shaken(c)'
  BY <1>0, <1>1, <1>2, <1>3, <1>5, StillMine DEF Shaken, Spawned, Dead, Settled, Young
<1>6. Doomed(k)'
  BY <1>2 DEF Doomed, Dead
<1> QED
  BY <1>3, <1>4, <1>5, <1>6 DEF Evolved

LEMMA StacksKeeps ==
    ASSUME IInv, NEW k \in Spawns, Stacks(k)
    PROVE  Framed(k) /\ Evolved(k)
<1>0. Typed /\ Spawned(k)
  BY Knowing
<1>1. spawn[k].holder = "stack" /\ Up(k)
  BY DEF Stacks, HolderIn, Up
<1>2. UNCHANGED <<has, owner, record, flags, maxiso, lock, me, astray, struck>>
  BY DEF Stacks, Local, Same, files, past
<1>3. ASSUME Hears(k, "idmap", "I"), pipe' = Took(k, "idmap")
      PROVE  /\ pipe' \in Seq(PipeType) /\ Len(pipe') = Len(pipe)
             /\ pipe[k].idmap = <<"I">> /\ pipe'[k].idmap = <<>> /\ pipe'[k].pid = pipe[k].pid
             /\ pipe'[k].map = pipe[k].map /\ pipe'[k].sync = pipe[k].sync
             /\ \A j \in Spawns : j # k => pipe'[j] = pipe[j]
  <2>1. Word("idmap", "I")
    BY DEF Word
  <2> QED
    BY <1>0, <1>3, <2>1, Taking
<1>4. CASE Hears(k, "idmap", "I") /\ pipe' = Took(k, "idmap") /\ HolderGoes(k, "chroot")
  <2>1. /\ spawn'[k].holder = "chroot" /\ spawn'[k].launcher = spawn[k].launcher
        /\ spawn'[k].mode = spawn[k].mode /\ spawn'[k].pid = spawn[k].pid
    BY <1>0, <1>4, HolderMoves DEF HolderAt
  <2>2. Framed(k)
    BY <1>1, <1>2, <1>3, <1>4, HolderFramed DEF HolderAt, Settled
  <2>3. Spawned(k)'
    BY <1>0, <1>1, <1>2, <1>3, <1>4, <2>1, Words DEF Spawned, Settled, Dead, Young
  <2>4. ASSUME NEW c \in Sessions, My(c) = k PROVE Shaken(c)'
    <3>1. pipe'[k].idmap = <<>> /\ pipe[k].idmap # <<>> /\ pipe'[k].pid = pipe[k].pid
          /\ pipe'[k].map = pipe[k].map
      BY <1>3, <1>4, Words
    <3> QED
      BY <1>1, <2>1, <2>2, <2>4, <3>1, StillMine DEF Shaken, Dead, Settled, Young
  <2>5. ~Doomed(k)
    BY <1>1, <1>3, <1>4, Words DEF Doomed, Dead
  <2> QED
    BY <2>2, <2>3, <2>4, <2>5 DEF Evolved
<1>5. CASE Hears(k, "idmap", "I") /\ pipe' = Took(k, "idmap") /\ HolderGoes(k, "zombie")
  BY <1>1, <1>2, <1>3, <1>5, DiesKeeps
<1>6. CASE EndOfFile(k, "idmap") /\ UNCHANGED pipe /\ HolderGoes(k, "zombie")
  BY <1>0, <1>1, <1>2, <1>6, DiesKeeps, PipeKept
<1> QED
  BY <1>4, <1>5, <1>6 DEF Stacks

\* The byte of the holder, to its launcher or to the session.
LEMMA AnswersKeeps ==
    ASSUME IInv, NEW k \in Spawns, Answers(k)
    PROVE  Framed(k) /\ Evolved(k)
<1>0. /\ Typed /\ Spawned(k) /\ spawn[k].launcher \in LauncherAt
      /\ pipe[k].pid \in {<<>>, <<"MAP">>, <<"pid">>, <<"K">>}
      /\ pipe[k].sync \in {<<>>, <<"K">>}
  BY Knowing
<1>1. spawn[k].holder = "chroot" /\ Up(k)
  BY DEF Answers, HolderIn, Up
<1>2. UNCHANGED <<has, owner, record, flags, maxiso, lock, me, astray, struck>>
  BY DEF Answers, Local, Same, files, past
<1>3. pipe[k].sync = <<>> /\ spawn[k].launcher \notin {"born", "maps", "fork", "wait"}
  BY <1>0, <1>1, Words DEF Spawned, Settled, Dead, Young
<1>4. ~Doomed(k)
  BY <1>1 DEF Doomed, Dead
<1>5. ASSUME NEW p \in {"pid", "sync"}, spawn[k].launcher = (IF p = "pid" THEN "self" ELSE "sync"),
             pipe' = Told(k, p, "K"),
             HolderGoes(k, IF spawn[k].mode.foreground THEN "go" ELSE "parked")
      PROVE  Framed(k) /\ Evolved(k)
  <2> DEFINE place == IF spawn[k].mode.foreground THEN "go" ELSE "parked"
  <2>1. place \in {"go", "parked"} /\ HolderGoes(k, place)
    BY <1>5
  <2> HIDE DEF place
  <2>2. pipe[k][p] = <<>>
    BY <1>0, <1>1, <1>3, <1>5 DEF Spawned, Young
  <2>3. Word(p, "K")
    BY <1>5 DEF Word
  <2>4. /\ pipe' \in Seq(PipeType) /\ Len(pipe') = Len(pipe)
        /\ pipe'[k][p] = <<"K">>
        /\ \A q \in {"pid", "map", "idmap", "sync"} \ {p} : pipe'[k][q] = pipe[k][q]
        /\ \A j \in Spawns : j # k => pipe'[j] = pipe[j]
    BY <1>0, <1>5, <2>2, <2>3, Telling
  <2>5. /\ pipe'[k].map = pipe[k].map /\ pipe'[k].idmap = pipe[k].idmap
        /\ p = "pid" => pipe'[k].pid = <<"K">> /\ pipe'[k].sync = <<>>
        /\ p = "sync" => pipe'[k].sync = <<"K">> /\ pipe'[k].pid = <<>>
    BY <1>0, <1>3, <1>5, <2>4 DEF Spawned
  <2>6. /\ spawn'[k].holder = place /\ spawn'[k].launcher = spawn[k].launcher
        /\ spawn'[k].mode = spawn[k].mode /\ spawn'[k].pid = spawn[k].pid
    BY <1>0, <2>1, HolderMoves DEF HolderAt
  <2>7. Framed(k)
    BY <1>1, <1>2, <2>1, <2>4, HolderFramed DEF HolderAt, Settled
  <2>8. Spawned(k)'
    BY <1>1, <1>5, <2>1, <2>5, <2>6, Words DEF Spawned, Settled, Dead, Young
  <2>9. ASSUME NEW c \in Sessions, My(c) = k PROVE Shaken(c)'
    <3>1. spawn[k].launcher \in {"self", "sync"} /\ pipe'[k].pid # <<"MAP">>
      BY <1>5, <2>5, Words
    <3>2. /\ me' = me /\ Spawns' = Spawns /\ My(c)' = k /\ Shaken(c)
      BY <2>7, <2>9, StillMine
    <3> QED
      BY <1>1, <2>1, <2>5, <2>6, <2>9, <3>1, <3>2 DEF Shaken, Dead, Settled, Young
  <2> QED
    BY <1>4, <2>7, <2>8, <2>9 DEF Evolved
<1>6. CASE HolderGoes(k, "zombie") /\ UNCHANGED pipe
  BY <1>0, <1>1, <1>2, <1>6, DiesKeeps, PipeKept
<1>7. CASE /\ LauncherIn(k, {"self"}) /\ pipe' = Told(k, "pid", "K")
           /\ HolderGoes(k, IF spawn[k].mode.foreground THEN "go" ELSE "parked")
  BY <1>5, <1>7 DEF LauncherIn
<1>8. CASE /\ LauncherIn(k, {"sync"}) /\ pipe' = Told(k, "sync", "K")
           /\ HolderGoes(k, IF spawn[k].mode.foreground THEN "go" ELSE "parked")
  BY <1>5, <1>8 DEF LauncherIn
<1> QED
  BY <1>6, <1>7, <1>8 DEF Answers, LauncherIn

LEMMA ExecutesKeeps ==
    ASSUME IInv, NEW k \in Spawns, Executes(k)
    PROVE  Framed(k) /\ Evolved(k)
<1>0. Typed /\ Spawned(k) /\ pipe[k] \in PipeType
  BY Knowing
<1>1. spawn[k].holder = "go" /\ HolderGoes(k, "runs") /\ pipe' = Took(k, "go") /\ pipe[k].go # <<>>
  BY DEF Executes, HolderIn, Hears
<1>2. UNCHANGED <<has, owner, record, flags, maxiso, lock, me, astray, struck>>
  BY DEF Executes, Local, Same, files, past
<1>3. pipe[k].go \in Seq({"go"}) /\ Tail(pipe[k].go) \in Seq({"go"})
  BY <1>0, <1>1 DEF PipeType
<1> DEFINE new == [pipe[k] EXCEPT !.go = Tail(pipe[k].go)]
<1>4. /\ new \in PipeType /\ new.pid = pipe[k].pid /\ new.map = pipe[k].map
      /\ new.idmap = pipe[k].idmap /\ new.sync = pipe[k].sync
  BY <1>0, <1>3 DEF PipeType
<1>5. pipe' = [pipe EXCEPT ![k] = new]
  BY <1>1 DEF Took
<1> HIDE DEF new
<1>6. /\ pipe' \in Seq(PipeType) /\ Len(pipe') = Len(pipe) /\ pipe'[k] = new
      /\ \A j \in Spawns : j # k => pipe'[j] = pipe[j]
  BY <1>0, <1>4, <1>5, Changed DEF Typed, Spawns
<1>7. /\ spawn'[k].holder = "runs" /\ spawn'[k].launcher = spawn[k].launcher
      /\ spawn'[k].mode = spawn[k].mode /\ spawn'[k].pid = spawn[k].pid
  BY <1>0, <1>1, HolderMoves DEF HolderAt
<1>8. Framed(k)
  BY <1>1, <1>2, <1>6, HolderFramed DEF HolderAt, Settled, Up
<1>9. Spawned(k)'
  BY <1>0, <1>1, <1>2, <1>4, <1>6, <1>7, Words DEF Spawned, Settled, Dead, Young
<1>10. ASSUME NEW c \in Sessions, My(c) = k PROVE Shaken(c)'
  <2>1. /\ pipe'[k].pid = pipe[k].pid /\ pipe'[k].map = pipe[k].map
        /\ pipe'[k].idmap = pipe[k].idmap
    BY <1>4, <1>6
  <2> QED
    BY <1>1, <1>7, <1>8, <1>10, <2>1, StillMine DEF Shaken, Dead, Settled, Young
<1>11. ~Doomed(k)
  BY <1>1 DEF Doomed, Dead
<1> QED
  BY <1>8, <1>9, <1>10, <1>11 DEF Evolved

LEMMA CommandEndsKeeps ==
    ASSUME IInv, NEW k \in Spawns, CommandEnds(k)
    PROVE  Framed(k) /\ Evolved(k)
<1>1. Typed /\ UNCHANGED <<has, pipe, owner, record, flags, maxiso, lock, me, astray, struck>>
  BY DEF IInv, CommandEnds, Local, Same, files, past
<1>2. Up(k) /\ HolderGoes(k, "zombie")
  BY DEF CommandEnds, HolderIn, Up
<1> QED
  BY <1>1, <1>2, PipeKept, DiesKeeps

\* A launcher that is killed with the byte in its hands leaves k astray.
LEMMA KilledKeeps ==
    ASSUME IInv, NEW k \in Spawns, Killed(k)
    PROVE  Framed(k) /\ Evolved(k)
<1>0. /\ Typed /\ Spawned(k) /\ spawn[k].holder \in HolderAt
      /\ UNCHANGED <<has, pipe, owner, record, flags, maxiso, lock, me, struck>>
  BY Knowing DEF Killed, files
<1>1. CASE Up(k) /\ HolderGoes(k, "zombie") /\ UNCHANGED astray
  BY <1>0, <1>1, PipeKept, DiesKeeps
<1>2. CASE /\ LauncherIn(k, {"born", "maps", "fork", "sync", "wait"}) /\ LauncherGoes(k, "gone")
           /\ astray' = IF LauncherIn(k, {"sync"}) THEN astray \union {k} ELSE astray
  <2>1. /\ spawn'[k].launcher = "gone" /\ spawn'[k].holder = spawn[k].holder
        /\ spawn'[k].mode = spawn[k].mode /\ spawn'[k].pid = spawn[k].pid /\ pipe'[k] = pipe[k]
    BY <1>0, <1>2, LauncherMoves DEF LauncherAt
  <2>2. /\ spawn[k].launcher \in {"born", "maps", "fork", "sync", "wait"}
        /\ spawn[k].launcher = "sync" => k \in astray'
        /\ astray \subseteq astray'
    BY <1>2 DEF LauncherIn
  <2>3. Framed(k)
    BY <1>0, <1>2, <2>2, LauncherFramed, PipeKept DEF LauncherAt
  <2>4. Spawned(k)'
    BY <1>0, <2>1, <2>2 DEF Spawned, Young, Settled, Dead
  <2>5. ASSUME NEW c \in Sessions, My(c) = k PROVE Shaken(c)'
    <3>1. /\ me' = me /\ Spawns' = Spawns /\ My(c)' = k /\ Shaken(c)
      BY <2>3, <2>5, StillMine
    <3> QED
      BY <1>0, <2>1, <2>2, <2>5, <3>1 DEF Shaken, Spawned, Settled, Dead
  <2>6. Doomed(k) => Doomed(k)'
    BY <1>0, <2>1, <2>2 DEF Doomed, My
  <2> QED
    BY <2>3, <2>4, <2>5, <2>6 DEF Evolved
<1> QED
  BY <1>1, <1>2 DEF Killed

\* Every step of a launcher or holder keeps the invariant.
LEMMA KernelKeeps ==
    ASSUME IInv, NEW k \in Spawns, Launches(k) \/ Holds(k) \/ CommandEnds(k) \/ Killed(k)
    PROVE  IInv'
BY UnsharesKeeps, AwaitsMapsKeeps, ForksKeeps, PassesOnKeeps, ReapsKeeps, BeginsKeeps, StacksKeeps,
   AnswersKeeps, ExecutesKeeps, CommandEndsKeeps, KilledKeeps, KernelStep DEF Launches, Holds

\* A pid goes to another program once its holder has been reaped, and never
\* while somebody has it in hand.
LEMMA StrangerKeeps ==
    ASSUME IInv, NEW p \in Pids, StrangerComes(p)
    PROVE  IInv'
<1>0. /\ owner[p] = Free /\ ~InHand(p) /\ owner' = [owner EXCEPT ![p] = Stranger]
      /\ UNCHANGED <<has, spawn, pipe, record, flags, maxiso, lock, me, astray, struck>>
      /\ Spawns' = Spawns
  BY DEF StrangerComes, files, past, Spawns
<1>1. owner \in [Pids -> Nat] /\ Stranger \in Nat
  BY HolderAssumption DEF IInv, Typed, Stranger
<1>2. Typed'
  BY <1>0, <1>1 DEF IInv, Typed
<1>3. LockInv'
  BY <1>0 DEF IInv, LockInv, Placed, Locked
<1>4. Owned'
  <2>1. ASSUME NEW k \in Spawns
        PROVE  /\ spawn[k].holder # "none" => spawn[k].pid \in Pids
               /\ spawn[k].holder \notin {"none", "gone"} => owner'[spawn[k].pid] = k
    <3>1. k # Free
      BY DEF Spawns, Free
    <3>2. /\ spawn[k].holder # "none" => spawn[k].pid \in Pids
          /\ spawn[k].holder \notin {"none", "gone"} => owner[spawn[k].pid] = k
      BY DEF IInv, Owned
    <3> QED
      BY <1>0, <1>1, <3>1, <3>2
  <2> QED
    BY <1>0, <2>1 DEF Owned
<1>5. NoStrangers'
  <2>1. ASSUME NEW c \in Clients PROVE Spares(c)'
    <3>1. me[c].at \in Recording \union Releasing => me[c].pid # p
      BY <1>0 DEF InHand
    <3>2. Spares(c)
      BY DEF IInv, NoStrangers
    <3> QED
      BY <1>0, <1>1, <3>1, <3>2 DEF Spares, Recording, Releasing
  <2>2. (record.kind = "whole" => record.start # Stranger) /\ struck = FALSE
    BY DEF IInv, NoStrangers
  <2> QED
    BY <1>0, <2>1, <2>2 DEF NoStrangers
<1>6. HandInv'
  BY <1>0 DEF IInv, HandInv, Spawned, Shaken, My
<1>7. Accounted'
  BY <1>0 DEF IInv, Accounted, Certain, Found, Doomed, OnRecord, Written, Progress, My
<1> QED
  BY <1>2, <1>3, <1>4, <1>5, <1>6, <1>7 DEF IInv

-----------------------------------------------------------------------------
(* Steps of clients *)

\* The types of a client, and what the invariant says of it.
LEMMA ClientFields ==
    ASSUME IInv, NEW c \in Clients
    PROVE  /\ me[c] \in ClientType /\ Placed(c) /\ Spares(c)
           /\ me[c].at \in Places /\ me[c].mode \in ModeType /\ me[c].spawn \in Nat
           /\ me[c].pid \in Pids \union {0} /\ me[c].start \in Nat /\ me[c].then \in Places
           /\ c \in Sessions \/ c \in Killers
           /\ c \in Sessions => c \notin Killers /\ c # Nobody /\ Shaken(c) /\ Certain(c)
           /\ c \in Killers => lock # c
<1>1. me[c] \in ClientType
  BY DEF IInv, Typed
<1>2. Placed(c) /\ Spares(c)
  BY DEF IInv, LockInv, NoStrangers
<1>3. /\ c \in Sessions \/ c \in Killers
      /\ c \in Sessions => c \notin Killers /\ c # Nobody /\ Shaken(c) /\ Certain(c)
  BY HolderAssumption DEF IInv, HandInv, Accounted, Clients, Nobody
<1>4. c \in Killers => lock # c
  BY HolderAssumption DEF IInv, Typed, Nobody
<1> QED
  BY <1>1, <1>2, <1>3, <1>4 DEF ClientType

\* What another session is not, while c has the lock.
LEMMA OthersWait ==
    ASSUME IInv, NEW c \in Sessions, lock = c, NEW d \in Sessions, d # c
    PROVE  /\ me[d].at \notin Making \union {"look", "spawn", "mounts", "unlock"} \union Releasing
           /\ me[d].at = "clean" => me[d].then = "lock"
BY DEF IInv, LockInv, Clients, Placed, Locked

\* One client changes.
LEMMA Steps ==
    ASSUME IInv, NEW c \in Clients, NEW v \in ClientType, me' = [me EXCEPT ![c] = v]
    PROVE  /\ me' \in [Clients -> ClientType] /\ me'[c] = v
           /\ \A d \in Clients : d # c => me'[d] = me[d]
BY DEF IInv, Typed

\* A client goes to another place and keeps all else.
LEMMA Going ==
    ASSUME IInv, NEW c \in Clients, NEW place \in Places, Goes(c, place)
    PROVE  /\ me' \in [Clients -> ClientType]
           /\ \A d \in Clients : d # c => me'[d] = me[d]
           /\ me'[c].at = place /\ me'[c].mode = me[c].mode /\ me'[c].spawn = me[c].spawn
           /\ me'[c].pid = me[c].pid /\ me'[c].start = me[c].start
           /\ me'[c].todo = me[c].todo /\ me'[c].then = me[c].then
<1>1. me[c] \in ClientType
  BY ClientFields
<1>2. me' = [me EXCEPT ![c] = [me[c] EXCEPT !.at = place]]
  BY DEF Goes
<1>3. [me[c] EXCEPT !.at = place] \in ClientType
  BY <1>1 DEF ClientType
<1>4. /\ me' \in [Clients -> ClientType] /\ me'[c] = [me[c] EXCEPT !.at = place]
      /\ \A d \in Clients : d # c => me'[d] = me[d]
  BY <1>2, <1>3, Steps
<1> QED
  BY <1>1, <1>4 DEF ClientType

\* A client goes to remove the three files.
LEMMA Cleaning ==
    ASSUME IInv, NEW c \in Clients, NEW place \in Places, Cleans(c, place)
    PROVE  /\ me' \in [Clients -> ClientType]
           /\ \A d \in Clients : d # c => me'[d] = me[d]
           /\ me'[c].at = "clean" /\ me'[c].then = place /\ me'[c].todo = AllFiles
           /\ me'[c].mode = me[c].mode /\ me'[c].spawn = me[c].spawn
<1>1. me[c] \in ClientType
  BY ClientFields
<1> DEFINE v == [me[c] EXCEPT !.at = "clean", !.todo = AllFiles, !.then = place]
<1>2. me' = [me EXCEPT ![c] = v]
  BY DEF Cleans
<1>3. /\ v \in ClientType /\ v.at = "clean" /\ v.then = place /\ v.todo = AllFiles
      /\ v.mode = me[c].mode /\ v.spawn = me[c].spawn
  BY <1>1 DEF ClientType, Places
<1> HIDE DEF v
<1> QED
  BY <1>2, <1>3, Steps

\* A client is done, or dead, and forgets everything.
LEMMA Leaving ==
    ASSUME IInv, NEW c \in Clients, me' = [me EXCEPT ![c] = Away]
    PROVE  /\ me' \in [Clients -> ClientType] /\ me'[c] = Away
           /\ \A d \in Clients : d # c => me'[d] = me[d]
<1>1. Away \in ClientType
  BY DEF Away, ClientType, Places, Parked, ModeType, NoStart, Free
<1> QED
  BY <1>1, Steps

\* A client moves, and with it at most the lock.
Quiet(c) ==
    /\ UNCHANGED <<has, spawn, pipe, owner, record, flags, maxiso, struck>>
    /\ astray \subseteq astray'
    /\ me' \in [Clients -> ClientType]
    /\ \A d \in Clients : d # c => me'[d] = me[d]
    /\ lock' \in Sessions \union {Nobody}
    /\ \A d \in Sessions : d # c => (lock' = d <=> lock = d)

\* What is doomed stays doomed, unless its maker comes to map it.
LEMMA DoomedKept ==
    ASSUME NEW c, NEW k \in Spawns, spawn'[k] = spawn[k], pipe'[k] = pipe[k],
           \A d \in Clients : d # c => me'[d] = me[d],
           me'[c].at \notin {"map", "idmap"} \/ My(c)' # k \/ (me[c].at \in {"map", "idmap"} /\ My(c) = k),
           Doomed(k)
    PROVE  Doomed(k)'
BY DEF Doomed, My, Clients

\* A client's step that changes neither the kernel's processes nor the files.
LEMMA QuietStep ==
    ASSUME IInv, NEW c \in Clients, Quiet(c),
           Placed(c)', Spares(c)', me'[c].at \notin {"map", "idmap"},
           c \in Sessions => Shaken(c)' /\ Certain(c)',
           \A k \in Spawns \ astray' :
                c \in Sessions /\ me[c].at \in Making /\ My(c) = k => Found(k)'
    PROVE  IInv'
<1>0. Spawns' = Spawns
  BY DEF Quiet, Spawns
<1>1. Typed'
  BY DEF IInv, Typed, Quiet
<1>2. LockInv'
  <2>1. ASSUME NEW d \in Clients, d # c PROVE Placed(d)'
    BY <2>1 DEF IInv, LockInv, Placed, Locked, Quiet
  <2> QED
    BY <2>1 DEF LockInv
<1>3. Owned'
  BY DEF IInv, Owned, Quiet, Spawns
<1>4. NoStrangers'
  <2>1. ASSUME NEW d \in Clients, d # c PROVE Spares(d)'
    BY <2>1 DEF IInv, NoStrangers, Spares, Quiet
  <2>2. (record'.kind = "whole" => record'.start # Stranger) /\ struck' = FALSE
    BY DEF IInv, NoStrangers, Quiet
  <2> QED
    BY <2>1, <2>2 DEF NoStrangers
<1>5. HandInv'
  <2>1. ASSUME NEW j \in Spawns PROVE Spawned(j)'
    BY DEF IInv, HandInv, Spawned, Quiet
  <2>2. ASSUME NEW d \in Sessions, d # c PROVE Shaken(d)'
    <3>1. me'[d] = me[d] /\ Shaken(d)
      BY <2>2 DEF IInv, HandInv, Quiet, Clients
    <3> QED
      BY <3>1, <1>0 DEF Shaken, My, Quiet
  <2> QED
    BY <1>0, <2>1, <2>2 DEF HandInv
<1>6. ASSUME NEW k \in Spawns, Doomed(k) PROVE Doomed(k)'
  BY <1>6, DoomedKept DEF Quiet
<1>7. ASSUME NEW k \in Spawns \ astray' PROVE Found(k)'
  <2>1. Found(k)
    BY DEF IInv, Accounted, Quiet
  <2>2. CASE Doomed(k)
    BY <2>2, <1>6 DEF Found
  <2>3. CASE OnRecord(k)
    BY <2>3 DEF Found, OnRecord, Written, Quiet
  <2>4. ASSUME NEW d \in Sessions, My(d) = k, me[d].at \in Making PROVE Found(k)'
    <3>1. CASE d = c
      BY <2>4, <3>1
    <3>2. CASE d # c
      <4>1. me'[d] = me[d]
        BY <3>2 DEF Quiet, Clients
      <4> QED
        BY <2>4, <4>1 DEF Found, My
    <3> QED
      BY <3>1, <3>2
  <2> QED
    BY <2>1, <2>2, <2>3, <2>4 DEF Found
<1>8. ASSUME NEW d \in Sessions, d # c PROVE Certain(d)'
  <2>1. me'[d] = me[d] /\ Certain(d)
    BY <1>8 DEF IInv, Accounted, Quiet, Clients
  <2>2. me[d].at \in Recording => Progress(d)'
    BY <2>1 DEF Certain, Progress, Written, My, Quiet
  <2> QED
    BY <1>0, <1>6, <2>1, <2>2 DEF Certain, My, Quiet
<1>9. Accounted'
  BY <1>0, <1>7, <1>8 DEF Accounted
<1> QED
  BY <1>1, <1>2, <1>3, <1>4, <1>5, <1>9 DEF IInv

\* The session that has the lock moves, and with it anything but the pids.
LEMMA OwnerStep ==
    ASSUME IInv, NEW c \in Sessions, lock = c, lock' \in {c, Nobody},
           Typed', Owned', UNCHANGED <<owner, struck>>,
           record'.kind = "whole" => record'.start # Stranger,
           \A d \in Clients : d # c => me'[d] = me[d],
           Placed(c)', Spares(c)', Shaken(c)', Certain(c)',
           \A k \in Spawns' : Spawned(k)',
           \A k \in Spawns' \ astray' : Found(k)'
    PROVE  IInv'
<1>1. LockInv'
  <2>1. ASSUME NEW d \in Clients, d # c PROVE Placed(d)'
    <3>1. me'[d] = me[d] /\ Placed(d) /\ (d \in Sessions => d # Nobody)
      BY <2>1, ClientFields
    <3>2. d \in Sessions => (lock' = d <=> lock = d)
      BY <2>1, <3>1
    <3> QED
      BY <3>1, <3>2 DEF Placed, Locked
  <2> QED
    BY <2>1 DEF LockInv
<1>2. NoStrangers'
  <2>1. ASSUME NEW d \in Clients, d # c PROVE Spares(d)'
    BY <2>1 DEF IInv, NoStrangers, Spares
  <2> QED
    BY <2>1 DEF NoStrangers, IInv
<1>3. ASSUME NEW d \in Sessions, d # c PROVE Shaken(d)' /\ Certain(d)'
  <2>1. me'[d] = me[d]
    BY <1>3 DEF Clients
  <2>2. /\ me[d].at \notin Making \union {"spawn", "term", "poll", "kill"}
        /\ me[d].at = "clean" => me[d].then = "lock"
    BY <1>3, OthersWait DEF Releasing
  <2>3. me[d].at \notin Recording
    BY <2>2 DEF Making
  <2> QED
    BY <2>1, <2>2, <2>3 DEF Shaken, Certain
<1>4. HandInv' /\ Accounted'
  BY <1>3 DEF HandInv, Accounted
<1> QED
  BY <1>1, <1>2, <1>4 DEF IInv

\* A holder that is on record is found.
LEMMA RecordSound ==
    ASSUME IInv, NEW k \in Spawns, OnRecord(k)
    PROVE  /\ Sound(record) /\ Enterable(record.pid)
           /\ record.pid = spawn[k].pid /\ record.pid \in Pids /\ owner[record.pid] = k
<1>1. spawn[k].holder \in Settled /\ record.kind = "whole" /\ record.pid = spawn[k].pid /\ record.start = k
  BY DEF OnRecord, Written
<1>2. spawn[k].pid \in Pids /\ owner[spawn[k].pid] = k /\ Up(k)
  BY <1>1 DEF IInv, Owned, Settled, Up
<1>3. k # Free
  BY DEF Spawns, Free
<1> QED
  BY <1>1, <1>2, <1>3 DEF Sound, Alive, NoStart, StartTime, Enterable

\* With the lock, and nothing in hand: what there is is on record.
LEMMA AllOnRecord ==
    ASSUME IInv, NEW c \in Sessions, lock = c, me[c].at \notin Making, NEW k \in Spawns \ astray
    PROVE  Doomed(k) \/ OnRecord(k)
<1>1. Found(k)
  BY DEF IInv, Accounted
<1> QED
  BY <1>1, OthersWait DEF Found

\* The same of a client that ends up making nothing and signalling nobody.
LEMMA QuietIdle ==
    ASSUME IInv, NEW c \in Clients, Quiet(c), Placed(c)',
           me'[c].at \notin Making \union {"spawn", "term", "poll", "kill"},
           c \in Sessions /\ me'[c].at = "clean" /\ me'[c].then # "lock" =>
                \A k \in Spawns \ astray : Doomed(k),
           \A k \in Spawns \ astray' :
                c \in Sessions /\ me[c].at \in Making /\ My(c) = k => Doomed(k) \/ OnRecord(k)
    PROVE  IInv'
<1>1. me'[c].at \notin Recording /\ me'[c].at \notin {"map", "idmap", "open", "write"}
  BY DEF Making, Recording, Handshake
<1>2. Spares(c)' /\ Shaken(c)'
  BY <1>1 DEF Spares, Shaken
<1>3. /\ Spawns' = Spawns /\ astray \subseteq astray'
      /\ \A k \in Spawns : Doomed(k) => Doomed(k)'
      /\ \A k \in Spawns : OnRecord(k) => OnRecord(k)'
  BY <1>1, DoomedKept DEF Quiet, Spawns, OnRecord, Written
<1>4. c \in Sessions => Certain(c)'
  BY <1>1, <1>3 DEF Certain
<1>5. ASSUME NEW k \in Spawns \ astray', c \in Sessions, me[c].at \in Making, My(c) = k
      PROVE  Found(k)'
  BY <1>3, <1>5 DEF Found
<1> QED
  BY <1>1, <1>2, <1>4, <1>5, QuietStep

LEMMA ArrivesKeeps ==
    ASSUME IInv, NEW c \in Clients, Arrives(c)
    PROVE  IInv'
<1>0. /\ me[c].at = "out" /\ Placed(c) /\ me[c] \in ClientType
      /\ c \in Sessions => c \notin Killers
      /\ UNCHANGED <<has, spawn, pipe, owner, record, flags, maxiso, lock, astray, struck>>
  BY ClientFields DEF Arrives, At, kernel, files, past
<1>1. CASE c \in Killers /\ Goes(c, "seek")
  <2>1. /\ me' \in [Clients -> ClientType]
        /\ \A d \in Clients : d # c => me'[d] = me[d]
        /\ me'[c].at = "seek" /\ me'[c].then = me[c].then
    BY <1>1, Going DEF Places
  <2>2. Quiet(c)
    BY <1>0, <2>1 DEF Quiet, IInv, Typed
  <2>3. Placed(c)'
    BY <1>0, <1>1, <2>1 DEF Placed
  <2> QED
    BY <1>0, <2>1, <2>2, <2>3, QuietIdle DEF Making, Handshake, Recording
<1>2. CASE c \notin Killers /\ \E m \in Modes : me' = [me EXCEPT ![c].at = "check", ![c].mode = m]
  <2>1. PICK m \in Modes : me' = [me EXCEPT ![c].at = "check", ![c].mode = m]
    BY <1>2
  <2> DEFINE v == [me[c] EXCEPT !.at = "check", !.mode = m]
  <2>2. m \in ModeType
    BY HolderAssumption DEF ModeType
  <2>3. v \in ClientType /\ v.at = "check" /\ me' = [me EXCEPT ![c] = v]
    BY <1>0, <2>1, <2>2 DEF ClientType, Places
  <2> HIDE DEF v
  <2>4. /\ me' \in [Clients -> ClientType] /\ me'[c].at = "check"
        /\ \A d \in Clients : d # c => me'[d] = me[d]
    BY <2>3, Steps
  <2>5. Quiet(c)
    BY <1>0, <2>4 DEF Quiet, IInv, Typed
  <2>6. Placed(c)'
    BY <1>0, <1>2, <2>4 DEF Placed, Locked, Making, Handshake, Recording, Releasing
  <2> QED
    BY <1>0, <2>4, <2>5, <2>6, QuietIdle DEF Making, Handshake, Recording
<1> QED
  BY <1>1, <1>2 DEF Arrives

LEMMA LocksKeeps ==
    ASSUME IInv, NEW c \in Clients, Locks(c)
    PROVE  IInv'
<1>0. /\ me[c].at = "lock" /\ Placed(c)
      /\ lock = Nobody /\ lock' = c
      /\ UNCHANGED <<has, spawn, pipe, owner, record, flags, maxiso, astray, struck>>
  BY ClientFields DEF Locks, At, kernel, files, past, Same
<1>1. c \in Sessions /\ c \notin Killers /\ c # Nobody
  <2>1. c \notin Killers
    BY <1>0 DEF Placed, Releasing
  <2> QED
    BY <1>0, <2>1, ClientFields
<1>2. /\ me' \in [Clients -> ClientType]
      /\ \A d \in Clients : d # c => me'[d] = me[d]
      /\ me'[c].at = "look"
  BY Going DEF Places, Locks
<1>3. \A d \in Sessions : d # Nobody
  BY HolderAssumption DEF Nobody
<1>4. Quiet(c)
  BY <1>0, <1>1, <1>2, <1>3 DEF Quiet
<1>5. Placed(c)'
  BY <1>0, <1>1, <1>2 DEF Placed, Locked, Making, Handshake, Recording, Releasing
<1>6. /\ me[c].at \notin Making /\ me'[c].at # "clean"
      /\ me'[c].at \notin Making \union {"spawn", "term", "poll", "kill"}
  BY <1>0, <1>2 DEF Making, Handshake, Recording
<1> QED
  BY <1>4, <1>5, <1>6, QuietIdle

\* Nothing is found, with the lock: there is no holder.
LEMMA NothingFound ==
    ASSUME IInv, NEW c \in Sessions, lock = c, me[c].at \notin Making,
           ~(Sound(record) /\ Enterable(record.pid)), NEW k \in Spawns \ astray
    PROVE  Doomed(k)
BY AllOnRecord, RecordSound

LEMMA LooksKeeps ==
    ASSUME IInv, NEW c \in Clients, Looks(c)
    PROVE  IInv'
<1>0. /\ me[c].at \in {"check", "look", "seek"} /\ Placed(c) /\ me[c] \in ClientType
      /\ me[c].then \in Places
      /\ UNCHANGED <<has, spawn, pipe, owner, record, flags, maxiso, lock, astray, struck>>
      /\ lock \in Sessions \union {Nobody}
  BY ClientFields DEF Looks, kernel, files, past, Same, IInv, Typed
<1>1. /\ me[c].at \notin Making
      /\ me[c].at = "seek" => c \in Killers
      /\ me[c].at # "seek" => c \notin Killers
      /\ c \in Killers => c \notin Sessions
      /\ c \in Sessions => (me[c].at = "look" <=> lock = c)
  BY <1>0, ClientFields DEF Making, Handshake, Recording, Placed, Releasing, Locked
<1>2. CASE Sound(record) /\ Enterable(record.pid) /\ Goes(c, Hit(c))
  <2>1. /\ Hit(c) \in Places /\ (me[c].at = "check" => Hit(c) = "lock")
        /\ me[c].at = "look" => Hit(c) = "mounts"
        /\ me[c].at = "seek" => Hit(c) = "read"
    BY <1>0 DEF Hit, At, Places, Releasing
  <2>2. /\ me' \in [Clients -> ClientType]
        /\ \A d \in Clients : d # c => me'[d] = me[d]
        /\ me'[c].at = Hit(c) /\ me'[c].then = me[c].then
    BY <1>2, <2>1, Going
  <2>3. Quiet(c)
    BY <1>0, <2>2 DEF Quiet
  <2>4. Placed(c)'
    BY <1>0, <1>1, <2>1, <2>2 DEF Placed, Locked, Making, Handshake, Recording, Releasing
  <2>5. /\ me'[c].at # "clean"
        /\ me'[c].at \notin Making \union {"spawn", "term", "poll", "kill"}
    BY <1>0, <2>1, <2>2 DEF Making, Handshake, Recording
  <2> QED
    BY <1>1, <2>3, <2>4, <2>5, QuietIdle
<1>3. CASE record.kind = "absent" /\ Missed(c) # "spawn" /\ Arrived(c, Missed(c))
  <2>1. /\ me[c].at = "check" => Missed(c) = "lock"
        /\ me[c].at = "look" => Missed(c) = "unlock"
        /\ me[c].at = "seek" => Missed(c) = "out"
    BY <1>0, <1>3 DEF Missed, At
  <2>2. /\ me' \in [Clients -> ClientType]
        /\ \A d \in Clients : d # c => me'[d] = me[d]
        /\ me'[c].at = Missed(c) /\ (c \in Killers => me'[c].then = "out")
    <3>1. CASE me[c].at = "seek"
      BY <1>1, <1>3, <2>1, <3>1, Leaving DEF Arrived, Away
    <3>2. CASE me[c].at # "seek"
      <4>1. Goes(c, Missed(c)) /\ Missed(c) \in Places
        BY <1>0, <1>3, <2>1, <3>2 DEF Arrived, Places
      <4> QED
        BY <1>1, <3>2, <4>1, Going
    <3> QED
      BY <3>1, <3>2
  <2>3. Quiet(c)
    BY <1>0, <2>2 DEF Quiet
  <2>4. Placed(c)'
    BY <1>0, <1>1, <2>1, <2>2 DEF Placed, Locked, Making, Handshake, Recording, Releasing
  <2>5. /\ me'[c].at # "clean"
        /\ me'[c].at \notin Making \union {"spawn", "term", "poll", "kill"}
    BY <1>0, <2>1, <2>2 DEF Making, Handshake, Recording
  <2> QED
    BY <1>1, <2>3, <2>4, <2>5, QuietIdle
<1>4. CASE ~(Sound(record) /\ Enterable(record.pid)) /\ Cleans(c, Missed(c))
  <2>1. /\ me[c].at = "check" => Missed(c) = "lock"
        /\ me[c].at = "look" => Missed(c) \in {"spawn", "unlock"}
        /\ me[c].at = "seek" => Missed(c) = "out"
        /\ Missed(c) \in Places
    BY <1>0 DEF Missed, At, Places
  <2>2. /\ me' \in [Clients -> ClientType]
        /\ \A d \in Clients : d # c => me'[d] = me[d]
        /\ me'[c].at = "clean" /\ me'[c].then = Missed(c) /\ me'[c].todo = AllFiles
    BY <1>4, <2>1, Cleaning
  <2>3. Quiet(c)
    BY <1>0, <2>2 DEF Quiet
  <2>4. AllFiles # <<>>
    BY DEF AllFiles
  <2>5. Placed(c)'
    BY <1>0, <1>1, <2>1, <2>2, <2>4 DEF Placed, Locked, Making, Handshake, Recording, Releasing
  <2>6. me'[c].at \notin Making \union {"spawn", "term", "poll", "kill"}
    BY <2>2 DEF Making, Handshake, Recording
  <2>7. c \in Sessions /\ me'[c].then # "lock" => \A k \in Spawns \ astray : Doomed(k)
    BY <1>0, <1>1, <1>4, <2>1, <2>2, NothingFound
  <2> QED
    BY <1>1, <2>3, <2>5, <2>6, <2>7, QuietIdle
<1> QED
  BY <1>2, <1>3, <1>4 DEF Looks

LEMMA UnlocksKeeps ==
    ASSUME IInv, NEW c \in Clients, Unlocks(c)
    PROVE  IInv'
<1>0. /\ me[c].at = "unlock" /\ Placed(c) /\ lock' = Nobody /\ me' = [me EXCEPT ![c] = Away]
      /\ UNCHANGED <<has, spawn, pipe, owner, record, flags, maxiso, astray, struck>>
  BY ClientFields DEF Unlocks, At, kernel, files, past, Same
<1>1. c \notin Killers
  BY <1>0 DEF Placed, Releasing
<1>2. c \in Sessions /\ lock = c /\ c # Nobody
  BY <1>0, <1>1, ClientFields DEF Placed, Locked
<1>3. /\ me' \in [Clients -> ClientType] /\ me'[c].at = "out"
      /\ \A d \in Clients : d # c => me'[d] = me[d]
  BY <1>0, Leaving DEF Away
<1>4. \A d \in Sessions : d # Nobody
  BY HolderAssumption DEF Nobody
<1>5. Quiet(c)
  BY <1>0, <1>2, <1>3, <1>4 DEF Quiet
<1>6. Placed(c)'
  BY <1>0, <1>1, <1>2, <1>3 DEF Placed, Locked, Making, Handshake, Recording, Releasing
<1>7. /\ me[c].at \notin Making /\ me'[c].at # "clean"
      /\ me'[c].at \notin Making \union {"spawn", "term", "poll", "kill"}
  BY <1>0, <1>3 DEF Making, Handshake, Recording
<1> QED
  BY <1>5, <1>6, <1>7, QuietIdle

\* To the release, with what is to come after it.
LEMMA GoingToRead ==
    ASSUME IInv, NEW c \in Clients, me' = [me EXCEPT ![c].at = "read", ![c].then = "unlock"]
    PROVE  /\ me' \in [Clients -> ClientType]
           /\ \A d \in Clients : d # c => me'[d] = me[d]
           /\ me'[c].at = "read" /\ me'[c].then = "unlock"
<1>1. me[c] \in ClientType
  BY ClientFields
<1> DEFINE v == [me[c] EXCEPT !.at = "read", !.then = "unlock"]
<1>2. v \in ClientType /\ v.at = "read" /\ v.then = "unlock" /\ me' = [me EXCEPT ![c] = v]
  BY <1>1 DEF ClientType, Places, Releasing
<1> HIDE DEF v
<1> QED
  BY <1>2, Steps

LEMMA LeavesKeeps ==
    ASSUME IInv, NEW c \in Sessions, Leaves(c)
    PROVE  IInv'
<1>0. /\ me[c].at = "in" /\ lock = Nobody /\ lock' = c /\ c \in Clients
      /\ UNCHANGED <<has, spawn, pipe, owner, record, flags, maxiso, astray, struck>>
  BY DEF Leaves, At, kernel, files, past, Same, Clients
<1>1. c \notin Killers /\ c # Nobody
  BY <1>0, ClientFields
<1>2. /\ me' \in [Clients -> ClientType]
      /\ \A d \in Clients : d # c => me'[d] = me[d]
      /\ me'[c].at \in {"read", "unlock"} /\ (me'[c].at = "read" => me'[c].then = "unlock")
  <2>1. CASE me' = [me EXCEPT ![c].at = "read", ![c].then = "unlock"]
    BY <1>0, <2>1, GoingToRead
  <2>2. CASE Goes(c, "unlock")
    BY <1>0, <2>2, Going DEF Places
  <2> QED
    BY <2>1, <2>2 DEF Leaves
<1>3. \A d \in Sessions : d # Nobody
  BY HolderAssumption DEF Nobody
<1>4. Quiet(c)
  BY <1>0, <1>1, <1>2, <1>3 DEF Quiet
<1>5. Placed(c)'
  BY <1>0, <1>1, <1>2 DEF Placed, Locked, Making, Handshake, Recording, Releasing
<1>6. /\ me[c].at \notin Making /\ me'[c].at # "clean"
      /\ me'[c].at \notin Making \union {"spawn", "term", "poll", "kill"}
  BY <1>0, <1>2 DEF Making, Handshake, Recording
<1> QED
  BY <1>0, <1>4, <1>5, <1>6, QuietIdle

LEMMA ReadsKeeps ==
    ASSUME IInv, NEW c \in Clients, Reads(c)
    PROVE  IInv'
<1>0. /\ me[c].at = "read" /\ Placed(c) /\ me[c] \in ClientType /\ me[c].then \in Places
      /\ UNCHANGED <<has, spawn, pipe, owner, record, flags, maxiso, lock, astray, struck>>
      /\ lock \in Sessions \union {Nobody} /\ record \in RecordType
  BY ClientFields DEF Reads, At, kernel, files, past, Same, IInv, Typed
<1>1. /\ me[c].at \notin Making
      /\ c \in Sessions => c \notin Killers /\ lock = c /\ me[c].then = "unlock"
      /\ c \in Killers => c \notin Sessions /\ me[c].then = "out"
      /\ c \in Sessions \/ c \in Killers
  BY <1>0, ClientFields DEF Making, Handshake, Recording, Placed, Releasing, Locked
<1>2. CASE /\ Sound(record)
           /\ me' = [me EXCEPT ![c].at = "term", ![c].pid = record.pid, ![c].start = record.start]
  <2>0. /\ record.kind = "whole" /\ record.pid \in Pids /\ record.start \in Nat
        /\ record.start # NoStart => owner[record.pid] = record.start
        /\ record.start # Stranger
    <3>1. record.kind = "whole" /\ (record.start # NoStart => owner[record.pid] = record.start)
      BY <1>2 DEF Sound, StartTime
    <3>2. record \in [kind : {"whole"}, pid : Pids, start : Nat, custom : BOOLEAN]
      BY <1>0, <3>1 DEF RecordType, Absent, Empty
    <3> QED
      BY <3>1, <3>2 DEF IInv, NoStrangers
  <2> DEFINE v == [me[c] EXCEPT !.at = "term", !.pid = record.pid, !.start = record.start]
  <2>1. /\ v \in ClientType /\ v.at = "term" /\ v.pid = record.pid /\ v.start = record.start
        /\ v.then = me[c].then /\ me' = [me EXCEPT ![c] = v]
    BY <1>0, <1>2, <2>0 DEF ClientType, Places, Releasing
  <2> HIDE DEF v
  <2>2. /\ me' \in [Clients -> ClientType]
        /\ \A d \in Clients : d # c => me'[d] = me[d]
        /\ me'[c].at = "term" /\ me'[c].pid = record.pid /\ me'[c].start = record.start
        /\ me'[c].then = me[c].then
    BY <2>1, Steps
  <2>3. Quiet(c)
    BY <1>0, <2>2 DEF Quiet
  <2>4. Placed(c)'
    BY <1>0, <1>1, <2>2 DEF Placed, Locked, Making, Handshake, Recording, Releasing
  <2>5. Spares(c)'
    BY <1>0, <2>0, <2>2 DEF Spares
  <2>6. me'[c].at \notin Making \union Recording \union {"spawn", "map", "idmap"}
    BY <2>2 DEF Making, Handshake, Recording
  <2>7. ASSUME c \in Sessions, NEW k \in Spawns \ astray
        PROVE  Doomed(k)' \/ (spawn[k].holder \in Settled /\ me'[c].pid = spawn[k].pid)
    <3>1. Doomed(k) => Doomed(k)'
      BY <2>2, <2>3, DoomedKept DEF Quiet
    <3>2. OnRecord(k) => spawn[k].holder \in Settled /\ record.pid = spawn[k].pid
      BY DEF OnRecord, Written
    <3> QED
      BY <1>1, <2>2, <2>7, <3>1, <3>2, AllOnRecord
  <2>8. c \in Sessions => Shaken(c)' /\ Certain(c)'
    BY <1>0, <2>2, <2>6, <2>7 DEF Shaken, Certain, Spawns
  <2> QED
    BY <1>1, <2>3, <2>4, <2>5, <2>6, <2>8, QuietStep
<1>3. CASE ~Sound(record) /\ Cleans(c, me[c].then)
  <2>1. /\ me' \in [Clients -> ClientType]
        /\ \A d \in Clients : d # c => me'[d] = me[d]
        /\ me'[c].at = "clean" /\ me'[c].then = me[c].then /\ me'[c].todo = AllFiles
    BY <1>0, <1>3, Cleaning
  <2>2. Quiet(c)
    BY <1>0, <2>1 DEF Quiet
  <2>3. AllFiles # <<>>
    BY DEF AllFiles
  <2>4. Placed(c)'
    BY <1>0, <1>1, <2>1, <2>3 DEF Placed, Locked, Making, Handshake, Recording, Releasing
  <2>5. me'[c].at \notin Making \union {"spawn", "term", "poll", "kill"}
    BY <2>1 DEF Making, Handshake, Recording
  <2>6. c \in Sessions => \A k \in Spawns \ astray : Doomed(k)
    BY <1>1, <1>3, NothingFound
  <2> QED
    BY <1>1, <2>2, <2>4, <2>5, <2>6, QuietIdle
<1> QED
  BY <1>2, <1>3 DEF Reads

LEMMA PollsKeeps ==
    ASSUME IInv, NEW c \in Clients, Polls(c)
    PROVE  IInv'
<1>0. /\ me[c].at = "poll" /\ Placed(c) /\ Spares(c) /\ me[c].then \in Places
      /\ UNCHANGED <<has, spawn, pipe, owner, record, flags, maxiso, lock, astray, struck>>
      /\ lock \in Sessions \union {Nobody}
  BY ClientFields DEF Polls, At, kernel, files, past, Same, IInv, Typed
<1>1. /\ me[c].at \notin Making
      /\ c \in Sessions => c \notin Killers /\ lock = c /\ me[c].then = "unlock" /\ Certain(c)
      /\ c \in Killers => c \notin Sessions /\ me[c].then = "out"
      /\ c \in Sessions \/ c \in Killers
  BY <1>0, ClientFields DEF Making, Handshake, Recording, Placed, Releasing, Locked
<1>2. CASE Goes(c, "kill")
  <2>1. /\ me' \in [Clients -> ClientType]
        /\ \A d \in Clients : d # c => me'[d] = me[d]
        /\ me'[c].at = "kill" /\ me'[c].pid = me[c].pid /\ me'[c].start = me[c].start
        /\ me'[c].then = me[c].then
    BY <1>2, Going DEF Places, Releasing
  <2>2. Quiet(c)
    BY <1>0, <2>1 DEF Quiet
  <2>3. Placed(c)'
    BY <1>0, <1>1, <2>1 DEF Placed, Locked, Making, Handshake, Recording, Releasing
  <2>4. Spares(c)'
    BY <1>0, <2>1 DEF Spares
  <2>5. me'[c].at \notin Making \union Recording \union {"spawn", "map", "idmap"}
    BY <2>1 DEF Making, Handshake, Recording
  <2>6. ASSUME NEW k \in Spawns, Doomed(k) PROVE Doomed(k)'
    BY <2>1, <2>2, <2>6, DoomedKept DEF Quiet
  <2>7. c \in Sessions => Shaken(c)' /\ Certain(c)'
    BY <1>0, <1>1, <2>1, <2>5, <2>6 DEF Shaken, Certain, Spawns
  <2> QED
    BY <1>1, <2>2, <2>3, <2>4, <2>5, <2>7, QuietStep
<1>3. CASE ~Alive(me[c].pid) /\ Cleans(c, me[c].then)
  <2>1. /\ me' \in [Clients -> ClientType]
        /\ \A d \in Clients : d # c => me'[d] = me[d]
        /\ me'[c].at = "clean" /\ me'[c].then = me[c].then /\ me'[c].todo = AllFiles
    BY <1>0, <1>3, Cleaning
  <2>2. Quiet(c)
    BY <1>0, <2>1 DEF Quiet
  <2>3. AllFiles # <<>>
    BY DEF AllFiles
  <2>4. Placed(c)'
    BY <1>0, <1>1, <2>1, <2>3 DEF Placed, Locked, Making, Handshake, Recording, Releasing
  <2>5. me'[c].at \notin Making \union {"spawn", "term", "poll", "kill"}
    BY <2>1 DEF Making, Handshake, Recording
  <2>6. ASSUME c \in Sessions, NEW k \in Spawns \ astray PROVE Doomed(k)
    <3>1. Doomed(k) \/ (spawn[k].holder \in Settled /\ me[c].pid = spawn[k].pid)
      BY <1>0, <1>1, <2>6 DEF Certain
    <3>2. spawn[k].holder \in Settled => owner[spawn[k].pid] = k /\ k # Free
      BY DEF IInv, Owned, Settled, Spawns, Free
    <3> QED
      BY <1>3, <3>1, <3>2 DEF Alive
  <2> QED
    BY <1>1, <2>2, <2>4, <2>5, <2>6, QuietIdle
<1> QED
  BY <1>2, <1>3 DEF Polls

\* What is known while c makes a holder.
LEMMA MakingKnows ==
    ASSUME IInv, NEW c \in Clients, me[c].at \in Making
    PROVE  /\ c \in Sessions /\ c \notin Killers /\ c # Nobody /\ lock = c
           /\ Shaken(c) /\ Certain(c) /\ Placed(c) /\ Spares(c) /\ me[c] \in ClientType
           /\ My(c) \in Spawns /\ Spawned(My(c)) /\ Typed
           /\ spawn[My(c)].holder \in HolderAt /\ spawn[My(c)].launcher \in LauncherAt
           /\ pipe[My(c)].pid \in {<<>>, <<"MAP">>, <<"pid">>, <<"K">>}
           /\ \A k \in Spawns \ astray : k # My(c) => Doomed(k)
<1>1. Placed(c) /\ Spares(c) /\ me[c] \in ClientType
  BY ClientFields
<1>2. c \notin Killers
  BY <1>1 DEF Placed, Making, Handshake, Recording, Releasing
<1>3. c \in Sessions /\ c # Nobody /\ Shaken(c) /\ Certain(c)
  BY <1>2, ClientFields
<1>4. lock = c
  BY <1>1, <1>3 DEF Placed, Locked
<1>5. My(c) \in Spawns
  BY <1>3 DEF Shaken
<1> QED
  BY <1>1, <1>2, <1>3, <1>4, <1>5, Knowing DEF Certain

LEMMA ReapsLauncherKeeps ==
    ASSUME IInv, NEW c \in Clients, ReapsLauncher(c)
    PROVE  IInv'
<1>0. /\ me[c].at = "reap" /\ spawn[My(c)].launcher = "gone"
      /\ UNCHANGED <<has, spawn, pipe, owner, record, flags, maxiso, lock, astray, struck>>
      /\ lock \in Sessions \union {Nobody}
  BY DEF ReapsLauncher, At, LauncherIn, kernel, files, past, Same, IInv, Typed
<1>1. me[c].at \in Making /\ me[c].at \in Handshake
  BY <1>0 DEF Making, Handshake
<1>2. /\ c \in Sessions /\ c \notin Killers /\ lock = c
      /\ Shaken(c) /\ My(c) \in Spawns /\ Spawned(My(c)) /\ spawn[My(c)].holder \in HolderAt
  BY <1>1, MakingKnows
<1>3. /\ me' \in [Clients -> ClientType]
      /\ \A d \in Clients : d # c => me'[d] = me[d]
      /\ me'[c].at = "unlock"
  BY Going DEF Places, ReapsLauncher
<1>4. Quiet(c)
  BY <1>0, <1>3 DEF Quiet
<1>5. Placed(c)'
  BY <1>0, <1>2, <1>3 DEF Placed, Locked, Making, Handshake, Recording, Releasing
<1>6. me'[c].at \notin Making \union {"spawn", "term", "poll", "kill"} /\ me'[c].at # "clean"
  BY <1>3 DEF Making, Handshake, Recording
<1>7. ASSUME My(c) \notin astray PROVE Doomed(My(c))
  <2>1. spawn[My(c)].holder \notin Young
    BY <1>0, <1>2, <1>7 DEF Spawned
  <2>2. spawn[My(c)].holder \notin Settled
    BY <1>0, <1>1, <1>2, <1>7, Words DEF Shaken
  <2>3. spawn[My(c)].holder \in {"none"} \union Dead
    BY <1>2, <2>1, <2>2 DEF HolderAt, Young, Settled, Dead
  <2> QED
    BY <1>0, <2>3 DEF Doomed
<1> QED
  BY <1>0, <1>4, <1>5, <1>6, <1>7, QuietIdle

LEMMA VerifiesKeeps ==
    ASSUME IInv, NEW c \in Clients, Verifies(c)
    PROVE  IInv'
<1>0. /\ me[c].at = "alive"
      /\ UNCHANGED <<has, spawn, pipe, owner, record, flags, maxiso, lock, astray, struck>>
      /\ lock \in Sessions \union {Nobody}
  BY DEF Verifies, At, kernel, files, past, Same, IInv, Typed
<1>1. me[c].at \in Making /\ me[c].at \in Recording
  BY <1>0 DEF Making, Recording
<1>2. /\ c \in Sessions /\ c \notin Killers /\ lock = c /\ Certain(c) /\ Spares(c)
      /\ Shaken(c) /\ My(c) \in Spawns
      /\ \A k \in Spawns \ astray : k # My(c) => Doomed(k)
  BY <1>1, MakingKnows
<1>3. spawn[My(c)].holder \in Settled \union Dead /\ me[c].pid = spawn[My(c)].pid
  BY <1>1, <1>2 DEF Shaken
<1>4. CASE Up(My(c)) /\ Goes(c, "open")
  <2>1. /\ me' \in [Clients -> ClientType]
        /\ \A d \in Clients : d # c => me'[d] = me[d]
        /\ me'[c].at = "open" /\ me'[c].pid = me[c].pid /\ me'[c].spawn = me[c].spawn
        /\ me'[c].mode = me[c].mode
    BY <1>4, Going DEF Places, Recording
  <2>2. Quiet(c)
    BY <1>0, <2>1 DEF Quiet
  <2>3. Placed(c)'
    BY <1>0, <1>2, <2>1 DEF Placed, Locked, Making, Handshake, Recording, Releasing
  <2>4. owner[me[c].pid] = My(c) /\ My(c) # Stranger
    <3>1. owner[me[c].pid] = My(c)
      BY <1>2, <1>3, <1>4 DEF IInv, Owned, Up
    <3>2. Len(spawn) \in Nat /\ Len(spawn) <= MaxSpawns
      BY DEF IInv, Typed
    <3> QED
      BY <1>2, <3>1, <3>2, HolderAssumption DEF Spawns, Stranger
  <2>5. Spares(c)'
    BY <1>0, <1>1, <1>2, <2>1, <2>4 DEF Spares
  <2>6. /\ me'[c].at \in Making /\ me'[c].at \in Recording /\ me'[c].at \notin Handshake
        /\ me'[c].at \notin {"map", "idmap"} \union Releasing
    BY <2>1 DEF Making, Handshake, Recording, Releasing
  <2>7. Shaken(c)'
    BY <1>0, <1>1, <1>2, <1>3, <2>1, <2>6 DEF Shaken, My, Spawns
  <2>8. ASSUME NEW k \in Spawns, Doomed(k) PROVE Doomed(k)'
    BY <2>1, <2>2, <2>8, DoomedKept DEF Quiet
  <2>9. Certain(c)'
    <3>1. \A k \in Spawns \ astray : Doomed(k)' \/ My(c)' = k
      BY <1>2, <2>1, <2>8 DEF My
    <3> QED
      BY <1>0, <2>1, <2>6, <3>1 DEF Certain, Progress, Spawns
  <2>10. ASSUME NEW k \in Spawns, My(c) = k PROVE Found(k)'
    BY <1>2, <2>1, <2>6, <2>10 DEF Found, My
  <2> QED
    BY <2>2, <2>3, <2>5, <2>6, <2>7, <2>9, <2>10, QuietStep
<1>5. CASE ~Up(My(c)) /\ Cleans(c, "unlock")
  <2>1. /\ me' \in [Clients -> ClientType]
        /\ \A d \in Clients : d # c => me'[d] = me[d]
        /\ me'[c].at = "clean" /\ me'[c].then = "unlock" /\ me'[c].todo = AllFiles
    BY <1>5, Cleaning DEF Places
  <2>2. Quiet(c)
    BY <1>0, <2>1 DEF Quiet
  <2>3. AllFiles # <<>>
    BY DEF AllFiles
  <2>4. Placed(c)'
    BY <1>0, <1>2, <2>1, <2>3 DEF Placed, Locked, Making, Handshake, Recording, Releasing
  <2>5. me'[c].at \notin Making \union {"spawn", "term", "poll", "kill"}
    BY <2>1 DEF Making, Handshake, Recording
  <2>6. Doomed(My(c))
    BY <1>3, <1>5 DEF Doomed, Up, Settled, Dead
  <2>7. \A k \in Spawns \ astray : Doomed(k)
    BY <1>2, <2>6
  <2> QED
    BY <1>0, <2>2, <2>4, <2>5, <2>7, QuietIdle
<1> QED
  BY <1>4, <1>5 DEF Verifies

\* A session that is killed while it makes a holder leaves it astray.
LEMMA CrashesKeeps ==
    ASSUME IInv, NEW c \in Clients, Crashes(c)
    PROVE  IInv'
<1>0. /\ me' = [me EXCEPT ![c] = Away]
      /\ lock' = IF lock = c THEN Nobody ELSE lock
      /\ astray' = IF me[c].at \in Making THEN astray \union {My(c)} ELSE astray
      /\ UNCHANGED <<has, spawn, pipe, owner, record, flags, maxiso, struck>>
      /\ lock \in Sessions \union {Nobody}
  BY DEF Crashes, Making, kernel, files, past, Same, IInv, Typed
<1>1. /\ me' \in [Clients -> ClientType] /\ me'[c].at = "out" /\ me'[c].then = "out"
      /\ \A d \in Clients : d # c => me'[d] = me[d]
  BY <1>0, Leaving DEF Away
<1>2. \A d \in Sessions : d # Nobody
  BY HolderAssumption DEF Nobody
<1>3. Quiet(c)
  BY <1>0, <1>1, <1>2 DEF Quiet
<1>4. c \in Sessions => lock' # c
  BY <1>0, <1>2
<1>5. Placed(c)'
  BY <1>1, <1>4 DEF Placed, Locked, Making, Handshake, Recording, Releasing
<1>6. me'[c].at \notin Making \union {"spawn", "term", "poll", "kill"} /\ me'[c].at # "clean"
  BY <1>1 DEF Making, Handshake, Recording
<1> QED
  BY <1>0, <1>3, <1>5, <1>6, QuietIdle

\* A session records its holder, and has the lock.
LEMMA RecordingStep ==
    ASSUME IInv, NEW c \in Clients, me[c].at \in Recording,
           UNCHANGED <<has, spawn, pipe, owner, lock, astray, struck>>,
           record' \in RecordType, record'.kind = "whole" => record'.start # Stranger,
           flags' \in BOOLEAN, maxiso' \in BOOLEAN,
           me' \in [Clients -> ClientType],
           \A d \in Clients : d # c => me'[d] = me[d],
           me'[c].spawn = me[c].spawn, me'[c].mode = me[c].mode, me'[c].pid = me[c].pid,
           me'[c].at \in Recording \union {"mounts"},
           Spares(c)',
           me'[c].at \in Recording => Progress(c)',
           me'[c].at = "mounts" =>
                \A k \in Spawns \ astray : k = My(c) => Doomed(k) \/ OnRecord(k)'
    PROVE  IInv'
<1>1. me[c].at \in Making
  BY DEF Making
<1>2. /\ c \in Sessions /\ c \notin Killers /\ lock = c
      /\ Shaken(c) /\ My(c) \in Spawns /\ Typed /\ lock' = c
      /\ \A k \in Spawns \ astray : k # My(c) => Doomed(k)
  BY <1>1, MakingKnows
<1>3. Spawns' = Spawns /\ My(c)' = My(c)
  BY DEF Spawns, My
<1>4. Typed'
  BY <1>2 DEF Typed
<1>5. Owned'
  BY DEF IInv, Owned, Spawns
<1>6. /\ me'[c].at \notin Handshake \union {"map", "idmap", "clean", "spawn", "seek"} \union Releasing
      /\ me'[c].at \in Making \/ me'[c].at = "mounts"
      /\ me'[c].at = "mounts" => me'[c].at \notin Making
  BY DEF Making, Handshake, Recording, Releasing
<1>7. Placed(c)'
  BY <1>2, <1>6 DEF Placed, Locked
<1>8. ASSUME NEW k \in Spawns PROVE Spawned(k)'
  BY DEF IInv, HandInv, Spawned
<1>9. Shaken(c)'
  <2>1. spawn[My(c)].holder \in Settled \union Dead /\ me[c].pid = spawn[My(c)].pid
        /\ spawn[My(c)].mode.chroot = me[c].mode.chroot
    BY <1>1, <1>2 DEF Shaken
  <2>2. me'[c].at # "reap"
    BY <1>6 DEF Handshake
  <2> QED
    BY <1>2, <1>3, <1>6, <2>1, <2>2 DEF Shaken
<1>10. ASSUME NEW k \in Spawns, Doomed(k) PROVE Doomed(k)'
  BY <1>6, <1>10, DoomedKept
<1>11. Certain(c)'
  <2>1. \A k \in Spawns \ astray : Doomed(k)' \/ My(c) = k
    BY <1>2, <1>10
  <2>2. me'[c].at \notin {"term", "poll", "kill"}
    BY <1>6 DEF Releasing
  <2> QED
    BY <1>3, <1>6, <2>1, <2>2 DEF Certain
<1>12. ASSUME NEW k \in Spawns \ astray PROVE Found(k)'
  <2>1. CASE k # My(c)
    BY <1>2, <1>10, <2>1 DEF Found
  <2>2. CASE k = My(c) /\ me'[c].at \in Making
    BY <1>2, <1>3, <2>2 DEF Found
  <2>3. CASE k = My(c) /\ me'[c].at = "mounts"
    BY <1>10, <2>3 DEF Found
  <2> QED
    BY <1>6, <2>1, <2>2, <2>3
<1> QED
  BY <1>2, <1>3, <1>4, <1>5, <1>7, <1>8, <1>9, <1>11, <1>12, OwnerStep

\* What a session knows while it writes the record of the holder it has made.
LEMMA RecordingKnows ==
    ASSUME IInv, NEW c \in Clients, me[c].at \in Recording
    PROVE  /\ Progress(c) /\ Spares(c) /\ me[c].pid \in Pids /\ me[c] \in ClientType
           /\ me[c].mode \in ModeType /\ me[c].start \in Nat
           /\ record \in RecordType /\ flags \in BOOLEAN /\ maxiso \in BOOLEAN
           /\ record.kind = "whole" => record.start # Stranger
           /\ My(c) \in Spawns /\ me[c].pid = spawn[My(c)].pid
           /\ spawn[My(c)].holder \in Settled \union Dead
           /\ spawn[My(c)].mode.chroot = me[c].mode.chroot
           /\ spawn[My(c)].holder \in Settled => owner[me[c].pid] = My(c)
<1>1. me[c].at \in Making
  BY DEF Making
<1>2. Certain(c) /\ Spares(c) /\ Shaken(c) /\ me[c] \in ClientType /\ My(c) \in Spawns /\ Typed
  BY <1>1, MakingKnows
<1>3. me[c].pid = spawn[My(c)].pid /\ spawn[My(c)].holder \in Settled \union Dead
      /\ spawn[My(c)].mode.chroot = me[c].mode.chroot
  BY <1>1, <1>2 DEF Shaken
<1>4. spawn[My(c)].holder \in Settled => owner[me[c].pid] = My(c)
  BY <1>2, <1>3 DEF IInv, Owned, Settled
<1> QED
  BY <1>2, <1>3, <1>4 DEF Certain, Spares, ClientType, IInv, Typed, NoStrangers

LEMMA OpensKeeps ==
    ASSUME IInv, NEW c \in Clients, Opens(c)
    PROVE  IInv'
<1>0. /\ me[c].at = "open" /\ record' = Empty
      /\ me' = [me EXCEPT ![c].at = "write", ![c].start = owner[me[c].pid]]
      /\ UNCHANGED <<has, spawn, pipe, owner, flags, maxiso, lock, astray, struck>>
  BY DEF Opens, At, StartTime, kernel, past, Same
<1>1. me[c].at \in Recording
  BY <1>0 DEF Recording
<1>2. /\ Spares(c) /\ me[c].pid \in Pids /\ me[c] \in ClientType
      /\ flags \in BOOLEAN /\ maxiso \in BOOLEAN
      /\ spawn[My(c)].holder \in Settled => owner[me[c].pid] = My(c)
  BY <1>1, RecordingKnows
<1>3. owner[me[c].pid] \in Nat
  BY <1>2 DEF IInv, Typed
<1> DEFINE v == [me[c] EXCEPT !.at = "write", !.start = owner[me[c].pid]]
<1>4. /\ v \in ClientType /\ v.at = "write" /\ v.start = owner[me[c].pid] /\ v.pid = me[c].pid
      /\ v.spawn = me[c].spawn /\ v.mode = me[c].mode /\ me' = [me EXCEPT ![c] = v]
  BY <1>0, <1>2, <1>3 DEF ClientType, Places, Recording
<1> HIDE DEF v
<1>5. /\ me' \in [Clients -> ClientType]
      /\ \A d \in Clients : d # c => me'[d] = me[d]
      /\ me'[c].at = "write" /\ me'[c].start = owner[me[c].pid] /\ me'[c].pid = me[c].pid
      /\ me'[c].spawn = me[c].spawn /\ me'[c].mode = me[c].mode
  BY <1>4, Steps
<1>6. record' \in RecordType /\ record'.kind # "whole"
  BY <1>0 DEF RecordType, Empty
<1>7. Spares(c)'
  BY <1>0, <1>2, <1>5 DEF Spares
<1>8. Progress(c)'
  BY <1>0, <1>2, <1>5 DEF Progress, My
<1>9. me'[c].at \in Recording
  BY <1>5 DEF Recording
<1> QED
  BY <1>0, <1>1, <1>2, <1>5, <1>6, <1>7, <1>8, <1>9, RecordingStep

LEMMA WritesKeeps ==
    ASSUME IInv, NEW c \in Clients, Writes(c)
    PROVE  IInv'
<1>0. /\ me[c].at = "write"
      /\ record' = IF record = Empty
                     THEN Naming(me[c].pid, me[c].start, me[c].mode.chroot \/ me[c].mode.foreground)
                     ELSE record
      /\ UNCHANGED <<has, spawn, pipe, owner, flags, maxiso, lock, astray, struck>>
  BY DEF Writes, At, kernel, past, Same
<1>1. me[c].at \in Recording
  BY <1>0 DEF Recording
<1>2. /\ Progress(c) /\ Spares(c) /\ me[c].pid \in Pids /\ me[c] \in ClientType
      /\ me[c].mode \in ModeType /\ me[c].start \in Nat
      /\ record \in RecordType /\ flags \in BOOLEAN /\ maxiso \in BOOLEAN
      /\ record.kind = "whole" => record.start # Stranger
      /\ me[c].pid = spawn[My(c)].pid
  BY <1>1, RecordingKnows
<1>3. /\ me' \in [Clients -> ClientType]
      /\ \A d \in Clients : d # c => me'[d] = me[d]
      /\ me'[c].at = "flags" /\ me'[c].start = me[c].start /\ me'[c].pid = me[c].pid
      /\ me'[c].spawn = me[c].spawn /\ me'[c].mode = me[c].mode
  BY Going DEF Writes, Places, Recording
<1>4. me[c].start # Stranger
  BY <1>0, <1>2 DEF Spares
<1>5. record' \in RecordType /\ (record'.kind = "whole" => record'.start # Stranger)
  <2>1. CASE record = Empty
    <3>1. (me[c].mode.chroot \/ me[c].mode.foreground) \in BOOLEAN
      OBVIOUS
    <3> QED
      BY <1>0, <1>2, <1>4, <2>1, <3>1 DEF Naming, RecordType
  <2>2. CASE record # Empty
    BY <1>0, <1>2, <2>2
  <2> QED
    BY <2>1, <2>2
<1>6. Spares(c)'
  BY <1>0, <1>2, <1>3 DEF Spares
<1>7. Progress(c)'
  <2>1. ASSUME My(c) \notin astray, spawn[My(c)].holder \in Settled
        PROVE  record'.kind = "whole" /\ record'.pid = spawn[My(c)].pid /\ record'.start = My(c)
    <3>1. record = Empty /\ me[c].start = My(c)
      BY <1>0, <1>2, <2>1 DEF Progress
    <3> QED
      BY <1>0, <1>2, <3>1 DEF Naming
  <2> QED
    BY <1>0, <1>3, <2>1 DEF Progress, Written, My
<1>8. me'[c].at \in Recording
  BY <1>3 DEF Recording
<1> QED
  BY <1>0, <1>1, <1>2, <1>3, <1>5, <1>6, <1>7, <1>8, RecordingStep

LEMMA WritesFlagsKeeps ==
    ASSUME IInv, NEW c \in Clients, WritesFlags(c)
    PROVE  IInv'
<1>0. /\ me[c].at = "flags" /\ flags' = TRUE
      /\ UNCHANGED <<has, spawn, pipe, owner, record, maxiso, lock, astray, struck>>
  BY DEF WritesFlags, At, kernel, past, Same
<1>1. me[c].at \in Recording
  BY <1>0 DEF Recording
<1>2. /\ Progress(c) /\ Spares(c) /\ record \in RecordType /\ maxiso \in BOOLEAN
      /\ record.kind = "whole" => record.start # Stranger
      /\ spawn[My(c)].holder \in Settled \union Dead
      /\ spawn[My(c)].mode.chroot = me[c].mode.chroot /\ me[c].mode \in ModeType
  BY <1>1, RecordingKnows
<1> DEFINE place == IF me[c].mode.chroot THEN "maxiso" ELSE "mounts"
<1>3. /\ Goes(c, place) /\ place \in {"maxiso", "mounts"}
      /\ place = "mounts" => ~me[c].mode.chroot
  BY DEF WritesFlags
<1> HIDE DEF place
<1>4. /\ me' \in [Clients -> ClientType]
      /\ \A d \in Clients : d # c => me'[d] = me[d]
      /\ me'[c].at = place /\ me'[c].start = me[c].start /\ me'[c].pid = me[c].pid
      /\ me'[c].spawn = me[c].spawn /\ me'[c].mode = me[c].mode
  BY <1>3, Going DEF Places, Recording
<1>5. Spares(c)'
  BY <1>0, <1>1, <1>2, <1>3, <1>4 DEF Spares
<1>6. ASSUME My(c) \notin astray, spawn[My(c)].holder \in Settled
      PROVE  record.kind = "whole" /\ record.pid = spawn[My(c)].pid /\ record.start = My(c)
  BY <1>0, <1>2, <1>6 DEF Progress, Written
<1>7. Progress(c)'
  BY <1>0, <1>3, <1>4, <1>6 DEF Progress, Written, My
<1>8. ASSUME NEW k \in Spawns \ astray, k = My(c), place = "mounts"
      PROVE  Doomed(k) \/ OnRecord(k)'
  BY <1>0, <1>2, <1>3, <1>6, <1>8 DEF OnRecord, Written, Doomed
<1>9. me'[c].at \in Recording \union {"mounts"}
  BY <1>3, <1>4 DEF Recording
<1> QED
  BY <1>0, <1>1, <1>2, <1>4, <1>5, <1>7, <1>8, <1>9, RecordingStep

LEMMA WritesMaxisoKeeps ==
    ASSUME IInv, NEW c \in Clients, WritesMaxiso(c)
    PROVE  IInv'
<1>0. /\ me[c].at = "maxiso" /\ maxiso' = TRUE
      /\ UNCHANGED <<has, spawn, pipe, owner, record, flags, lock, astray, struck>>
  BY DEF WritesMaxiso, At, kernel, past, Same
<1>1. me[c].at \in Recording
  BY <1>0 DEF Recording
<1>2. /\ Progress(c) /\ Spares(c) /\ record \in RecordType /\ flags \in BOOLEAN
      /\ record.kind = "whole" => record.start # Stranger
      /\ spawn[My(c)].holder \in Settled \union Dead
  BY <1>1, RecordingKnows
<1>3. /\ me' \in [Clients -> ClientType]
      /\ \A d \in Clients : d # c => me'[d] = me[d]
      /\ me'[c].at = "mounts" /\ me'[c].start = me[c].start /\ me'[c].pid = me[c].pid
      /\ me'[c].spawn = me[c].spawn /\ me'[c].mode = me[c].mode
  BY Going DEF WritesMaxiso, Places
<1>4. Spares(c)'
  BY <1>0, <1>1, <1>2, <1>3 DEF Spares
<1>5. me'[c].at \notin Recording
  BY <1>3 DEF Recording
<1>6. ASSUME NEW k \in Spawns \ astray, k = My(c)
      PROVE  Doomed(k) \/ OnRecord(k)'
  <2>1. CASE spawn[k].holder \in Dead
    BY <2>1 DEF Doomed
  <2>2. CASE spawn[k].holder \in Settled
    BY <1>0, <1>2, <1>6, <2>2 DEF OnRecord, Written, Progress
  <2> QED
    BY <1>2, <1>6, <2>1, <2>2
<1> QED
  BY <1>0, <1>1, <1>2, <1>3, <1>4, <1>5, <1>6, RecordingStep

\* A session takes a word out of the pipes of its holder, or puts one in: it
\* goes on making it, and has the lock.
LEMMA HandshakeStep ==
    ASSUME IInv, NEW c \in Clients, me[c].at \in Making,
           UNCHANGED <<has, spawn, owner, record, flags, maxiso, lock, astray, struck>>,
           pipe' \in Seq(PipeType), Len(pipe') = Len(pipe),
           \A j \in Spawns : j # My(c) => pipe'[j] = pipe[j],
           me' \in [Clients -> ClientType],
           \A d \in Clients : d # c => me'[d] = me[d],
           me'[c].spawn = me[c].spawn, me'[c].mode = me[c].mode,
           me'[c].at \in Handshake \union {"alive"},
           me'[c].at = "alive" => me'[c].pid \in Pids,
           \A k \in Spawns : k = My(c) => Spawned(k)',
           Shaken(c)'
    PROVE  IInv'
<1>1. /\ c \in Sessions /\ c \notin Killers /\ lock = c /\ My(c) \in Spawns /\ Typed
      /\ \A k \in Spawns \ astray : k # My(c) => Doomed(k)
  BY MakingKnows
<1>2. Spawns' = Spawns /\ My(c)' = My(c)
  BY DEF Spawns, My
<1>3. Typed'
  BY <1>1 DEF Typed
<1>4. Owned'
  BY DEF IInv, Owned, Spawns
<1>5. /\ me'[c].at \in Making
      /\ me'[c].at \notin {"open", "write", "flags", "maxiso", "seek", "clean"} \union Releasing
  BY DEF Making, Handshake, Recording, Releasing
<1>6. Placed(c)'
  BY <1>1, <1>5 DEF Placed, Locked
<1>7. Spares(c)'
  <2>1. me'[c].at \in Recording \union {"term", "poll", "kill"} => me'[c].at = "alive"
    BY DEF Handshake, Recording
  <2> QED
    BY <1>5, <2>1 DEF Spares, Releasing
<1>8. ASSUME NEW k \in Spawns PROVE Spawned(k)'
  <2>1. CASE k # My(c)
    BY <2>1 DEF IInv, HandInv, Spawned
  <2> QED
    BY <2>1
<1>9. ASSUME NEW k \in Spawns, k # My(c), Doomed(k) PROVE Doomed(k)'
  BY <1>2, <1>9, DoomedKept
<1>10. Certain(c)'
  <2>1. \A k \in Spawns \ astray : Doomed(k)' \/ My(c) = k
    BY <1>1, <1>9
  <2>2. Progress(c)' /\ me'[c].at \notin {"term", "poll", "kill"}
    BY <1>5 DEF Progress, Releasing
  <2> QED
    BY <1>2, <1>5, <2>1, <2>2 DEF Certain
<1>11. ASSUME NEW k \in Spawns \ astray PROVE Found(k)'
  BY <1>1, <1>2, <1>5, <1>9 DEF Found
<1>12. record.kind = "whole" => record.start # Stranger
  BY DEF IInv, NoStrangers
<1> QED
  BY <1>1, <1>2, <1>3, <1>4, <1>6, <1>7, <1>8, <1>10, <1>11, <1>12, OwnerStep

LEMMA WritesMapsKeeps ==
    ASSUME IInv, NEW c \in Clients, WritesMaps(c)
    PROVE  IInv'
<1>0. /\ me[c].at = "map"
      /\ UNCHANGED <<has, spawn, owner, record, flags, maxiso, lock, astray, struck>>
  BY DEF WritesMaps, At, files, past, Same
<1>1. me[c].at \in Making /\ me[c].at \in Handshake
  BY <1>0 DEF Making, Handshake
<1>k. PICK k \in Spawns : k = My(c)
  BY <1>1, MakingKnows
<1>2. /\ My(c) = k /\ k \in Spawns /\ Shaken(c) /\ Spawned(k) /\ Typed /\ me[c].mode \in ModeType
      /\ pipe[k].pid \in {<<>>, <<"MAP">>, <<"pid">>, <<"K">>} /\ pipe[k] \in PipeType
  BY <1>1, <1>k, MakingKnows, ClientFields, SpawnFields
<1>3. /\ pipe[k].map = <<>> /\ pipe[k].idmap = <<>> /\ spawn[k].mode.chroot = me[c].mode.chroot
      /\ pipe[k].pid = <<"MAP">> => spawn[k].mode.idmap = me[c].mode.idmap
  BY <1>0, <1>1, <1>2 DEF Shaken
<1>4. CASE /\ Hears(My(c), "pid", "MAP")
           /\ pipe' = [pipe EXCEPT ![My(c)].pid = Tail(@), ![My(c)].map = <<"M">>]
           /\ Goes(c, IF me[c].mode.idmap THEN "idmap" ELSE "pid")
  <2> DEFINE place == IF me[c].mode.idmap THEN "idmap" ELSE "pid"
  <2>1. Goes(c, place) /\ place \in {"idmap", "pid"} /\ (place = "idmap" => me[c].mode.idmap)
    BY <1>4
  <2> HIDE DEF place
  <2>2. pipe[k].pid = <<"MAP">>
    BY <1>2, <1>4, Words DEF Hears
  <2>3. spawn[k].launcher \in {"maps", "gone"} /\ spawn[k].holder = "none"
    BY <1>2, <2>2 DEF Spawned
  <2> DEFINE new == [pipe[k] EXCEPT !.pid = <<>>, !.map = <<"M">>]
  <2>4. /\ new \in PipeType /\ new.pid = <<>> /\ new.map = <<"M">>
        /\ new.idmap = pipe[k].idmap /\ new.sync = pipe[k].sync
    BY <1>2 DEF PipeType
  <2>5. pipe' = [pipe EXCEPT ![k] = new]
    BY <1>k, <1>4, <2>2, Words
  <2> HIDE DEF new
  <2>6. /\ pipe' \in Seq(PipeType) /\ Len(pipe') = Len(pipe) /\ pipe'[k] = new
        /\ \A j \in Spawns : j # k => pipe'[j] = pipe[j]
    BY <1>2, <2>4, <2>5, Changed DEF Typed, Spawns
  <2>7. /\ me' \in [Clients -> ClientType]
        /\ \A d \in Clients : d # c => me'[d] = me[d]
        /\ me'[c].at = place /\ me'[c].spawn = me[c].spawn /\ me'[c].mode = me[c].mode
    BY <2>1, Going DEF Places, Handshake
  <2>8. Spawned(k)'
    <3>1. /\ spawn' = spawn /\ astray' = astray /\ pipe'[k].pid = <<>> /\ pipe'[k].sync = pipe[k].sync
      BY <1>0, <2>4, <2>6
    <3> QED
      BY <1>2, <2>3, <3>1, Words DEF Spawned, Settled, Dead, Young
  <2>9. Shaken(c)'
    <3>1. /\ spawn' = spawn /\ Spawns' = Spawns /\ My(c)' = k /\ pipe'[k].idmap = <<>>
      BY <1>k, <1>0, <1>3, <2>4, <2>6, <2>7 DEF Spawns, My
    <3>2. me'[c].at \notin Recording \union {"map", "reap"}
      BY <2>1, <2>7 DEF Recording
    <3>3. me'[c].mode.chroot = spawn[k].mode.chroot
      BY <1>3, <2>7
    <3>4. me'[c].at = "idmap" => spawn[k].mode.idmap
      BY <1>3, <2>1, <2>2, <2>7
    <3> QED
      BY <1>2, <2>3, <3>1, <3>2, <3>3, <3>4 DEF Shaken, Settled
  <2>10. me'[c].at \in Handshake /\ me'[c].at # "alive"
    BY <2>1, <2>7 DEF Handshake
  <2> QED
    BY <1>k, <1>0, <1>1, <2>6, <2>7, <2>8, <2>9, <2>10, HandshakeStep
<1>5. CASE ~Hears(My(c), "pid", "MAP") /\ Goes(c, "pid") /\ UNCHANGED pipe
  <2>1. /\ me' \in [Clients -> ClientType]
        /\ \A d \in Clients : d # c => me'[d] = me[d]
        /\ me'[c].at = "pid" /\ me'[c].spawn = me[c].spawn /\ me'[c].mode = me[c].mode
    BY <1>5, Going DEF Places, Handshake
  <2>2. Spawned(k)'
    BY <1>0, <1>2, <1>5 DEF Spawned
  <2>3. Shaken(c)'
    <3>1. /\ spawn' = spawn /\ Spawns' = Spawns /\ My(c)' = k /\ pipe' = pipe /\ astray' = astray
      BY <1>k, <1>0, <1>5, <2>1 DEF Spawns, My
    <3>2. me'[c].at \notin Recording \union {"map", "reap", "idmap"}
      BY <2>1 DEF Recording
    <3> QED
      BY <1>1, <1>2, <2>1, <3>1, <3>2 DEF Shaken
  <2>4. me'[c].at \in Handshake /\ me'[c].at # "alive"
    BY <2>1 DEF Handshake
  <2>5. pipe' \in Seq(PipeType) /\ Len(pipe') = Len(pipe) /\ \A j \in Spawns : pipe'[j] = pipe[j]
    BY <1>2, <1>5, PipeKept
  <2> QED
    BY <1>k, <1>0, <1>1, <2>1, <2>2, <2>3, <2>4, <2>5, HandshakeStep
<1> QED
  BY <1>4, <1>5 DEF WritesMaps

\* If the mapping is refused, the holder waits for a word that nobody will say:
\* the session has given it up, and makes another one.
LEMMA IdmapsKeeps ==
    ASSUME IInv, NEW c \in Clients, Idmaps(c)
    PROVE  IInv'
<1>0. /\ me[c].at = "idmap"
      /\ UNCHANGED <<has, spawn, owner, record, flags, maxiso, lock, astray, struck>>
  BY DEF Idmaps, At, files, past, Same
<1>1. me[c].at \in Making /\ me[c].at \in Handshake
  BY <1>0 DEF Making, Handshake
<1>k. PICK k \in Spawns : k = My(c)
  BY <1>1, MakingKnows
<1>2. /\ My(c) = k /\ k \in Spawns /\ Shaken(c) /\ Spawned(k) /\ Typed /\ c \in Sessions /\ c \notin Killers
      /\ lock = c /\ me[c] \in ClientType /\ me[c].mode \in ModeType
      /\ \A j \in Spawns \ astray : j # k => Doomed(j)
  BY <1>1, <1>k, MakingKnows, ClientFields
<1>3. /\ spawn[k].mode.idmap /\ pipe[k].idmap = <<>> /\ spawn[k].launcher # "born"
      /\ spawn[k].holder \in {"none", "born", "stack"} \union Dead
  BY <1>0, <1>1, <1>2 DEF Shaken
<1>4. CASE pipe' = Told(My(c), "idmap", "I") /\ Goes(c, "pid")
  <2>1. Word("idmap", "I")
    BY DEF Word
  <2>2. /\ pipe' \in Seq(PipeType) /\ Len(pipe') = Len(pipe)
        /\ pipe'[k].pid = pipe[k].pid /\ pipe'[k].map = pipe[k].map
        /\ pipe'[k].sync = pipe[k].sync
        /\ \A j \in Spawns : j # k => pipe'[j] = pipe[j]
    BY <1>2, <1>3, <1>4, <2>1, Telling
  <2>3. /\ me' \in [Clients -> ClientType]
        /\ \A d \in Clients : d # c => me'[d] = me[d]
        /\ me'[c].at = "pid" /\ me'[c].spawn = me[c].spawn /\ me'[c].mode = me[c].mode
    BY <1>4, Going DEF Places, Handshake
  <2>4. Spawned(k)'
    BY <1>0, <1>2, <2>2 DEF Spawned
  <2>5. Shaken(c)'
    <3>1. /\ spawn' = spawn /\ Spawns' = Spawns /\ My(c)' = k /\ astray' = astray
      BY <1>k, <1>0, <2>3 DEF Spawns, My
    <3>2. me'[c].at \notin Recording \union {"map", "reap", "idmap"}
      BY <2>3 DEF Recording
    <3> QED
      BY <1>1, <1>2, <2>2, <2>3, <3>1, <3>2 DEF Shaken
  <2>6. me'[c].at \in Handshake /\ me'[c].at # "alive"
    BY <2>3 DEF Handshake
  <2> QED
    BY <1>k, <1>0, <1>1, <2>2, <2>3, <2>4, <2>5, <2>6, HandshakeStep
<1>5. CASE me' = [me EXCEPT ![c].at = "spawn", ![c].mode.idmap = FALSE] /\ UNCHANGED pipe
  <2> DEFINE v == [me[c] EXCEPT !.at = "spawn", !.mode.idmap = FALSE]
  <2>1. v \in ClientType /\ v.at = "spawn" /\ me' = [me EXCEPT ![c] = v]
    BY <1>2, <1>5 DEF ClientType, ModeType, Places
  <2> HIDE DEF v
  <2>2. /\ me' \in [Clients -> ClientType] /\ me'[c].at = "spawn"
        /\ \A d \in Clients : d # c => me'[d] = me[d]
    BY <2>1, Steps
  <2>3. Quiet(c)
    BY <1>0, <1>2, <1>5, <2>2 DEF Quiet, Typed
  <2>4. /\ me'[c].at \notin Making \union Recording \union Releasing
        /\ me'[c].at \notin {"map", "idmap", "term", "poll", "kill"}
    BY <2>2 DEF Making, Handshake, Recording, Releasing
  <2>5. Placed(c)'
    BY <1>0, <1>2, <2>2, <2>4 DEF Placed, Locked
  <2>6. Spares(c)' /\ Shaken(c)'
    BY <2>4, <2>2 DEF Spares, Shaken
  <2>7. Doomed(k)'
    <3>1. ASSUME NEW d \in Sessions, My(d)' = k PROVE me'[d].at \notin {"map", "idmap"}
      <4>1. CASE d = c
        BY <2>4, <4>1
      <4>2. CASE d # c
        <5>1. me'[d] = me[d] /\ me[d].at \notin Making
          BY <1>2, <2>2, <4>2, OthersWait DEF Clients
        <5> QED
          BY <5>1 DEF Making, Handshake
      <4> QED
        BY <4>1, <4>2
    <3>2. spawn' = spawn /\ pipe' = pipe
      BY <1>0, <1>5
    <3> QED
      BY <1>3, <3>1, <3>2 DEF Doomed
  <2>8. ASSUME NEW j \in Spawns \ astray PROVE Doomed(j)'
    <3>1. CASE j = k
      BY <2>7, <3>1
    <3>2. CASE j # k
      BY <1>2, <2>2, <2>3, <2>4, <3>2, DoomedKept DEF Quiet
    <3> QED
      BY <3>1, <3>2
  <2>9. Certain(c)' /\ \A j \in Spawns \ astray' : Found(j)'
    BY <1>0, <2>4, <2>8 DEF Certain, Found, Spawns
  <2> QED
    BY <1>0, <1>2, <2>3, <2>4, <2>5, <2>6, <2>9, QuietStep DEF Clients
<1> QED
  BY <1>4, <1>5 DEF Idmaps

LEMMA HearsPidKeeps ==
    ASSUME IInv, NEW c \in Clients, HearsPid(c)
    PROVE  IInv'
<1>0. /\ me[c].at = "pid"
      /\ UNCHANGED <<has, spawn, owner, record, flags, maxiso, lock, astray, struck>>
  BY DEF HearsPid, At, files, past, Same
<1>1. me[c].at \in Making /\ me[c].at \in Handshake
  BY <1>0 DEF Making, Handshake
<1>k. PICK k \in Spawns : k = My(c)
  BY <1>1, MakingKnows
<1>2. /\ My(c) = k /\ Shaken(c) /\ Spawned(k) /\ Typed /\ me[c] \in ClientType
      /\ pipe[k].pid \in {<<>>, <<"MAP">>, <<"pid">>, <<"K">>}
      /\ spawn[k].holder \in HolderAt /\ spawn[k].launcher \in LauncherAt
      /\ spawn[k].mode.chroot = me[c].mode.chroot
  <2>1. Shaken(c) /\ Spawned(k) /\ Typed /\ me[c] \in ClientType
    BY <1>1, <1>k, MakingKnows
  <2> QED
    BY <1>1, <1>k, <2>1, SpawnFields DEF Shaken
<1>3. Spawns' = Spawns
  BY <1>0 DEF Spawns
<1>4. ASSUME NEW w \in {"pid", "K"}, Hears(k, "pid", w), pipe' = Took(k, "pid")
      PROVE  /\ pipe' \in Seq(PipeType) /\ Len(pipe') = Len(pipe)
             /\ pipe[k].pid = <<w>> /\ pipe'[k].pid = <<>>
             /\ pipe'[k].map = pipe[k].map /\ pipe'[k].idmap = pipe[k].idmap
             /\ pipe'[k].sync = pipe[k].sync
             /\ \A j \in Spawns : j # k => pipe'[j] = pipe[j]
             /\ spawn[k].holder \in Settled \union Dead
             /\ Spawned(k)'
  <2>1. Word("pid", w)
    BY DEF Word
  <2>2. /\ pipe' \in Seq(PipeType) /\ Len(pipe') = Len(pipe)
        /\ pipe[k].pid = <<w>> /\ pipe'[k].pid = <<>>
        /\ pipe'[k].map = pipe[k].map /\ pipe'[k].idmap = pipe[k].idmap
        /\ pipe'[k].sync = pipe[k].sync
        /\ \A j \in Spawns : j # k => pipe'[j] = pipe[j]
    BY <1>2, <1>4, <2>1, Taking
  <2>3. spawn[k].holder \in Settled \union Dead
    BY <1>2, <2>2 DEF Spawned
  <2>4. Spawned(k)'
    BY <1>0, <1>2, <2>2, <2>3, Words DEF Spawned
  <2> QED
    BY <2>2, <2>3, <2>4
<1>5. CASE /\ Hears(My(c), "pid", "pid") /\ pipe' = Took(My(c), "pid")
           /\ me' = [me EXCEPT ![c].at = "alive", ![c].pid = spawn[My(c)].pid]
  <2>1. spawn[k].holder \in Settled \union Dead /\ Spawned(k)'
    BY <1>2, <1>4, <1>5
  <2>2. spawn[k].pid \in Pids
    BY <2>1 DEF IInv, Owned, Settled, Dead
  <2> DEFINE v == [me[c] EXCEPT !.at = "alive", !.pid = spawn[k].pid]
  <2>3. /\ v \in ClientType /\ v.at = "alive" /\ v.pid = spawn[k].pid
        /\ v.spawn = me[c].spawn /\ v.mode = me[c].mode /\ me' = [me EXCEPT ![c] = v]
    BY <1>2, <1>5, <2>2 DEF ClientType, Places, Recording
  <2> HIDE DEF v
  <2>4. /\ me' \in [Clients -> ClientType] /\ me'[c].at = "alive" /\ me'[c].pid = spawn[k].pid
        /\ \A d \in Clients : d # c => me'[d] = me[d]
        /\ me'[c].spawn = me[c].spawn /\ me'[c].mode = me[c].mode
    BY <2>3, Steps
  <2>5. Shaken(c)'
    <3>1. spawn' = spawn /\ My(c)' = k
      BY <1>0, <1>2, <2>4 DEF My
    <3>2. me'[c].at \notin Handshake \union {"map", "idmap", "reap"}
      BY <2>4 DEF Handshake
    <3> QED
      BY <1>2, <1>3, <2>1, <2>4, <3>1, <3>2 DEF Shaken
  <2> QED
    BY <1>0, <1>1, <1>2, <1>4, <1>5, <2>1, <2>2, <2>4, <2>5, HandshakeStep
<1>6. ASSUME Goes(c, "reap"), pipe' \in Seq(PipeType), Len(pipe') = Len(pipe),
             \A j \in Spawns : j # k => pipe'[j] = pipe[j],
             pipe'[k].pid = <<>>, Spawned(k)',
             spawn[k].launcher \in {"self", "wait", "gone"},
             spawn[k].launcher = "self" => spawn[k].holder \notin Young,
             pipe[k].pid # <<"pid">>
      PROVE  IInv'
  <2>1. /\ me' \in [Clients -> ClientType]
        /\ \A d \in Clients : d # c => me'[d] = me[d]
        /\ me'[c].at = "reap" /\ me'[c].spawn = me[c].spawn /\ me'[c].mode = me[c].mode
    BY <1>6, Going DEF Places, Handshake
  <2>2. Shaken(c)'
    <3>1. spawn' = spawn /\ My(c)' = k /\ astray' = astray
      BY <1>0, <1>2, <2>1 DEF My
    <3>2. me'[c].at \notin Recording
      BY <2>1 DEF Recording
    <3>3. spawn[k].launcher \in {"wait", "gone"} /\ spawn[k].holder \in Settled => k \in astray
      BY <1>1, <1>2, <1>6 DEF Shaken
    <3> QED
      BY <1>2, <1>3, <1>6, <2>1, <3>1, <3>2, <3>3 DEF Shaken
  <2>3. me'[c].at \in Handshake /\ me'[c].at # "alive"
    BY <2>1 DEF Handshake
  <2> QED
    BY <1>0, <1>1, <1>2, <1>6, <2>1, <2>2, <2>3, HandshakeStep
<1>7. CASE Hears(My(c), "pid", "K") /\ pipe' = Took(My(c), "pid") /\ Goes(c, "reap")
  <2>1. /\ pipe' \in Seq(PipeType) /\ Len(pipe') = Len(pipe)
        /\ pipe[k].pid = <<"K">> /\ pipe'[k].pid = <<>>
        /\ \A j \in Spawns : j # k => pipe'[j] = pipe[j]
        /\ spawn[k].holder \in Settled \union Dead
        /\ Spawned(k)'
    BY <1>2, <1>4, <1>7
  <2>2. spawn[k].launcher \in {"self", "gone"} /\ pipe[k].pid # <<"pid">>
    BY <1>2, <2>1, Words DEF Spawned
  <2>3. spawn[k].holder \notin Young
    BY <2>1 DEF Settled, Dead, Young
  <2> QED
    BY <1>6, <1>7, <2>1, <2>2, <2>3
<1>8. CASE EndOfFile(My(c), "pid") /\ UNCHANGED pipe /\ Goes(c, "reap")
  <2>1. /\ pipe[k].pid = <<>> /\ spawn[k].launcher \notin {"born", "maps", "fork", "sync"}
        /\ spawn[k].launcher = "self" => spawn[k].holder \notin Young
    BY <1>2, <1>8 DEF EndOfFile, HasWriter, LauncherIn, HolderIn, AnswersOpen, Young
  <2>2. spawn[k].launcher \in {"self", "wait", "gone"} /\ pipe[k].pid # <<"pid">>
    BY <1>2, <2>1, Words DEF LauncherAt
  <2>3. Spawned(k)'
    BY <1>0, <1>2, <1>8 DEF Spawned
  <2>4. /\ pipe' \in Seq(PipeType) /\ Len(pipe') = Len(pipe)
        /\ pipe'[k] = pipe[k] /\ \A j \in Spawns : pipe'[j] = pipe[j]
    BY <1>2, <1>8, PipeKept
  <2> QED
    BY <1>6, <1>8, <2>1, <2>2, <2>3, <2>4
<1> QED
  BY <1>5, <1>7, <1>8 DEF HearsPid

\* A sequence grows by an entry.
LEMMA Longer ==
    ASSUME NEW S, NEW seq \in Seq(S), NEW v \in S
    PROVE  LET new == Append(seq, v)
           IN  /\ new \in Seq(S) /\ Len(new) = Len(seq) + 1 /\ new[Len(seq) + 1] = v
               /\ \A j \in 1..Len(seq) : new[j] = seq[j]
OBVIOUS

\* A new launcher, while there is no other holder.
LEMMA SpawningKeeps ==
    ASSUME IInv, NEW c \in Clients, Spawning(c)
    PROVE  IInv'
<1>0. /\ me[c].at = "spawn" /\ Placed(c) /\ me[c] \in ClientType /\ me[c].mode \in ModeType /\ Typed
      /\ UNCHANGED <<has, owner, record, flags, maxiso, lock, astray, struck>>
  BY ClientFields DEF Spawning, At, files, past, Same, IInv
<1>1. /\ me[c].at \notin Making /\ c \notin Killers /\ c \in Sessions /\ lock = c /\ Certain(c)
  <2>1. c \notin Killers
    BY <1>0 DEF Placed, Releasing
  <2> QED
    BY <1>0, <2>1, ClientFields DEF Making, Handshake, Recording, Placed, Locked
<1>2. CASE Goes(c, "unlock") /\ UNCHANGED <<spawn, pipe>>
  <2>1. /\ me' \in [Clients -> ClientType]
        /\ \A d \in Clients : d # c => me'[d] = me[d]
        /\ me'[c].at = "unlock"
    BY <1>2, Going DEF Places
  <2>2. Quiet(c)
    BY <1>0, <1>2, <2>1 DEF Quiet, Typed
  <2>3. Placed(c)'
    BY <1>0, <1>1, <2>1 DEF Placed, Locked, Making, Handshake, Recording, Releasing
  <2>4. me'[c].at \notin Making \union {"spawn", "term", "poll", "kill"} /\ me'[c].at # "clean"
    BY <2>1 DEF Making, Handshake, Recording
  <2> QED
    BY <1>1, <2>2, <2>3, <2>4, QuietIdle
<1>3. CASE /\ Len(spawn) < MaxSpawns
           /\ spawn' = Append(spawn, NewSpawn(c)) /\ pipe' = Append(pipe, NoWords)
           /\ me' = [me EXCEPT ![c].at = IF has.user THEN "map" ELSE "pid",
                               ![c].spawn = Len(spawn) + 1]
  <2>n. PICK n \in Nat : n = Len(spawn) + 1
    BY <1>0 DEF Typed
  <2> DEFINE place == IF has.user THEN "map" ELSE "pid"
             s == NewSpawn(c)
             v == [me[c] EXCEPT !.at = place, !.spawn = n]
  <2>1. place \in {"map", "pid"}
    OBVIOUS
  <2>2. /\ s \in SpawnType /\ s.launcher = "born" /\ s.holder = "none" /\ s.mode = me[c].mode
    BY <1>0 DEF NewSpawn, SpawnType, LauncherAt, HolderAt, Typed
  <2>3. /\ NoWords \in PipeType /\ NoWords.pid = <<>> /\ NoWords.map = <<>>
        /\ NoWords.idmap = <<>> /\ NoWords.sync = <<>>
    BY DEF NoWords, PipeType
  <2>4. /\ v \in ClientType /\ v.at = place /\ v.spawn = n /\ v.mode = me[c].mode
        /\ me' = [me EXCEPT ![c] = v]
    BY <1>0, <1>3, <2>n, <2>1 DEF ClientType, Places, Handshake
  <2>5. spawn' = Append(spawn, s) /\ pipe' = Append(pipe, NoWords)
    BY <1>3
  <2> HIDE DEF place, s, v
  <2>6. /\ spawn' \in Seq(SpawnType) /\ Len(spawn') = n /\ spawn'[n] = s
        /\ \A j \in Spawns : spawn'[j] = spawn[j]
    BY <1>0, <2>n, <2>2, <2>5, Longer DEF Typed, Spawns
  <2>7. /\ pipe' \in Seq(PipeType) /\ Len(pipe') = n /\ pipe'[n] = NoWords
        /\ \A j \in Spawns : pipe'[j] = pipe[j]
    BY <1>0, <2>n, <2>3, <2>5, Longer DEF Typed, Spawns
  <2>8. /\ me' \in [Clients -> ClientType] /\ me'[c].at = place /\ me'[c].spawn = n
        /\ me'[c].mode = me[c].mode /\ \A d \in Clients : d # c => me'[d] = me[d]
    BY <2>4, Steps
  <2>9. Spawns' = Spawns \union {n} /\ n \notin Spawns /\ n <= MaxSpawns
    BY <1>0, <1>3, <2>n, <2>6, HolderAssumption DEF Spawns, Typed
  <2>10. Typed'
    BY <1>0, <2>6, <2>7, <2>8, <2>9 DEF Typed
  <2>11. Owned'
    BY <1>0, <2>2, <2>6, <2>9 DEF IInv, Owned
  <2>12. /\ me'[c].at \in Making /\ me'[c].at \in Handshake
         /\ me'[c].at \notin Recording \union Releasing \union {"idmap", "reap", "seek", "clean"}
    BY <2>1, <2>8 DEF Making, Handshake, Recording, Releasing
  <2>13. Placed(c)'
    BY <1>0, <1>1, <2>12 DEF Placed, Locked
  <2>14. Spares(c)'
    BY <2>12 DEF Spares, Recording, Releasing
  <2>15. ASSUME NEW k \in Spawns' PROVE Spawned(k)'
    <3>1. CASE k = n
      BY <2>2, <2>3, <2>6, <2>7, <3>1, Words DEF Spawned, Settled, Dead, Young
    <3>2. CASE k \in Spawns
      BY <1>0, <2>6, <2>7, <3>2 DEF IInv, HandInv, Spawned
    <3> QED
      BY <2>9, <3>1, <3>2
  <2>16. My(c)' = n
    BY <2>8 DEF My
  <2>17. Shaken(c)'
    BY <2>2, <2>3, <2>6, <2>7, <2>8, <2>9, <2>12, <2>16 DEF Shaken, Settled
  <2>18. ASSUME NEW k \in Spawns \ astray PROVE Doomed(k)'
    <3>1. Doomed(k)
      BY <1>0, <1>1 DEF Certain
    <3> QED
      BY <2>6, <2>7, <2>8, <2>9, <2>16, <3>1, DoomedKept
  <2>19. Certain(c)'
    BY <1>0, <2>9, <2>12, <2>16, <2>18 DEF Certain, Releasing
  <2>20. ASSUME NEW k \in Spawns' \ astray' PROVE Found(k)'
    BY <1>0, <1>1, <2>9, <2>12, <2>16, <2>18 DEF Found
  <2>21. record.kind = "whole" => record.start # Stranger
    BY DEF IInv, NoStrangers
  <2> QED
    BY <1>0, <1>1, <2>8, <2>10, <2>11, <2>13, <2>14, <2>15, <2>17, <2>19, <2>20, <2>21, OwnerStep
<1> QED
  BY <1>2, <1>3 DEF Spawning

LEMMA MountsKeeps ==
    ASSUME IInv, NEW c \in Clients, Mounts(c)
    PROVE  IInv'
<1>0. /\ me[c].at = "mounts" /\ Placed(c) /\ Typed
      /\ UNCHANGED <<has, spawn, owner, record, flags, maxiso, astray, struck>>
  BY ClientFields DEF Mounts, At, files, past, Same, IInv
<1>1. /\ me[c].at \notin Making /\ c \notin Killers /\ c \in Sessions /\ lock = c /\ c # Nobody
  <2>1. c \notin Killers
    BY <1>0 DEF Placed, Releasing
  <2> QED
    BY <1>0, <2>1, ClientFields DEF Making, Handshake, Recording, Placed, Locked
<1>2. CASE /\ lock' = Nobody /\ Goes(c, "in")
           /\ pipe' = IF Own(c) THEN Told(My(c), "go", "go") ELSE pipe
  <2>1. /\ me' \in [Clients -> ClientType]
        /\ \A d \in Clients : d # c => me'[d] = me[d]
        /\ me'[c].at = "in"
    BY <1>2, Going DEF Places
  <2>2. /\ pipe' \in Seq(PipeType) /\ Len(pipe') = Len(pipe)
        /\ \A j \in Spawns :
              /\ pipe'[j].pid = pipe[j].pid /\ pipe'[j].map = pipe[j].map
              /\ pipe'[j].idmap = pipe[j].idmap /\ pipe'[j].sync = pipe[j].sync
    <3>1. CASE ~Own(c)
      BY <1>0, <1>2, <3>1 DEF Typed
    <3>2. CASE Own(c) /\ My(c) \notin Spawns
      <4>1. My(c) \notin DOMAIN pipe
        BY <1>0, <3>2 DEF Typed, Spawns
      <4>2. pipe' = pipe
        BY <1>0, <1>2, <3>2, <4>1 DEF Told, Typed
      <4> QED
        BY <1>0, <4>2 DEF Typed
    <3>3. CASE Own(c) /\ My(c) \in Spawns
      <4>k. PICK k \in Spawns : k = My(c)
        BY <3>3
      <4>1. pipe[k] \in PipeType
        BY <1>0, SpawnFields
      <4>2. Append(pipe[k].go, "go") \in Seq({"go"})
        BY <4>1 DEF PipeType
      <4> DEFINE new == [pipe[k] EXCEPT !.go = Append(pipe[k].go, "go")]
      <4>3. /\ new \in PipeType /\ new.pid = pipe[k].pid /\ new.map = pipe[k].map
            /\ new.idmap = pipe[k].idmap /\ new.sync = pipe[k].sync
        BY <4>1, <4>2 DEF PipeType
      <4>4. pipe' = [pipe EXCEPT ![k] = new]
        BY <1>2, <3>3, <4>k DEF Told
      <4> HIDE DEF new
      <4>5. /\ pipe' \in Seq(PipeType) /\ Len(pipe') = Len(pipe) /\ pipe'[k] = new
            /\ \A j \in Spawns : j # k => pipe'[j] = pipe[j]
        BY <1>0, <4>3, <4>4, Changed DEF Typed, Spawns
      <4> QED
        BY <4>3, <4>5
    <3> QED
      BY <3>1, <3>2, <3>3
  <2>3. Spawns' = Spawns
    BY <1>0 DEF Spawns
  <2>4. Typed'
    BY <1>0, <1>2, <2>1, <2>2 DEF Typed
  <2>5. Owned'
    BY <1>0, <2>3 DEF IInv, Owned
  <2>6. me'[c].at \notin Making \union Recording \union Releasing
                         \union {"map", "idmap", "clean", "spawn", "term", "poll", "kill"}
    BY <2>1 DEF Making, Handshake, Recording, Releasing
  <2>7. Placed(c)'
    BY <1>1, <1>2, <2>1, <2>6 DEF Placed, Locked
  <2>8. Spares(c)' /\ Shaken(c)' /\ Certain(c)'
    BY <2>1, <2>6 DEF Spares, Shaken, Certain
  <2>9. ASSUME NEW k \in Spawns PROVE Spawned(k)'
    BY <1>0, <2>2 DEF IInv, HandInv, Spawned
  <2>10. ASSUME NEW k \in Spawns \ astray PROVE Found(k)'
    <3>1. Doomed(k) => Doomed(k)'
      <4>1. \A d \in Sessions : My(d)' = k /\ me'[d].at \in {"map", "idmap"} =>
                My(d) = k /\ me[d].at \in {"map", "idmap"}
        BY <2>1, <2>6 DEF My, Clients
      <4>2. spawn' = spawn /\ pipe'[k].idmap = pipe[k].idmap
        BY <1>0, <2>2
      <4> QED
        BY <4>1, <4>2 DEF Doomed
    <3>2. OnRecord(k) => OnRecord(k)'
      BY <1>0 DEF OnRecord, Written
    <3> QED
      BY <1>1, <3>1, <3>2, AllOnRecord DEF Found
  <2>11. record.kind = "whole" => record.start # Stranger
    BY DEF IInv, NoStrangers
  <2> QED
    BY <1>0, <1>1, <1>2, <2>1, <2>3, <2>4, <2>5, <2>7, <2>8, <2>9, <2>10, <2>11, OwnerStep
<1>3. CASE /\ me' = [me EXCEPT ![c].at = "read", ![c].then = "unlock"]
           /\ UNCHANGED <<lock, pipe>>
  <2>1. /\ me' \in [Clients -> ClientType]
        /\ \A d \in Clients : d # c => me'[d] = me[d]
        /\ me'[c].at = "read" /\ me'[c].then = "unlock"
    BY <1>3, GoingToRead
  <2>2. Quiet(c)
    BY <1>0, <1>3, <2>1 DEF Quiet, Typed
  <2>3. Placed(c)'
    BY <1>1, <1>3, <2>1 DEF Placed, Locked, Making, Handshake, Recording, Releasing
  <2>4. me'[c].at \notin Making \union {"spawn", "term", "poll", "kill"} /\ me'[c].at # "clean"
    BY <2>1 DEF Making, Handshake, Recording
  <2> QED
    BY <1>1, <2>2, <2>3, <2>4, QuietIdle
<1> QED
  BY <1>2, <1>3 DEF Mounts

\* No signal goes to a stranger.
LEMMA StrikesNobody ==
    ASSUME IInv, NEW c \in Clients, me[c].at \in {"term", "kill"}, Signals(c)
    PROVE  UNCHANGED <<has, pipe, owner, record, flags, maxiso, lock, astray, struck>>
<1>1. Spares(c) /\ struck = FALSE
  BY DEF IInv, NoStrangers
<1>2. ~Strikes(c)
  BY <1>1 DEF Spares, Strikes
<1> QED
  BY <1>1, <1>2 DEF Signals, files

\* The holder k dies of the signal of c.
LEMMA SignalledStep ==
    ASSUME IInv, NEW c \in Clients, me[c].at \in {"term", "kill"}, Signals(c),
           NEW k \in Spawns, Up(k), HolderGoes(k, "zombie"),
           me' \in [Clients -> ClientType],
           \A d \in Clients : d # c => me'[d] = me[d],
           me'[c].at \notin Making \union {"map", "idmap"},
           Placed(c)', Spares(c)', c \in Sessions => Certain(c)'
    PROVE  IInv'
<1>0. UNCHANGED <<has, pipe, owner, record, flags, maxiso, lock, astray, struck>>
  BY StrikesNobody
<1>1. Typed /\ Spawned(k)
  BY Knowing
<1>2. spawn[k].holder \notin {"none", "zombie", "gone"} /\ me[c].at \notin Making
  BY DEF Up, Making, Handshake, Recording
<1>3. /\ spawn' \in Seq(SpawnType) /\ Len(spawn') = Len(spawn)
      /\ spawn'[k].holder = "zombie" /\ spawn'[k].launcher = spawn[k].launcher
      /\ spawn'[k].mode = spawn[k].mode /\ spawn'[k].pid = spawn[k].pid
      /\ \A j \in Spawns : j # k => spawn'[j] = spawn[j]
  BY <1>1, HolderMoves DEF HolderAt
<1>4. Spawns' = Spawns
  BY <1>3 DEF Spawns
<1>5. Typed'
  BY <1>0, <1>1, <1>3 DEF Typed
<1>6. LockInv'
  <2>1. ASSUME NEW d \in Clients, d # c PROVE Placed(d)'
    BY <1>0, <2>1 DEF IInv, LockInv, Placed, Locked
  <2> QED
    BY <2>1 DEF LockInv
<1>7. Owned'
  BY <1>0, <1>2, <1>3, <1>4 DEF IInv, Owned
<1>8. NoStrangers'
  <2>1. ASSUME NEW d \in Clients, d # c PROVE Spares(d)'
    BY <1>0, <2>1 DEF IInv, NoStrangers, Spares
  <2> QED
    BY <1>0, <2>1 DEF IInv, NoStrangers
<1>9. ASSUME NEW j \in Spawns PROVE Spawned(j)'
  <2>1. CASE j = k
    BY <1>0, <1>1, <1>2, <1>3, <2>1, Words DEF Spawned, Settled, Dead, Young
  <2>2. CASE j # k
    BY <1>0, <1>3, <2>2 DEF IInv, HandInv, Spawned
  <2> QED
    BY <2>1, <2>2
<1>10. ASSUME NEW d \in Sessions PROVE Shaken(d)'
  <2>1. CASE d = c
    BY <2>1 DEF Shaken
  <2>2. CASE d # c
    <3>1. me'[d] = me[d] /\ My(d)' = My(d) /\ Shaken(d)
      BY <2>2 DEF IInv, HandInv, Clients, My
    <3>2. CASE My(d) = k
      BY <1>0, <1>1, <1>2, <1>3, <1>4, <3>1, <3>2 DEF Shaken, Spawned, Dead, Settled, Young
    <3>3. CASE My(d) # k /\ My(d) \in Spawns
      <4>1. spawn'[My(d)] = spawn[My(d)]
        BY <1>3, <3>3
      <4> QED
        BY <1>0, <1>4, <3>1, <4>1 DEF Shaken
    <3>4. CASE My(d) \notin Spawns
      BY <3>1, <3>4 DEF Shaken
    <3> QED
      BY <3>2, <3>3, <3>4
  <2> QED
    BY <2>1, <2>2
<1>11. Doomed(k)'
  BY <1>3 DEF Doomed, Dead
<1>12. ASSUME NEW j \in Spawns, Doomed(j) PROVE Doomed(j)'
  <2>1. CASE j # k
    BY <1>0, <1>3, <1>12, <2>1, DoomedKept
  <2> QED
    BY <1>11, <2>1
<1>13. ASSUME NEW j \in Spawns \ astray PROVE Found(j)'
  <2>1. CASE j = k
    BY <1>11, <2>1 DEF Found
  <2>2. CASE j # k
    <3>1. OnRecord(j) => OnRecord(j)'
      BY <1>0, <1>3, <2>2 DEF OnRecord, Written
    <3>2. \A d \in Sessions : My(d) = j /\ me[d].at \in Making =>
              My(d)' = j /\ me'[d].at \in Making
      BY <1>2 DEF My, Clients
    <3> QED
      BY <1>12, <3>1, <3>2 DEF IInv, Accounted, Found
  <2> QED
    BY <2>1, <2>2
<1>14. ASSUME NEW d \in Sessions, d # c PROVE Certain(d)'
  <2>1. me'[d] = me[d] /\ My(d)' = My(d) /\ Certain(d) /\ Shaken(d)
    BY <1>14 DEF IInv, Accounted, HandInv, Clients, My
  <2>2. me[d].at \in Recording => Progress(d)'
    <3>1. CASE me[d].at \in Recording /\ My(d) = k
      BY <1>3, <2>1, <3>1 DEF Progress, Settled
    <3>2. CASE me[d].at \in Recording /\ My(d) # k
      <4>1. My(d) \in Spawns
        BY <2>1, <3>2 DEF Shaken, Making
      <4>2. spawn'[My(d)] = spawn[My(d)] /\ Progress(d)
        BY <1>3, <2>1, <3>2, <4>1 DEF Certain
      <4> QED
        BY <1>0, <2>1, <4>2 DEF Progress, Written
    <3> QED
      BY <3>1, <3>2
  <2>3. ASSUME NEW j \in Spawns \ astray
        PROVE  /\ \/ me[d].at \in Making \union {"spawn"}
                  \/ me[d].at = "clean" /\ me[d].then # "lock"
                  => Doomed(j)' \/ (me[d].at \in Making /\ My(d) = j)
               /\ me[d].at \in {"term", "poll", "kill"} =>
                     Doomed(j)' \/ (spawn'[j].holder \in Settled /\ me[d].pid = spawn'[j].pid)
    <3>1. CASE j = k
      BY <1>11, <3>1
    <3>2. CASE j # k
      BY <1>3, <1>12, <2>1, <3>2 DEF Certain
    <3> QED
      BY <3>1, <3>2
  <2> QED
    BY <1>0, <1>4, <2>1, <2>2, <2>3 DEF Certain
<1>15. HandInv' /\ Accounted'
  BY <1>0, <1>4, <1>9, <1>10, <1>13, <1>14 DEF HandInv, Accounted
<1> QED
  BY <1>5, <1>6, <1>7, <1>8, <1>15 DEF IInv

LEMMA TerminatesKeeps ==
    ASSUME IInv, NEW c \in Clients, Terminates(c)
    PROVE  IInv'
<1>0. /\ me[c].at = "term" /\ Placed(c) /\ Spares(c) /\ Signals(c)
      /\ UNCHANGED <<has, pipe, owner, record, flags, maxiso, lock, astray, struck>>
  BY ClientFields, StrikesNobody DEF Terminates, At
<1>1. /\ c \in Sessions => c \notin Killers /\ lock = c /\ me[c].then = "unlock" /\ Certain(c)
      /\ c \in Killers => c \notin Sessions /\ me[c].then = "out"
      /\ c \in Sessions \/ c \in Killers
  BY <1>0, ClientFields DEF Placed, Releasing, Locked
<1>2. /\ me' \in [Clients -> ClientType]
      /\ \A d \in Clients : d # c => me'[d] = me[d]
      /\ me'[c].at = "poll" /\ me'[c].pid = me[c].pid /\ me'[c].start = me[c].start
      /\ me'[c].then = me[c].then
  BY Going DEF Terminates, Places, Releasing
<1>3. Placed(c)'
  BY <1>0, <1>1, <1>2 DEF Placed, Locked, Making, Handshake, Recording, Releasing
<1>4. Spares(c)'
  BY <1>0, <1>2 DEF Spares
<1>5. /\ me[c].at \notin Making
      /\ me'[c].at \notin Making \union Recording \union {"map", "idmap", "spawn", "clean"}
  BY <1>0, <1>2 DEF Making, Handshake, Recording
<1>6. CASE UNCHANGED spawn
  <2>1. Quiet(c)
    BY <1>0, <1>2, <1>6 DEF Quiet, IInv, Typed
  <2>2. ASSUME NEW k \in Spawns, Doomed(k) PROVE Doomed(k)'
    BY <1>0, <1>2, <1>5, <1>6, <2>2, DoomedKept
  <2>3. c \in Sessions => Shaken(c)' /\ Certain(c)'
    BY <1>0, <1>1, <1>2, <1>5, <1>6, <2>2 DEF Shaken, Certain, Spawns
  <2> QED
    BY <1>3, <1>4, <1>5, <2>1, <2>3, QuietStep
<1>7. ASSUME NEW k \in Spawns, Up(k), HolderGoes(k, "zombie")
      PROVE  IInv'
  <2>1. /\ Len(spawn') = Len(spawn) /\ spawn'[k].holder = "zombie"
        /\ \A j \in Spawns : j # k => spawn'[j] = spawn[j]
    BY <1>7, HolderMoves DEF IInv, HolderAt
  <2>2. Doomed(k)'
    BY <2>1 DEF Doomed, Dead
  <2>3. ASSUME NEW j \in Spawns \ astray, c \in Sessions
        PROVE  Doomed(j)' \/ (spawn'[j].holder \in Settled /\ me'[c].pid = spawn'[j].pid)
    <3>1. CASE j = k
      BY <2>2, <3>1
    <3>2. CASE j # k
      <4>1. Doomed(j) => Doomed(j)'
        BY <1>0, <1>2, <1>5, <2>1, <3>2, DoomedKept
      <4>2. Doomed(j) \/ (spawn[j].holder \in Settled /\ me[c].pid = spawn[j].pid)
        BY <1>0, <1>1, <2>3 DEF Certain
      <4> QED
        BY <1>2, <2>1, <3>2, <4>1, <4>2
    <3> QED
      BY <3>1, <3>2
  <2>4. c \in Sessions => Certain(c)'
    BY <1>0, <1>5, <2>1, <2>3 DEF Certain, Spawns
  <2> QED
    BY <1>0, <1>2, <1>3, <1>4, <1>5, <1>7, <2>4, SignalledStep
<1> QED
  BY <1>6, <1>7 DEF Terminates

LEMMA KillsKeeps ==
    ASSUME IInv, NEW c \in Clients, Kills(c)
    PROVE  IInv'
<1>0. /\ me[c].at = "kill" /\ Placed(c) /\ Spares(c) /\ Signals(c) /\ me[c].then \in Places
      /\ UNCHANGED <<has, pipe, owner, record, flags, maxiso, lock, astray, struck>>
  BY ClientFields, StrikesNobody DEF Kills, At
<1>1. /\ c \in Sessions => c \notin Killers /\ lock = c /\ me[c].then = "unlock" /\ Certain(c)
      /\ c \in Killers => c \notin Sessions /\ me[c].then = "out"
      /\ c \in Sessions \/ c \in Killers
  BY <1>0, ClientFields DEF Placed, Releasing, Locked
<1>2. /\ me' \in [Clients -> ClientType]
      /\ \A d \in Clients : d # c => me'[d] = me[d]
      /\ me'[c].at = "clean" /\ me'[c].then = me[c].then /\ me'[c].todo = AllFiles
  BY <1>0, Cleaning DEF Kills
<1>3. Placed(c)' /\ Spares(c)'
  <2>1. AllFiles # <<>>
    BY DEF AllFiles
  <2> QED
    BY <1>0, <1>1, <1>2, <2>1 DEF Placed, Spares, Locked, Making, Handshake, Recording, Releasing
<1>4. /\ me[c].at \notin Making
      /\ me'[c].at \notin Making \union Recording \union {"map", "idmap", "spawn", "term", "poll", "kill"}
  BY <1>0, <1>2 DEF Making, Handshake, Recording
<1>5. ASSUME c \in Sessions, NEW j \in Spawns \ astray
      PROVE  Doomed(j) \/ (Up(j) /\ owner[me[c].pid] = j)
  <2>1. Doomed(j) \/ (spawn[j].holder \in Settled /\ me[c].pid = spawn[j].pid)
    BY <1>0, <1>1, <1>5 DEF Certain
  <2>2. spawn[j].holder \in Settled => Up(j) /\ owner[spawn[j].pid] = j
    BY DEF IInv, Owned, Settled, Up
  <2> QED
    BY <2>1, <2>2
<1>6. CASE /\ UNCHANGED spawn
           /\ ~(owner[me[c].pid] \in Spawns /\ Up(owner[me[c].pid]))
  <2>1. Quiet(c)
    BY <1>0, <1>2, <1>6 DEF Quiet, IInv, Typed
  <2>2. c \in Sessions => \A j \in Spawns \ astray : Doomed(j)
    BY <1>5, <1>6
  <2> QED
    BY <1>3, <1>4, <2>1, <2>2, QuietIdle
<1>7. ASSUME NEW k \in Spawns, k = owner[me[c].pid], Up(k), HolderGoes(k, "zombie")
      PROVE  IInv'
  <2>1. /\ Len(spawn') = Len(spawn) /\ spawn'[k].holder = "zombie"
        /\ \A j \in Spawns : j # k => spawn'[j] = spawn[j]
    BY <1>7, HolderMoves DEF IInv, HolderAt
  <2>2. Doomed(k)'
    BY <2>1 DEF Doomed, Dead
  <2>3. ASSUME NEW j \in Spawns \ astray, c \in Sessions PROVE Doomed(j)'
    <3>1. CASE j = k
      BY <2>2, <3>1
    <3>2. CASE j # k
      BY <1>0, <1>2, <1>4, <1>5, <1>7, <2>1, <2>3, <3>2, DoomedKept
    <3> QED
      BY <3>1, <3>2
  <2>4. c \in Sessions => Certain(c)'
    BY <1>0, <1>4, <2>1, <2>3 DEF Certain, Spawns
  <2> QED
    BY <1>0, <1>2, <1>3, <1>4, <1>7, <2>4, SignalledStep
<1> QED
  BY <1>6, <1>7 DEF Kills

\* The next file is removed.
LEMMA RemovesMoves ==
    ASSUME IInv, NEW c \in Clients, Removes(c)
    PROVE  /\ me[c].at = "clean"
           /\ me' \in [Clients -> ClientType]
           /\ \A d \in Clients : d # c => me'[d] = me[d]
           /\ c \in Killers => me'[c].then = "out"
           /\ \/ me'[c].at = me[c].then
              \/ me'[c].at = "clean" /\ me'[c].then = me[c].then /\ me'[c].todo # <<>>
<1>0. /\ me[c].at = "clean" /\ Placed(c) /\ me[c] \in ClientType /\ me[c].then \in Places
  BY ClientFields DEF Removes, At
<1>1. me[c].todo \in {<<"maxiso">>, <<"flags", "maxiso">>, <<"pid", "flags", "maxiso">>}
  BY <1>0 DEF Placed, ClientType, AllFiles
<1>2. c \in Killers => me[c].then = "out"
  BY <1>0 DEF Placed
<1>3. CASE Len(me[c].todo) = 1 /\ Arrived(c, me[c].then)
  <2>1. CASE me[c].then = "out"
    BY <1>0, <1>3, <2>1, Leaving DEF Arrived, Away
  <2>2. CASE me[c].then # "out"
    BY <1>0, <1>2, <1>3, <2>2, Going DEF Arrived
  <2> QED
    BY <2>1, <2>2
<1>4. CASE Len(me[c].todo) # 1 /\ me' = [me EXCEPT ![c].todo = Tail(@)]
  <2>1. Tail(me[c].todo) \in {<<"maxiso">>, <<"flags", "maxiso">>}
    <3>1. CASE me[c].todo = <<"flags", "maxiso">>
      <4>1. Tail(<<"flags", "maxiso">>) = <<"maxiso">>
        OBVIOUS
      <4> QED
        BY <3>1, <4>1
    <3>2. CASE me[c].todo = <<"pid", "flags", "maxiso">>
      <4>1. Tail(<<"pid", "flags", "maxiso">>) = <<"flags", "maxiso">>
        OBVIOUS
      <4> QED
        BY <3>2, <4>1
    <3>3. me[c].todo # <<"maxiso">>
      <4>1. Len(<<"maxiso">>) = 1
        OBVIOUS
      <4> QED
        BY <1>4, <4>1
    <3> QED
      BY <1>1, <3>1, <3>2, <3>3
  <2> DEFINE v == [me[c] EXCEPT !.todo = Tail(me[c].todo)]
  <2>2. /\ v \in ClientType /\ v.at = "clean" /\ v.then = me[c].then /\ v.todo = Tail(me[c].todo)
        /\ me' = [me EXCEPT ![c] = v]
    BY <1>0, <1>4, <2>1 DEF ClientType
  <2>3. Tail(me[c].todo) # <<>>
    <3>1. <<"maxiso">> # <<>> /\ <<"flags", "maxiso">> # <<>>
      OBVIOUS
    <3> QED
      BY <2>1, <3>1
  <2> HIDE DEF v
  <2> QED
    BY <1>0, <1>2, <2>2, <2>3, Steps
<1> QED
  BY <1>3, <1>4 DEF Removes

\* With the lock there is no holder whose record it could be; without it a
\* holder that loses its record is astray.
LEMMA RemovesKeeps ==
    ASSUME IInv, NEW c \in Clients, Removes(c)
    PROVE  IInv'
<1>0. /\ me[c].at = "clean"
      /\ UNCHANGED <<has, spawn, pipe, owner, lock, struck>>
      /\ astray' = astray \union Overtakes(c)
      /\ record' \in {record, Absent}
      /\ Typed
  BY DEF Removes, At, kernel, IInv
<1>1. /\ Placed(c)
      /\ c \in Sessions => c \notin Killers /\ Certain(c) /\ c # Nobody
      /\ c \in Killers => c \notin Sessions /\ lock # c
      /\ c \in Sessions \/ c \in Killers
  BY ClientFields
<1>2. /\ me' \in [Clients -> ClientType]
      /\ \A d \in Clients : d # c => me'[d] = me[d]
      /\ c \in Killers => me'[c].then = "out"
      /\ \/ me'[c].at = me[c].then
         \/ me'[c].at = "clean" /\ me'[c].then = me[c].then /\ me'[c].todo # <<>>
  BY RemovesMoves
<1>3. /\ c \in Sessions => me[c].then \in {"lock", "spawn", "unlock"}
      /\ c \in Sessions => (lock = c <=> me[c].then \in {"spawn", "unlock"})
      /\ c \in Killers => me[c].then = "out"
  BY <1>0, <1>1 DEF Placed, Locked, Making, Handshake, Recording, Releasing
<1>4. me'[c].at \in {"lock", "spawn", "unlock", "out", "clean"}
  BY <1>1, <1>2, <1>3
<1>5. /\ me[c].at \notin Making
      /\ me'[c].at \notin Making \union Recording \union {"map", "idmap", "term", "poll", "kill"}
  BY <1>0, <1>4 DEF Making, Handshake, Recording
<1>6. Placed(c)'
  BY <1>0, <1>1, <1>2, <1>3, <1>4 DEF Placed, Locked, Making, Handshake, Recording, Releasing
<1>7. Spares(c)' /\ Shaken(c)'
  BY <1>4, <1>5 DEF Spares, Shaken
<1>8. Spawns' = Spawns
  BY <1>0 DEF Spawns
<1>9. Typed'
  <2>1. flags' \in BOOLEAN /\ maxiso' \in BOOLEAN
    BY DEF Removes
  <2>2. record' \in RecordType
    BY <1>0 DEF Typed, RecordType
  <2> QED
    BY <1>0, <1>2, <2>1, <2>2 DEF Typed
<1>10. LockInv'
  <2>1. ASSUME NEW d \in Clients, d # c PROVE Placed(d)'
    BY <1>0, <1>2, <2>1 DEF IInv, LockInv, Placed, Locked
  <2> QED
    BY <1>6, <2>1 DEF LockInv
<1>11. Owned'
  BY <1>0, <1>8 DEF IInv, Owned
<1>12. NoStrangers'
  <2>1. ASSUME NEW d \in Clients, d # c PROVE Spares(d)'
    BY <1>0, <1>2, <2>1 DEF IInv, NoStrangers, Spares
  <2>2. record'.kind = "whole" => record'.start # Stranger
    BY <1>0 DEF IInv, NoStrangers, Absent
  <2> QED
    BY <1>0, <1>7, <2>1, <2>2 DEF IInv, NoStrangers
<1>13. HandInv'
  <2>1. ASSUME NEW j \in Spawns PROVE Spawned(j)'
    BY <1>0 DEF IInv, HandInv, Spawned
  <2>2. ASSUME NEW d \in Sessions, d # c PROVE Shaken(d)'
    <3>1. me'[d] = me[d] /\ My(d)' = My(d) /\ Shaken(d)
      BY <1>2, <2>2 DEF IInv, HandInv, Clients, My
    <3> QED
      BY <1>0, <1>8, <3>1 DEF Shaken
  <2> QED
    BY <1>7, <1>8, <2>1, <2>2 DEF HandInv
<1>14. ASSUME NEW k \in Spawns, Doomed(k) PROVE Doomed(k)'
  BY <1>0, <1>2, <1>5, <1>14, DoomedKept
<1>15. ASSUME NEW k \in Spawns \ astray' PROVE Found(k)'
  <2>1. Found(k)
    BY <1>0 DEF IInv, Accounted
  <2>2. CASE Doomed(k)
    BY <1>14, <2>2 DEF Found
  <2>3. CASE OnRecord(k)
    <3>1. Up(k) /\ Recorded(k)
      BY <2>3 DEF OnRecord, Written, Up, Settled, Recorded
    <3>2. lock = c
      BY <1>0, <1>15, <3>1 DEF Overtakes
    <3>3. c \in Sessions /\ me[c].then # "lock"
      BY <1>1, <1>3, <3>2
    <3>4. Doomed(k)
      BY <1>0, <1>1, <1>5, <1>15, <3>3 DEF Certain
    <3> QED
      BY <1>14, <3>4 DEF Found
  <2>4. CASE \E d \in Sessions : My(d) = k /\ me[d].at \in Making
    BY <1>2, <1>5, <2>4 DEF Found, My, Clients
  <2> QED
    BY <2>1, <2>2, <2>3, <2>4 DEF Found
<1>16. ASSUME NEW d \in Sessions PROVE Certain(d)'
  <2>1. CASE d = c
    <3>1. ASSUME me'[c].at = "spawn" \/ (me'[c].at = "clean" /\ me'[c].then # "lock"),
                 NEW k \in Spawns \ astray'
          PROVE  Doomed(k)'
      <4>1. me[c].then # "lock" /\ k \in Spawns \ astray
        BY <1>0, <1>2, <3>1
      <4>2. Doomed(k)
        BY <1>0, <1>1, <1>5, <2>1, <4>1 DEF Certain
      <4> QED
        BY <1>14, <4>2
    <3> QED
      BY <1>5, <1>8, <2>1, <3>1 DEF Certain
  <2>2. CASE d # c
    <3>1. me'[d] = me[d] /\ My(d)' = My(d) /\ Certain(d) /\ Shaken(d)
      BY <1>2, <2>2 DEF IInv, Accounted, HandInv, Clients, My
    <3>2. me[d].at \in Recording => Progress(d)'
      <4>1. ASSUME me[d].at \in Recording, My(d) \notin astray', spawn[My(d)].holder \in Settled
            PROVE  FALSE
        <5>1. My(d) \in Spawns /\ Up(My(d)) /\ Parents(My(d), Recording) # {}
          BY <3>1, <4>1 DEF Shaken, Making, Up, Settled, Parents
        <5>2. lock # c
          <6>1. me[d].at \in Making
            BY <4>1 DEF Making
          <6>2. lock = d
            BY <6>1, MakingKnows DEF Clients
          <6> QED
            BY <2>2, <6>2
        <5> QED
          BY <1>0, <4>1, <5>1, <5>2 DEF Overtakes
      <4> QED
        BY <1>0, <3>1, <4>1 DEF Progress
    <3> QED
      BY <1>0, <1>8, <1>14, <3>1, <3>2 DEF Certain
  <2> QED
    BY <2>1, <2>2
<1>17. Accounted'
  BY <1>8, <1>15, <1>16 DEF Accounted
<1> QED
  BY <1>9, <1>10, <1>11, <1>12, <1>13, <1>17 DEF IInv

-----------------------------------------------------------------------------
(* The invariant *)

\* Nothing has been made at first.
LEMMA InitIInv == Init => IInv
<1> SUFFICES ASSUME Init PROVE IInv
  OBVIOUS
<1>0. /\ spawn = <<>> /\ pipe = <<>> /\ Spawns = {} /\ record = Absent /\ lock = Nobody
      /\ struck = FALSE /\ me = [c \in Clients |-> Away]
  BY DEF Init, Spawns
<1>1. /\ Away \in ClientType /\ Away.at = "out" /\ Away.then = "out"
      /\ "out" \notin Making \union Recording \union Releasing \union {"map", "idmap"}
  BY DEF Away, ClientType, Places, Parked, ModeType, NoStart, Free, Making, Handshake, Recording,
         Releasing
<1>2. Typed
  <2>1. has \in [pid : BOOLEAN, user : BOOLEAN]
    BY HolderAssumption DEF Init
  <2>2. spawn \in Seq(SpawnType) /\ pipe \in Seq(PipeType) /\ Len(spawn) = 0 /\ Len(pipe) = 0
    BY <1>0
  <2>3. record \in RecordType /\ flags \in BOOLEAN /\ maxiso \in BOOLEAN
    BY DEF Init, RecordType
  <2>4. me \in [Clients -> ClientType] /\ owner \in [Pids -> Nat]
    BY <1>0, <1>1 DEF Init, Free
  <2> QED
    BY <1>0, <2>1, <2>2, <2>3, <2>4, HolderAssumption DEF Typed
<1>3. LockInv
  BY <1>0, <1>1, HolderAssumption DEF LockInv, Placed, Locked, Nobody, Clients
<1>4. Owned /\ Accounted /\ HandInv
  BY <1>0, <1>1 DEF Owned, Accounted, Certain, HandInv, Shaken, Clients
<1>5. NoStrangers
  BY <1>0, <1>1 DEF NoStrangers, Spares, Absent
<1> QED
  BY <1>2, <1>3, <1>4, <1>5 DEF IInv

\* Stuttering keeps the invariant.
LEMMA Stutters ==
    ASSUME IInv, UNCHANGED vars
    PROVE  IInv'
<1>1. UNCHANGED <<has, spawn, pipe, owner, record, flags, maxiso, lock, me, astray, struck>>
  BY DEF vars, kernel, files, past
<1>2. Spawns' = Spawns
  BY <1>1 DEF Spawns
<1>3. Typed' /\ LockInv' /\ Owned' /\ NoStrangers'
  BY <1>1, <1>2 DEF IInv, Typed, LockInv, Placed, Locked, Owned, NoStrangers, Spares
<1>4. HandInv'
  BY <1>1, <1>2 DEF IInv, HandInv, Spawned, Shaken, My
<1>5. Accounted'
  BY <1>1, <1>2 DEF IInv, Accounted, Certain, Found, Doomed, OnRecord, Written, Progress, My
<1> QED
  BY <1>3, <1>4, <1>5 DEF IInv

\* Every step keeps the invariant.
LEMMA NextIInv == IInv /\ [Next]_vars => IInv'
<1> SUFFICES ASSUME IInv, [Next]_vars PROVE IInv'
  OBVIOUS
<1>1. ASSUME NEW k \in Spawns, Launches(k) \/ Holds(k) \/ CommandEnds(k) \/ Killed(k) PROVE IInv'
  BY <1>1, KernelKeeps
<1>2. ASSUME NEW p \in Pids, StrangerComes(p) PROVE IInv'
  BY <1>2, StrangerKeeps
<1>3. ASSUME NEW c \in Clients, Creates(c) PROVE IInv'
  BY <1>3, SpawningKeeps, WritesMapsKeeps, IdmapsKeeps, HearsPidKeeps, ReapsLauncherKeeps,
     VerifiesKeeps DEF Creates
<1>4. ASSUME NEW c \in Clients, Records(c) PROVE IInv'
  BY <1>4, OpensKeeps, WritesKeeps, WritesFlagsKeeps, WritesMaxisoKeeps DEF Records
<1>5. ASSUME NEW c \in Clients, Releases(c) PROVE IInv'
  BY <1>5, ReadsKeeps, TerminatesKeeps, PollsKeeps, KillsKeeps, RemovesKeeps DEF Releases
<1>6. ASSUME NEW c \in Clients, Works(c) PROVE IInv'
  BY <1>3, <1>4, <1>5, <1>6, LooksKeeps, LocksKeeps, MountsKeeps, UnlocksKeeps DEF Works
<1>7. ASSUME NEW c \in Clients, Arrives(c) \/ Crashes(c) PROVE IInv'
  BY <1>7, ArrivesKeeps, CrashesKeeps
<1>8. ASSUME NEW c \in Sessions, Leaves(c) PROVE IInv'
  BY <1>8, LeavesKeeps
<1>9. CASE UNCHANGED vars
  BY <1>9, Stutters
<1> QED
  BY <1>1, <1>2, <1>6, <1>7, <1>8, <1>9 DEF Next, Blocks, Over

\* The invariant holds throughout.
LEMMA Invariant == Spec => []IInv
BY InitIInv, NextIInv, PTL DEF Spec

\* Types, and who has what: a pid stays its holder's until it is reaped, and
\* whoever makes a holder has sessions.lock.
THEOREM TypeCorrect == Spec => []TypeOK
<1>1. IInv => TypeOK
  <2> SUFFICES ASSUME IInv PROVE TypeOK
    OBVIOUS
  <2>1. Typed
    BY DEF IInv
  <2>2. Len(spawn) <= MaxSpawns /\ lock \in Sessions \union {Nobody}
    BY <2>1 DEF Typed
  <2>3. \A k \in Spawns : spawn[k].launcher \in LauncherAt /\ spawn[k].holder \in HolderAt
    BY <2>1, SpawnFields
  <2>4. \A k \in Spawns : Up(k) => owner[spawn[k].pid] = k
    BY DEF IInv, Owned, Up
  <2>5. \A c \in Clients : me[c].at \in Places
    BY ClientFields
  <2>6. ASSUME NEW c \in Clients,
               me[c].at \in Handshake \union Recording \union {"look", "spawn", "mounts"}
        PROVE  lock = c
    <3>1. Placed(c) /\ (c \in Sessions \/ c \in Killers)
      BY ClientFields
    <3>2. c \notin Killers
      BY <2>6, <3>1 DEF Placed, Handshake, Recording, Releasing
    <3> QED
      BY <2>6, <3>1, <3>2 DEF Placed, Locked, Making
  <2>7. record.kind \in {"absent", "empty", "whole"}
    BY <2>1 DEF Typed, RecordType, Absent, Empty
  <2> QED
    BY <2>2, <2>3, <2>4, <2>5, <2>6, <2>7 DEF TypeOK
<1> QED
  BY <1>1, Invariant, PTL

\* release_holder(): a signal that is meant for a holder never reaches another
\* program that has got its pid, however old the record, whoever is killed in
\* between, and with or without the lock.
THEOREM StrangersAlwaysSpared == Spec => []StrangersSpared
<1>1. IInv => StrangersSpared
  BY DEF IInv, NoStrangers, StrangersSpared
<1> QED
  BY <1>1, Invariant, PTL

\* create_holder_process() and release_holder(): while nobody makes or releases
\* a holder, each one there is is the one on record, unless it is astray.
THEOREM HoldersAlwaysOnRecord == Spec => []HoldersOnRecord
<1>1. IInv => HoldersOnRecord
  <2> SUFFICES ASSUME IInv, \A c \in Clients : me[c].at \in {"out", "check", "lock", "in"},
                      NEW k \in Spawns \ astray, spawn[k].holder \in Settled
               PROVE  /\ record.kind = "whole" /\ record.pid = spawn[k].pid
                      /\ flags /\ (spawn[k].mode.chroot => maxiso)
    BY DEF HoldersOnRecord
  <2>1. \A c \in Sessions : me[c].at \notin Making
    BY DEF Clients, Making, Handshake, Recording
  <2>2. ~Doomed(k)
    BY DEF Doomed, Settled, Dead
  <2>3. OnRecord(k)
    BY <2>1, <2>2 DEF IInv, Accounted, Found
  <2> QED
    BY <2>3 DEF OnRecord, Written
<1> QED
  BY <1>1, Invariant, PTL
=============================================================================
