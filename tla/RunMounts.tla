------------------------------- MODULE RunMounts -------------------------------
(***************************************************************************)
(* RUN --mount: what one entry means, which of them enter the recipe of    *)
(* the step, and the session that applies them before the step and takes   *)
(* them away after it (helpers/build_engine/run_mounts.py).                *)
(*                                                                         *)
(* A session is a function of the mounts `ms` and of `b`, where it runs:   *)
(* the paths of the rootfs and which of them are files, what the sources   *)
(* hold, the secrets and sockets of the command line, the paths the step   *)
(* writes and the mounts that fail.  Paths are sequences of names.         *)
(***************************************************************************)
EXTENDS Naturals, FiniteSets, Sequences, SequencesExt

MountTypes == {"bind", "cache", "tmpfs", "secret", "ssh"}
RunFlags   == {"mount", "network", "security"}

\* An entry as it is written: "" and <<>> are what was left out.
Mount(type, target) ==
    [type |-> type, target |-> target, source |-> <<>>, from |-> <<>>, id |-> "", ro |-> "",
     sharing |-> "locked"]

ReadonlyByDefault(type) == type \in {"bind", "secret"}

\* The id a secret goes by is the last name of its target.
SecretId(m) == IF m.id # "" \/ m.target = <<>> THEN m.id ELSE Last(m.target)

\* _parse_one_mount()
Complete(m) ==
    /\ m.type \in MountTypes
    /\ CASE m.type = "secret" -> SecretId(m) # ""
         [] m.type = "ssh"    -> TRUE
         [] OTHER             -> m.target # <<>>
Parsed(m) ==
    LET id == CASE m.type = "secret" -> SecretId(m)
                [] m.type = "ssh" /\ m.id = "" -> "default"
                [] OTHER -> m.id
        target == IF m.type = "secret" /\ m.target = <<>> THEN <<"run", "secrets", id>> ELSE m.target
    IN  [m EXCEPT !.id = id, !.target = target,
                  !.ro = IF @ # "" THEN @ ELSE IF ReadonlyByDefault(m.type) THEN "ro" ELSE "rw"]

\* validate_and_parse_run_flags(), which comes before any lookup in the build cache.
FlagsAccepted(flags, network) ==
    /\ flags \subseteq RunFlags \ {"security"}
    /\ "network" \in flags => network \in {"host", "default"}

\* mount_cache_inputs(): binds alone, by what they show.  `stageOf` gives the last layer of a
\* stage, `contextOf` the content of a tree of the build context.
CacheInputs(ms, stages, stageOf, contextOf) ==
    LET token(m) == CASE m.from = <<>> -> <<"context", contextOf[m.source]>>
                      [] m.from \in stages -> <<"stage", stageOf[m.from]>>
                      [] OTHER -> <<"image", m.from>>
        binds == SelectSeq([n \in DOMAIN ms |-> n], LAMBDA n : ms[n].type = "bind")
    IN  [i \in DOMAIN binds |-> <<binds[i], ms[binds[i]].source, token(ms[binds[i]])>>]

-----------------------------------------------------------------------------
(* The session.  fs: the filesystems over each other, the rootfs first,    *)
(* each with the path it is mounted at and the paths it has.               *)

CacheKey(m) == IF m.id # "" THEN <<m.id>> ELSE m.target

Begin(b) == [ok |-> TRUE, fs |-> <<[at |-> <<>>, has |-> b.rootfs]>>, mounted |-> <<>>,
             created |-> <<>>, scratch |-> {}, locks |-> <<>>, env |-> {}]

Ancestors(p) == {SubSeq(p, 1, n) : n \in 1..Len(p)}
On(fs, p) == CHOOSE i \in DOMAIN fs : /\ IsPrefix(fs[i].at, p)
                                      /\ \A j \in (i + 1)..Len(fs) : ~IsPrefix(fs[j].at, p)
Seen(fs, p) == p \in fs[On(fs, p)].has

\* What lexists() sees: from the namespace of the builder a holder's mounts are not there.
Lexists(b, x, p) == IF b.holder THEN p \in x.fs[1].has ELSE Seen(x.fs, p)

\* _record_missing(): the target and the directories above it, shallowest first.
RecordMissing(b, x, p) ==
    LET missing(n) == ~Lexists(b, x, SubSeq(p, 1, n))
    IN  [i \in 1..Cardinality({n \in 1..Len(p) : missing(n)}) |->
            SubSeq(p, 1, Len(p) - Cardinality({n \in 1..Len(p) : missing(n)}) + i)]

\* What is there to be mounted: _resolve_bind(), _resolve_cache(), _resolve_secret(), ssh.
SourceHas(b, m) ==
    CASE m.type = "bind"   -> m.source \in DOMAIN b.sources
      [] m.type = "secret" -> m.id \in b.secrets
      [] m.type = "ssh"    -> m.id \in b.sockets
      [] OTHER             -> TRUE
Shown(b, m) == IF m.type = "bind" THEN b.sources[m.source] ELSE {}

\* Writes that may not reach the source go to a copy in the scratch tree.
Scratch(m, n) ==
    CASE m.type = "bind" /\ m.ro = "rw"           -> {<<"rw", n>>}
      [] m.type = "cache" /\ m.sharing = "private" -> {<<"cache", n>>}
      [] m.type = "secret"                         -> {<<"secret", m.id>>}
      [] OTHER                                     -> {}
Locked(m) == m.type = "cache" /\ m.sharing = "locked"

SshTarget(m, n) == IF m.type = "ssh" /\ m.target = <<>> THEN <<"run", "buildkit", n>> ELSE m.target

\* One entry.  A failure leaves what the entries before it, and its own first steps, have made.
ApplyMount(b, x, m, n) ==
    LET at     == SshTarget(m, n)
        prepared == [x EXCEPT !.scratch = @ \union Scratch(m, n),
                              !.locks = IF Locked(m) THEN Append(@, CacheKey(m)) ELSE @,
                              !.env = IF m.type = "ssh" THEN {at} ELSE @]
        recorded == [prepared EXCEPT !.created = @ \o RecordMissing(b, x, at)]
        below  == On(x.fs, at)
        placed == [recorded EXCEPT !.fs[below].has = @ \union Ancestors(at)]
        over   == [at |-> at, has |-> {at} \union {at \o p : p \in Shown(b, m)}]
    IN  IF ~SourceHas(b, m) THEN [x EXCEPT !.ok = FALSE]
        ELSE IF at \in b.escapes THEN [prepared EXCEPT !.ok = FALSE]
        ELSE IF n \in b.fails THEN [placed EXCEPT !.ok = FALSE]
        ELSE [placed EXCEPT !.fs = Append(@, over), !.mounted = Append(@, at)]

Applied(b, ms) ==
    FoldLeft(LAMBDA x, n : IF x.ok THEN ApplyMount(b, x, ms[n], n) ELSE x, Begin(b),
             [n \in DOMAIN ms |-> n])

\* The step writes where it sees the paths.
Written(b, x) ==
    LET on(i) == UNION {Ancestors(p) : p \in {q \in b.writes : On(x.fs, q) = i}}
    IN  [x EXCEPT !.fs = [i \in DOMAIN @ |-> [@[i] EXCEPT !.has = @ \union on(i)]]]

\* The rest of the session, whatever came before: unmount, remove the placeholders that are
\* empty directories or files, then the scratch copies, then let the locks go.
RemovePlaceholder(b, has, p) ==
    IF p \in b.files \/ ~\E q \in has : IsStrictPrefix(p, q) THEN has \ {p} ELSE has
TearDown(b, x) ==
    [x EXCEPT !.fs = <<[at |-> <<>>, has |-> FoldLeft(LAMBDA has, p : RemovePlaceholder(b, has, p),
                                                     x.fs[1].has, Reverse(x.created))]>>,
              !.mounted = <<>>, !.created = <<>>, !.scratch = {}, !.locks = <<>>]

\* run_mount_session()
MountSession(b, ms) ==
    LET x == Applied(b, ms) IN TearDown(b, IF x.ok THEN Written(b, x) ELSE x)
RootfsAfter(b, ms) == MountSession(b, ms).fs[1].has

\* The locks a step takes, one by one as its mounts come.
LockOrder(ms) ==
    LET locked == SelectSeq(ms, LAMBDA m : Locked(m)) IN [i \in DOMAIN locked |-> CacheKey(locked[i])]
=============================================================================
