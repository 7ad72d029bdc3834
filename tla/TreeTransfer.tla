----------------------------- MODULE TreeTransfer -----------------------------
(***************************************************************************)
(* `chroot-distro sync` and `copy` of a directory (commands/sync.py,       *)
(* commands/copy.py, the walks of dirfd.py) from a tree that somebody may  *)
(* be changing to one that is locked.                                      *)
(*                                                                         *)
(* `sync` walks the source twice, to record its paths and to mirror it,    *)
(* and may prune what the destination has beyond it; `copy` walks it once; *)
(* `copy --move` renames or, across devices, copies and then removes the   *)
(* source.  Every walk carries its open directories on a stack: a          *)
(* directory that somebody removes stays open, and empty.  What cannot be  *)
(* read or written is noted and stepped over.  A command may be killed     *)
(* anywhere and run again.                                                 *)
(*                                                                         *)
(* Sizes are part of the content; `time` is the modification time in whole *)
(* seconds, and no two versions of a source file share one.                *)
(***************************************************************************)
EXTENDS FileTrees

CONSTANTS
    Sources, Dests, \* the trees to begin with
    Paths,          \* where the source is edited
    Contents,       \* of files
    Metas,          \* owners and modes
    Fresh,          \* entries that are new in the source
    TempName,       \* the name of the temporary for a name
    Sealings,       \* sets of source directories that cannot be read
    Operations,     \* records [kind, delete, checksum, rename]
    MaxRuns,        \* bound: commands
    MaxEdits,       \* bound: changes of the source
    MaxFaults       \* bound: failed writes

File(d, t, m) == [kind |-> "file", data |-> d, time |-> t, meta |-> m, twin |-> FALSE]
Dir(m)        == [kind |-> "dir", meta |-> m]
Link(t)       == [kind |-> "link", target |-> t]
Special       == [kind |-> "special"]

VARIABLES
    src, dst,   \* a `twin` in dst has a second link outside of it
    sealed,     \* source directories that cannot be opened or listed
    op,         \* the command, the last one once it has ended
    pc,         \* its pass
    stack,      \* directories it has open
    doing,      \* the file it is at: path, lstat result, what it has read
    seen,       \* ctx.src_rels
    skipped,    \* ctx.skipped_rels; what copy has left out
    failed,     \* the entries counted as failures
    blind,      \* ctx.root_unreadable
    targets,    \* what is left to prune
    outcome,    \* of the last command
    was,        \* history: the source as this command found it,
    stable,     \* the paths of it nobody else has touched since,
    ever,       \* and the paths it has had at any time
    runs, edits, faults

trees   == <<src, dst>>
walk    == <<pc, stack, doing>>
report  == <<seen, skipped, failed, blind>>
history == <<was, stable, ever>>
bounds  == <<runs, edits, faults>>
vars    == <<trees, sealed, op, walk, report, targets, outcome, history, bounds>>

Nothing == [path |-> <<>>, stage |-> "none", name |-> <<>>, st |-> Special, data |-> "none"]
NoOperation == [kind |-> "none", delete |-> FALSE, checksum |-> FALSE, rename |-> FALSE]
Private == 0        \* mode 0700, until copy_metadata()
NoTime  == 0        \* the time of a file that has not been given one
Partial == File("partial", NoTime, Private)

Kids(t, p)   == {q \in Below(t, p) : Len(q) = Len(p) + 1}
Subdirs(t, p) == {q \in Kids(t, p) : IsDir(t, q)}
IsFirst(p, S) == p \in S /\ \A q \in S : q = p \/ PathLess(p, q)
TempOf(p)    == Append(Front(p), TempName[Last(p)])
Top          == Last(stack)
SameAs(a, b) == IF a.kind = "file" /\ b.kind = "file" THEN [a EXCEPT !.twin = b.twin] = b ELSE a = b

\* A tree of which removing p has removed a part.
Remnants(t, p) ==
    {Without(t, S) : S \in {S \in SUBSET (Below(t, p) \union {p}) : \A q \in S : Below(t, q) \subseteq S}}

Entries ==
    [kind : {"file"}, data : Contents \union {"partial"}, time : Nat,
     meta : Metas \union {Private}, twin : BOOLEAN]
    \union [kind : {"dir"}, meta : Metas \union {Private}]
    \union [kind : {"link"}, target : STRING]
    \union {Special}

IsTree(t) == \A p \in DOMAIN t :
    /\ p \in Seq(Range(Names)) \ {<<>>} /\ t[p] \in Entries
    /\ \A q \in Above(p) : IsDir(t, q)

FileTimes(t) == {t[p].time : p \in {p \in DOMAIN t : t[p].kind = "file"}}

\* The trees of the owner have none of the names of temporaries.  Their files
\* have times, other ones than what will be edited will have, and what the
\* destination has with the time of a file is its content.
ASSUME TransferAssumption ==
    /\ \A t \in Sources \union Dests : IsTree(t) /\ FileTimes(t) \intersect (2..MaxEdits + 1) = {}
    /\ \A s \in Sources : NoTime \notin FileTimes(s)
    /\ \A s \in Sources, d \in Dests : \A p \in DOMAIN s \intersect DOMAIN d :
         IsA("file", s, p) /\ IsA("file", d, p) /\ s[p].time = d[p].time => s[p].data = d[p].data
    /\ Paths \subseteq Seq(Range(Names)) \ {<<>>}
    /\ TempName \in [DOMAIN TempName -> Range(Names) \ DOMAIN TempName]
    /\ \A p \in Paths \union UNION {DOMAIN s : s \in Sources} : Last(p) \in DOMAIN TempName
    /\ Fresh \subseteq Entries /\ "none" \notin Contents
    /\ Operations \subseteq [kind : {"sync", "copy", "move"}, delete : BOOLEAN,
                              checksum : BOOLEAN, rename : BOOLEAN]
    /\ \A o \in Operations : o.delete => o.kind = "sync"
    /\ MaxRuns \in Nat /\ MaxEdits \in Nat /\ MaxFaults \in Nat

Passes == {"idle", "collect", "mirror", "prune", "copy", "clear"}
TypeOK ==
    /\ IsTree(src) /\ IsTree(dst)
    /\ op \in Operations \union {NoOperation} /\ pc \in Passes
    /\ outcome \in {"none", "ok", "failed", "killed"}
    /\ failed \subseteq skipped
    /\ targets # {} => pc = "prune" /\ targets \subseteq DOMAIN dst
    /\ doing # Nothing => pc \in {"mirror", "copy"} /\ stack # <<>>
    /\ \A i \in DOMAIN stack : Len(stack[i].at) = i - 1
    /\ stable \subseteq DOMAIN was
    /\ runs \in 0..MaxRuns /\ edits \in 0..MaxEdits /\ faults \in 0..MaxFaults

Init ==
    /\ src \in Sources /\ dst \in Dests
    /\ sealed \in Sealings
    /\ op = NoOperation /\ pc = "idle" /\ stack = <<>> /\ doing = Nothing
    /\ seen = {} /\ skipped = {} /\ failed = {} /\ blind = FALSE /\ targets = {}
    /\ outcome = "none"
    /\ was = EmptyTree /\ stable = {} /\ ever = {}
    /\ runs = 0 /\ edits = 0 /\ faults = 0

-----------------------------------------------------------------------------
(* What the passes share. *)

\* Mutant: an entry that was stepped over is warned about and not counted.
NoteSilently(p) == skipped' = skipped \union {p} /\ UNCHANGED failed

\* note_failure()
Note(p) ==
    /\ skipped' = skipped \union {p}
    /\ failed'  = IF p \in skipped THEN failed ELSE failed \union {p}

Noted(p) == Note(p) /\ UNCHANGED <<seen, blind>>
Silent   == UNCHANGED report

\* opendir_at() and listdir_at() of a source directory below an open one.
CanOpen(frame, p) == ~frame.gone /\ IsDir(src, p) /\ p \notin sealed
Opened(p)   == [at |-> p, gone |-> FALSE, names |-> {}, subs |-> {},
                meta |-> IF p = <<>> THEN Private ELSE src[p].meta]
Listed(p)   == [Opened(p) EXCEPT !.names = Kids(src, p)]
ReplaceTop(f) == Append(Front(stack), f)
LessName(p) == ReplaceTop([Top EXCEPT !.names = @ \ {p}])
LessSub(p)  == ReplaceTop([Top EXCEPT !.subs = @ \ {p}])

Fault == faults < MaxFaults /\ faults' = faults + 1
Works == UNCHANGED faults

End(result) ==
    /\ pc' = "idle" /\ outcome' = result
    /\ stack' = <<>> /\ doing' = Nothing /\ targets' = {}

Verdict == IF failed = {} /\ ~blind THEN "ok" ELSE "failed"

Begin(o) ==
    /\ pc = "idle" /\ runs < MaxRuns /\ runs' = runs + 1
    /\ op' = o
    /\ was' = src /\ stable' = DOMAIN src /\ ever' = DOMAIN src
    /\ UNCHANGED <<sealed, edits, faults>>

\* An entry the walk of this pass has come to, and whether it still is there.
Entry(pass, p) ==
    /\ pc = pass /\ doing = Nothing /\ stack # <<>>
    /\ IsFirst(p, Top.names)
There(p)     == ~Top.gone /\ p \in DOMAIN src
Found(k, p)  == There(p) /\ src[p].kind = k
Stepped      == UNCHANGED <<src, sealed, op, pc, targets, outcome, history, runs, edits>>

-----------------------------------------------------------------------------
(* sync: _collect_rels() *)

StartSync ==
    \E o \in Operations :
        /\ o.kind = "sync" /\ Begin(o)
        /\ pc' = "collect" /\ doing' = Nothing /\ skipped' = {} /\ targets' = {}
        /\ IF <<>> \in sealed
             THEN stack' = <<>> /\ seen' = {} /\ blind' = TRUE /\ failed' = {}
             ELSE /\ stack' = << [Opened(<<>>) EXCEPT !.subs = Subdirs(src, <<>>)] >>
                  /\ seen' = Kids(src, <<>>) /\ blind' = FALSE /\ failed' = {}
        /\ UNCHANGED <<trees, outcome>>

CollectDown ==
    /\ pc = "collect" /\ stack # <<>>
    /\ \E p \in Top.subs :
         /\ IsFirst(p, Top.subs)
         /\ IF CanOpen(Top, p)
              THEN /\ stack' = Append(LessSub(p), [Opened(p) EXCEPT !.subs = Subdirs(src, p)])
                   /\ seen' = seen \union Kids(src, p)
                   /\ UNCHANGED <<skipped, failed, blind>>
              ELSE stack' = LessSub(p) /\ Noted(p)
    /\ Works /\ Stepped /\ UNCHANGED <<dst, doing>>

CollectUp ==
    /\ pc = "collect" /\ stack # <<>> /\ Top.subs = {}
    /\ stack' = Front(stack)
    /\ Silent /\ Works /\ Stepped /\ UNCHANGED <<dst, doing>>

\* _mirror_at() begins with the root, which may be readable by now, or no more.
CollectEnd ==
    /\ pc = "collect" /\ stack = <<>>
    /\ pc' = "mirror"
    /\ IF <<>> \in sealed
         THEN stack' = <<Opened(<<>>)>> /\ Noted(<<>>)
         ELSE /\ stack' = <<Listed(<<>>)>>
              /\ seen' = seen \union Kids(src, <<>>)
              /\ UNCHANGED <<skipped, failed, blind>>
    /\ UNCHANGED <<trees, sealed, op, doing, targets, outcome, history, bounds>>

-----------------------------------------------------------------------------
(* sync: _mirror_at() *)

MirrorGone(p) ==
    /\ Entry("mirror", p) /\ ~There(p)
    /\ stack' = LessName(p) /\ Noted(p)
    /\ Works /\ Stepped /\ UNCHANGED <<dst, doing>>

MirrorSpecial(p) ==
    /\ Entry("mirror", p) /\ Found("special", p)
    /\ stack' = LessName(p) /\ skipped' = skipped \union {p}
    /\ Works /\ Stepped /\ UNCHANGED <<dst, doing, seen, failed, blind>>

\* _sync_dir(): anything but a directory is unlinked first.
MirrorDir(p) ==
    /\ Entry("mirror", p) /\ Found("dir", p)
    /\ \/ /\ stack' = ReplaceTop([Top EXCEPT !.names = @ \ {p}, !.subs = @ \union {p}])
          /\ dst' = IF IsDir(dst, p) THEN dst ELSE Put(dst, p, Dir(Private))
          /\ Silent /\ Works
       \/ /\ ~IsDir(dst, p) /\ Fault
          /\ stack' = LessName(p) /\ dst' \in {dst, Without(dst, {p})} /\ Noted(p)
    /\ Stepped /\ UNCHANGED doing

\* _sync_symlink(): anything else is removed first, a directory with its contents.
MirrorLink(p) ==
    /\ Entry("mirror", p) /\ Found("link", p)
    /\ stack' = LessName(p)
    /\ IF p \in DOMAIN dst /\ dst[p] = src[p]
         THEN UNCHANGED dst /\ Silent /\ Works
         ELSE \/ dst' = Put(Drop(dst, p), p, src[p]) /\ Silent /\ Works
              \/ dst' \in Remnants(dst, p) /\ Noted(p) /\ Fault
    /\ Stepped /\ UNCHANGED doing

At(p, stage, name) ==
    [path |-> p, stage |-> stage, name |-> name, st |-> src[p], data |-> "none"]

MirrorFile(p) ==
    /\ Entry("mirror", p) /\ Found("file", p)
    /\ stack' = LessName(p) /\ doing' = At(p, "check", TempOf(p))
    /\ Silent /\ Works /\ Stepped /\ UNCHANGED dst

\* What can be read of the file by now: not necessarily what was lstat'ed.
Current == LET p == doing.path IN
           IF Found("file", p) THEN src[p].data ELSE "none"

\* _needs_update()
NeedsUpdate == LET p == doing.path IN
    \/ ~IsA("file", dst, p)
    \/ IF op.checksum THEN Current # dst[p].data ELSE doing.st.time # dst[p].time

\* _refresh_file_metadata(): not through an inode that has another name.
UpToDate == LET d == dst[doing.path] IN d.meta = doing.st.meta /\ d.time = doing.st.time
Refreshed == [dst EXCEPT ![doing.path].meta = doing.st.meta, ![doing.path].time = doing.st.time]

Rewrites == NeedsUpdate \/ (~UpToDate /\ dst[doing.path].twin)

Check ==
    /\ doing.stage = "check"
    /\ IF Rewrites THEN doing' = [doing EXCEPT !.stage = "open"] /\ UNCHANGED dst
       ELSE doing' = Nothing /\ dst' = Refreshed
    /\ Silent /\ Works /\ Stepped /\ UNCHANGED stack

\* _mirror_at(): a subdirectory, when the entries of the level are done.
MirrorDown ==
    /\ pc = "mirror" /\ doing = Nothing /\ stack # <<>> /\ Top.names = {}
    /\ \E p \in Top.subs :
         /\ IsFirst(p, Top.subs)
         /\ IF CanOpen(Top, p) /\ IsDir(dst, p)
              THEN /\ stack' = Append(LessSub(p), Listed(p))
                   /\ seen' = seen \union Kids(src, p)
                   /\ UNCHANGED <<skipped, failed, blind>>
              ELSE stack' = LessSub(p) /\ Noted(p)
    /\ Works /\ Stepped /\ UNCHANGED <<dst, doing>>

\* copy_metadata() of a level that is done; a removed directory has had any.
Sealed(p, m) == IF p = <<>> THEN dst ELSE [dst EXCEPT ![p].meta = m]
MirrorUp ==
    /\ pc = "mirror" /\ doing = Nothing /\ stack # <<>> /\ Top.names = {} /\ Top.subs = {}
    /\ \E m \in IF Top.gone THEN Metas
                ELSE {Opened(Top.at).meta} :
         dst' = Sealed(Top.at, m)
    /\ stack' = Front(stack)
    /\ Silent /\ Works /\ Stepped /\ UNCHANGED doing

-----------------------------------------------------------------------------
(* The content of a file, for all commands: _sync_file(), copy_file_at() *)

\* What may stand where the file is to go.
Accepts(p) == CASE op.kind = "sync" -> ~IsDir(dst, p)
                [] op.kind = "copy" -> p \notin DOMAIN dst \/ IsA("file", dst, p)
                [] OTHER            -> ~IsDir(dst, p)

CopyOpen ==
    /\ doing.stage = "open"
    /\ LET p == doing.path IN
         IF ~Accepts(p) \/ ~Found("file", p) \/ IsDir(dst, doing.name)
           THEN doing' = Nothing /\ Noted(p) /\ UNCHANGED dst
           ELSE /\ doing' = [doing EXCEPT !.stage = "write", !.data = src[p].data]
                /\ dst' = Put(dst, doing.name, Partial)
                /\ Silent
    /\ Works /\ Stepped /\ UNCHANGED stack

\* Mutant: the file gets the time it has when it has been read.
WrittenLate(d) ==
    File(d, IF Found("file", doing.path) THEN src[doing.path].time ELSE doing.st.time, doing.st.meta)

\* The content there was when it was opened, or that of the time it is read,
\* under the time and the mode of the lstat.
Written(d) == File(d, doing.st.time, doing.st.meta)

CopyWrite ==
    /\ doing.stage = "write"
    /\ \E d \in {doing.data, Current} \ {"none"} :
         dst' = Put(IF doing.name = doing.path THEN dst ELSE Without(dst, {doing.name}),
                    doing.path, Written(d))
    /\ doing' = Nothing
    /\ Silent /\ Works /\ Stepped /\ UNCHANGED stack

\* The temporary is removed; a file that was written in place is left as it is.
CopyWriteFails ==
    /\ doing.stage = "write"
    /\ dst' = IF doing.name = doing.path THEN dst ELSE Without(dst, {doing.name})
    /\ doing' = Nothing
    /\ Noted(doing.path) /\ Fault /\ Stepped /\ UNCHANGED stack

-----------------------------------------------------------------------------
(* sync: _prune() *)

\* Mutant: what could not be transferred is pruned like anything else.
OrphansUnskipped ==
    {q \in DOMAIN dst : q \notin seen /\ Above(q) \subseteq seen}

\* Mutant: no directory that both sides have is descended into.
OrphansOnTop == {q \in DOMAIN dst : q \notin seen \union skipped /\ Len(q) = 1}

\* _collect_extras_at()
Orphans == {q \in DOMAIN dst : /\ q \notin seen /\ Above(q) \subseteq seen
                               /\ LevelsOf(q) \intersect skipped = {}}

Prunes == op.delete /\ ~blind

MirrorEnd ==
    /\ pc = "mirror" /\ stack = <<>>
    /\ IF Prunes THEN /\ pc' = "prune" /\ targets' = Orphans
                      /\ UNCHANGED <<stack, doing, outcome>>
       ELSE End(Verdict)
    /\ Silent /\ UNCHANGED <<trees, sealed, op, history, bounds>>

\* _remove_extras_at()
PruneNext ==
    /\ pc = "prune"
    /\ \E p \in targets :
         /\ IsFirst(p, targets)
         /\ targets' = targets \ {p}
         /\ \/ dst' = Drop(dst, p) /\ Silent /\ Works
            \/ dst' \in Remnants(dst, p) /\ Noted(p) /\ Fault
    /\ UNCHANGED <<src, sealed, op, walk, outcome, history, runs, edits>>

PruneEnd ==
    /\ pc = "prune" /\ targets = {}
    /\ End(Verdict)
    /\ Silent /\ UNCHANGED <<trees, sealed, op, history, bounds>>

-----------------------------------------------------------------------------
(* copy: copy_tree_at() *)

Merges == op.kind = "copy"

\* copy, and a move when rename(2) answers EXDEV: the destination of a move is
\* a name of its own, which mkdir takes only if it is free.
StartCopy ==
    \E o \in Operations :
        /\ o.kind \in {"copy", "move"} /\ ~o.rename /\ Begin(o)
        /\ o.kind = "move" => dst = EmptyTree
        /\ pc' = "copy" /\ doing' = Nothing /\ targets' = {}
        /\ seen' = {} /\ blind' = FALSE
        /\ IF <<>> \in sealed
             THEN stack' = <<Opened(<<>>)>> /\ skipped' = {<<>>} /\ failed' = {<<>>}
             ELSE stack' = <<Listed(<<>>)>> /\ skipped' = {} /\ failed' = {}
        /\ UNCHANGED <<trees, outcome>>

\* rename(2) within a device: onto a name that is free, or not at all.
Rename ==
    \E o \in Operations :
        /\ o.kind = "move" /\ o.rename /\ Begin(o)
        /\ IF dst = EmptyTree THEN src' = EmptyTree /\ dst' = src /\ End("ok")
           ELSE UNCHANGED trees /\ End("failed")
        /\ seen' = {} /\ skipped' = {} /\ failed' = {} /\ blind' = FALSE

CopyGone(p) ==
    /\ Entry("copy", p) /\ ~There(p)
    /\ stack' = LessName(p) /\ Noted(p)
    /\ Works /\ Stepped /\ UNCHANGED <<dst, doing>>

CopySpecial(p) ==
    /\ Entry("copy", p) /\ Found("special", p)
    /\ stack' = LessName(p) /\ skipped' = skipped \union {p}
    /\ Works /\ Stepped /\ UNCHANGED <<dst, doing, seen, failed, blind>>

\* copy_symlink_at(): merging, a name that is taken is unlinked first.
CopyLink(p) ==
    /\ Entry("copy", p) /\ Found("link", p)
    /\ stack' = LessName(p)
    /\ IF p \in DOMAIN dst /\ (~Merges \/ IsDir(dst, p))
         THEN UNCHANGED dst /\ Noted(p) /\ Works
         ELSE \/ dst' = Put(dst, p, src[p]) /\ Silent /\ Works
              \/ dst' \in {dst, Without(dst, {p})} /\ Noted(p) /\ Fault
    /\ Stepped /\ UNCHANGED doing

\* The directory is made before the source's is opened.
CopyDir(p) ==
    /\ Entry("copy", p) /\ Found("dir", p)
    /\ LET taken == p \in DOMAIN dst
           made  == IF taken THEN dst ELSE Put(dst, p, Dir(Private))
       IN  \/ /\ dst' = made
              /\ IF (taken /\ ~Merges) \/ ~CanOpen(Top, p) \/ ~IsDir(made, p)
                   THEN stack' = LessName(p) /\ Noted(p)
                   ELSE stack' = Append(LessName(p), Listed(p)) /\ Silent
              /\ Works
           \/ /\ ~taken /\ Fault
              /\ UNCHANGED dst /\ stack' = LessName(p) /\ Noted(p)
    /\ Stepped /\ UNCHANGED doing

\* A merge writes a temporary, a move the file itself.
CopyFile(p) ==
    /\ Entry("copy", p) /\ Found("file", p)
    /\ stack' = LessName(p)
    /\ doing' = At(p, "open", IF Merges THEN TempOf(p) ELSE p)
    /\ Silent /\ Works /\ Stepped /\ UNCHANGED dst

\* The metadata are those the directory had when it was come to.
CopyUp ==
    /\ pc = "copy" /\ doing = Nothing /\ stack # <<>> /\ Top.names = {}
    /\ dst' = Sealed(Top.at, Top.meta) /\ stack' = Front(stack)
    /\ Silent /\ Works /\ Stepped /\ UNCHANGED doing

\* Mutant: what is left out by design does not keep the source.
ClearsAfterSkips == op.kind = "move" /\ failed = {}

\* _move_pinned(): the source goes only if nothing of it was left behind.
Clears == op.kind = "move" /\ failed = {} /\ skipped = {}

CopyEnd ==
    /\ pc = "copy" /\ stack = <<>>
    /\ IF Clears THEN /\ pc' = "clear" /\ stack' = <<Listed(<<>>)>>
                      /\ UNCHANGED <<doing, targets, outcome>>
       ELSE End(IF op.kind = "move" /\ skipped # {} THEN "failed" ELSE Verdict)
    /\ Silent /\ UNCHANGED <<trees, sealed, op, history, bounds>>

-----------------------------------------------------------------------------
(* copy --move: rmtree_at() of the source *)

ClearGone(p) ==
    /\ Entry("clear", p) /\ ~There(p)
    /\ stack' = LessName(p)
    /\ Silent /\ Works /\ Stepped /\ UNCHANGED <<dst, doing>>

ClearFile(p) ==
    /\ Entry("clear", p) /\ There(p) /\ ~IsDir(src, p)
    /\ src' = Without(src, {p}) /\ stack' = LessName(p)
    /\ Silent /\ UNCHANGED <<dst, sealed, op, pc, doing, targets, outcome, history, bounds>>

ClearDown(p) ==
    /\ Entry("clear", p) /\ CanOpen(Top, p)
    /\ stack' = Append(LessName(p), Listed(p))
    /\ Silent /\ Works /\ Stepped /\ UNCHANGED <<dst, doing>>

\* The first entry that resists ends it.
ClearFails(p) ==
    /\ Entry("clear", p) /\ There(p)
    /\ IF IsDir(src, p) /\ p \in sealed THEN Works ELSE Fault
    /\ End("failed")
    /\ Silent /\ UNCHANGED <<trees, sealed, op, history, runs, edits>>

\* rmdir() of what has been emptied, by name, and the end at the first error.
ClearUp ==
    /\ pc = "clear" /\ Top.names = {}
    /\ LET p == Top.at IN
         IF Top.gone \/ Kids(src, p) # {}
           THEN End("failed") /\ UNCHANGED src
           ELSE /\ src' = Without(src, {p})
                /\ IF p = <<>> THEN End("ok")
                   ELSE stack' = Front(stack) /\ UNCHANGED <<pc, doing, targets, outcome>>
    /\ Silent /\ UNCHANGED <<dst, sealed, op, history, bounds>>

-----------------------------------------------------------------------------
(* The owner of the source, and the end of a process. *)

Touch(S) ==
    /\ edits < MaxEdits /\ edits' = edits + 1
    /\ stable' = stable \ S /\ ever' = ever \union DOMAIN src' /\ UNCHANGED was
    /\ UNCHANGED <<dst, op, pc, doing, report, targets, outcome, runs, faults>>

EditTime   == edits + 2
Stamped(e) == IF e.kind = "file" THEN [e EXCEPT !.time = EditTime] ELSE e

EditFile(p) ==
    /\ IsA("file", src, p)
    /\ \E d \in Contents \ {src[p].data} :
         src' = [src EXCEPT ![p].data = d, ![p].time = EditTime]
    /\ Touch({p}) /\ UNCHANGED <<sealed, stack>>

EditMeta(p) ==
    /\ p \in DOMAIN src /\ src[p].kind \in {"file", "dir"}
    /\ \E m \in Metas \ {src[p].meta} : src' = [src EXCEPT ![p].meta = m]
    /\ Touch({p}) /\ UNCHANGED <<sealed, stack>>

\* A directory that a walk has open is none it can reach anything through.
Detached(p) == [i \in DOMAIN stack |-> [stack[i] EXCEPT !.gone = @ \/ IsPrefix(p, stack[i].at)]]

EditRemove(p) ==
    /\ p \in DOMAIN src
    /\ src' = Drop(src, p) /\ stack' = Detached(p)
    /\ Touch({p} \union Below(src, p)) /\ UNCHANGED sealed

\* Something new, or something else in the place of what there was.
EditCreate(p) ==
    /\ IsDir(src, Front(p))
    /\ \E e \in Fresh : src' = Put(Drop(src, p), p, Stamped(e))
    /\ stack' = Detached(p)
    /\ Touch({p} \union Below(src, p)) /\ UNCHANGED sealed

\* Directories become readable, or stop being so.
EditSeal ==
    /\ \E s \in Sealings \ {sealed} : sealed' = s
    /\ UNCHANGED <<src, stack>> /\ Touch({})

Crash ==
    /\ pc # "idle" /\ End("killed")
    /\ UNCHANGED <<trees, sealed, op, report, history, bounds>>

Over == pc = "idle" /\ runs = MaxRuns /\ UNCHANGED vars

Sync == StartSync \/ CollectDown \/ CollectUp \/ CollectEnd
        \/ \E p \in DOMAIN src \union seen :
             MirrorGone(p) \/ MirrorSpecial(p) \/ MirrorDir(p) \/ MirrorLink(p) \/ MirrorFile(p)
        \/ Check \/ MirrorDown \/ MirrorUp \/ MirrorEnd \/ PruneNext \/ PruneEnd
Copy == StartCopy \/ Rename
        \/ \E p \in DOMAIN src \union ever :
             CopyGone(p) \/ CopySpecial(p) \/ CopyLink(p) \/ CopyDir(p) \/ CopyFile(p)
             \/ ClearGone(p) \/ ClearFile(p) \/ ClearDown(p) \/ ClearFails(p)
        \/ CopyUp \/ CopyEnd \/ ClearUp
Content == CopyOpen \/ CopyWrite \/ CopyWriteFails
Edit == EditSeal \/ \E p \in Paths : EditFile(p) \/ EditMeta(p) \/ EditRemove(p) \/ EditCreate(p)

Next == Sync \/ Copy \/ Content \/ Edit \/ Crash \/ Over

Spec == Init /\ [][Next]_vars

-----------------------------------------------------------------------------
(* Properties *)

\* A transfer that reports success has carried over whatever of the source
\* stood there all along, but the special files: nothing was passed over by a
\* listing, an early return, a comparison of times or a pruning.
SuccessCarries ==
    pc = "idle" /\ outcome = "ok" =>
        \A p \in stable : was[p].kind # "special" =>
            p \in DOMAIN dst /\ SameAs(dst[p], was[p])

\* What a later sync will take for up to date is up to date: no transfer, torn
\* by edits or killed, leaves a file with the time of one it does not equal.
QuickCheckSound ==
    \A p \in DOMAIN src \intersect DOMAIN dst :
        IsA("file", src, p) /\ IsA("file", dst, p) /\ dst[p].time = src[p].time =>
            dst[p].data = src[p].data

\* Nothing of the destination goes whose counterpart has been in the source
\* all along, unless it is being reported: not with an unreadable source, not
\* with a source that changes under the two passes.
SparesCounterparts ==
    [][\A p \in DOMAIN dst \ DOMAIN dst' : p \in stable => p \in skipped']_vars

\* After a sync --delete that reports success the destination has nothing the
\* source never had meanwhile, the temporaries of killed runs included, but
\* next to a special file.
SuccessPrunes ==
    pc = "idle" /\ outcome = "ok" /\ op.delete =>
        \A p \in DOMAIN dst : p \in ever \/ LevelsOf(p) \intersect skipped # {}

\* A move never removes the only copy of what nobody else has touched, whatever
\* its copy left out, wherever it fails or dies.
MoveLosesNothing ==
    op.kind = "move" =>
        \A p \in stable : p \in DOMAIN src \/ (p \in DOMAIN dst /\ SameAs(dst[p], was[p]))

=============================================================================
