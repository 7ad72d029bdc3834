---------------------------- MODULE ContainerStore ----------------------------
(***************************************************************************)
(* containers/<name>/ on disk and the commands that create, replace, move, *)
(* read and delete it: install, reset, remove, rename, restore, backup and *)
(* the start of login.  A container directory holds the rootfs, the        *)
(* manifest and, while an install is under way, the marker                 *)
(* .install-incomplete.  Every command can die between any two of its      *)
(* steps, a removal of a directory tree included.                          *)
(*                                                                         *)
(* `content` is a history variable: the container a command has reported   *)
(* finished under the name, until a command sets out to delete it.         *)
(***************************************************************************)
EXTENDS Naturals, FiniteSets

CONSTANTS
    Procs,
    Names,          \* container names; rename locks the smaller first
    Containers,     \* identities of finished containers
    None,           \* no container, no job
    Commands,       \* the commands in use (see CommandNames)
    Features,       \* what else happens: "fail", "crash"
    Piecemeal       \* whether removing a tree takes several steps

CommandNames == {"install", "reset", "remove", "rename", "restore", "backup", "login"}

ASSUME StoreAssumption ==
    /\ Names \subseteq Nat
    /\ None \notin Containers
    /\ Commands \subseteq CommandNames
    /\ Features \subseteq {"fail", "crash"}
    /\ Piecemeal \in BOOLEAN

VARIABLES
    tree,       \* tree[n]: what is in containers/<n>
    content,    \* content[n]: the finished container there, or None
    held,       \* held[p][n]: how p holds the lock of n
    job,        \* job[p]: the command p runs, its name and, for rename, the new name
    pc

vars == <<tree, content, held, job, pc>>

Tree == [marker : BOOLEAN, manifest : {"none", "torn", "whole"},
         rootfs : {"none", "partial", "whole"}]

Absent == [marker |-> FALSE, manifest |-> "none", rootfs |-> "none"]

Jobs == [command : CommandNames, name : Names, target : Names]

Steps == {"idle", "lock", "lockSecond", "check", "wipe", "mark", "mkroot", "extract",
          "manifest", "finish", "cleanup", "clear", "remove", "move", "restoreCheck",
          "restore", "restoreRest", "restoreManifest", "restoreFinish", "open", "read"}

TypeOK ==
    /\ tree \in [Names -> Tree]
    /\ content \in [Names -> Containers \union {None}]
    /\ held \in [Procs -> [Names -> {"none", "shared", "exclusive"}]]
    /\ job \in [Procs -> Jobs \union {None}]
    /\ pc \in [Procs -> Steps]

Init ==
    /\ tree = [n \in Names |-> Absent]
    /\ content = [n \in Names |-> None]
    /\ held = [p \in Procs |-> [n \in Names |-> "none"]]
    /\ job = [p \in Procs |-> None]
    /\ pc = [p \in Procs |-> "idle"]

-------------------------------------------------------------------------------
Goto(p, step) == pc' = [pc EXCEPT ![p] = step]

name(p) == job[p].name
Set(n, field, value) ==
    tree' = [tree EXCEPT ![n] = [@ EXCEPT ![field] = value]]

\* Mutant: the list of locks is dropped, not emptied.
EndUntyped(p) ==
    /\ held' = [held EXCEPT ![p] = None]
    /\ job' = [job EXCEPT ![p] = None]
    /\ Goto(p, "idle")

\* The command is over, one way or the other, and its locks are released.
End(p) ==
    /\ held' = [held EXCEPT ![p] = [n \in Names |-> "none"]]
    /\ job' = [job EXCEPT ![p] = None]
    /\ Goto(p, "idle")

\* What a removal of the tree t can have left after its next entry.
OneEntryLess(t) ==
    IF Piecemeal
    THEN {u \in Tree :
            \/ t.marker /\ u = [t EXCEPT !.marker = FALSE]
            \/ t.manifest # "none" /\ u = [t EXCEPT !.manifest = "none"]
            \/ t.rootfs = "whole" /\ u = [t EXCEPT !.rootfs = "partial"]
            \/ t.rootfs = "partial" /\ u = [t EXCEPT !.rootfs = "none"]}
    ELSE {Absent}

Fails == "fail" \in Features

-------------------------------------------------------------------------------
(* Starting and locking                                                    *)

Installed(n) == tree[n].rootfs # "none"

\* What a command looks at before it asks for its lock.
Admits(c, n, m) ==
    CASE c = "reset"  -> Installed(n) /\ tree[n].manifest = "whole"
      [] c = "remove" -> Installed(n)
      [] c = "backup" -> Installed(n)
      [] c = "rename" -> Installed(n) /\ n # m /\ tree[m] = Absent
      [] OTHER        -> TRUE

Start(p) ==
    /\ pc[p] = "idle"
    /\ \E c \in Commands, n \in Names, m \in Names :
          /\ Admits(c, n, m)
          /\ c # "rename" => m = n
          /\ job' = [job EXCEPT ![p] = [command |-> c, name |-> n, target |-> m]]
    /\ Goto(p, "lock")
    /\ UNCHANGED <<tree, content, held>>

Mode(p) == IF job[p].command \in {"backup", "login"} THEN "shared" ELSE "exclusive"

\* The first step a command takes under its lock.
FirstStep(p) ==
    CASE job[p].command = "install" -> "check"
      [] job[p].command = "reset"   -> "clear"
      [] job[p].command = "remove"  -> "remove"
      [] job[p].command = "rename"  -> "move"
      [] job[p].command = "restore" -> "restoreCheck"
      [] job[p].command = "backup"  -> "read"
      [] job[p].command = "login"   -> "open"

\* ContainerLock, whose implementation FlockLock models.
Grantable(n, p, mode) ==
    \A q \in Procs \ {p} :
        held[q][n] = "none" \/ (held[q][n] = "shared" /\ mode = "shared")

\* Mutant: remove takes its lock shared.
LockOrRefuseShared(p, n, step) ==
    LET mode == IF job[p].command = "remove" THEN "shared" ELSE Mode(p)
    IN  \/ /\ Grantable(n, p, mode)
           /\ held' = [held EXCEPT ![p][n] = mode]
           /\ Goto(p, step)
           /\ UNCHANGED <<tree, content, job>>
        \/ ~ Grantable(n, p, mode) /\ End(p) /\ UNCHANGED <<tree, content>>

\* acquire() never waits: a lock that is taken ends the command.
LockOrRefuse(p, n, step) ==
    \/ /\ Grantable(n, p, Mode(p))
       /\ held' = [held EXCEPT ![p][n] = Mode(p)]
       /\ Goto(p, step)
       /\ UNCHANGED <<tree, content, job>>
    \/ ~ Grantable(n, p, Mode(p)) /\ End(p) /\ UNCHANGED <<tree, content>>

Smaller(p) == IF job[p].target < name(p) THEN job[p].target ELSE name(p)
Larger(p)  == IF job[p].target < name(p) THEN name(p) ELSE job[p].target

Lock(p) ==
    /\ pc[p] = "lock"
    /\ LockOrRefuse(p, Smaller(p),
                    IF job[p].command = "rename" THEN "lockSecond" ELSE FirstStep(p))

LockSecond(p) ==
    /\ pc[p] = "lockSecond"
    /\ LockOrRefuse(p, Larger(p), FirstStep(p))

-------------------------------------------------------------------------------
(* install                                                                 *)

\* Mutant: whatever is in the way is wiped.
CheckUnmarked(p) ==
    /\ pc[p] = "check"
    /\ Goto(p, IF Installed(name(p)) THEN "wipe" ELSE "mark")
    /\ UNCHANGED <<tree, content, held, job>>

\* A rootfs with the marker is a leftover to be wiped, one without it a container.
Check(p) ==
    /\ pc[p] = "check"
    /\ \/ /\ Installed(name(p)) /\ ~ tree[name(p)].marker
          /\ End(p)
       \/ /\ Installed(name(p)) => tree[name(p)].marker
          /\ Goto(p, IF Installed(name(p)) THEN "wipe" ELSE "mark")
          /\ UNCHANGED <<held, job>>
    /\ UNCHANGED <<tree, content>>

\* shutil.rmtree(container_path), before an install or after one that failed; an
\* install wipes a finished container when the marker says it is none.
Rmtree(p) ==
    /\ pc[p] \in {"wipe", "cleanup"}
    /\ \/ /\ tree[name(p)] # Absent
          /\ \E t \in OneEntryLess(tree[name(p)]) : tree' = [tree EXCEPT ![name(p)] = t]
          /\ content' = [content EXCEPT ![name(p)] = None]
          /\ UNCHANGED <<held, job, pc>>
       \/ /\ tree[name(p)] = Absent
          /\ IF pc[p] = "wipe" THEN Goto(p, "mark") /\ UNCHANGED <<held, job>> ELSE End(p)
          /\ UNCHANGED <<tree, content>>

RmtreeFails(p) ==
    /\ Fails
    /\ pc[p] \in {"wipe", "cleanup"}
    /\ End(p)
    /\ UNCHANGED <<tree, content>>

\* Mutant: the marker is not written.
MarkNot(p) ==
    /\ pc[p] = "mark"
    /\ Goto(p, "mkroot")
    /\ UNCHANGED <<tree, content, held, job>>

\* _write_incomplete_marker, before the rootfs exists ...
Mark(p) ==
    /\ pc[p] = "mark"
    /\ Set(name(p), "marker", TRUE)
    /\ Goto(p, "mkroot")
    /\ UNCHANGED <<content, held, job>>

\* ... open_container_rootfs(create=True), whose refusal leaves the marker behind.
MakeRootfs(p) ==
    /\ pc[p] = "mkroot"
    /\ \/ /\ Set(name(p), "rootfs", "partial")
          /\ Goto(p, "extract")
          /\ UNCHANGED <<held, job>>
       \/ /\ Fails
          /\ End(p)
          /\ UNCHANGED tree
    /\ UNCHANGED content

\* pull_image or install_from_local_file; a plain archive has no manifest to write.
Extract(p) ==
    /\ pc[p] = "extract"
    /\ Set(name(p), "rootfs", "whole")
    /\ \E step \in {"manifest", "finish"} : Goto(p, step)
    /\ UNCHANGED <<content, held, job>>

\* atomic_write of manifest.json; an OSError there ends the command and no more.
WriteManifest(p) ==
    /\ pc[p] = "manifest"
    /\ \/ /\ Set(name(p), "manifest", "whole")
          /\ Goto(p, "finish")
          /\ UNCHANGED <<held, job>>
       \/ /\ Fails
          /\ End(p)
          /\ UNCHANGED tree
    /\ UNCHANGED content

\* Ctrl+C, a failed download, a bad archive: _cleanup.
Abort(p) ==
    /\ Fails
    /\ pc[p] \in {"extract", "manifest"}
    /\ Goto(p, "cleanup")
    /\ UNCHANGED <<tree, content, held, job>>

\* Some container that is not in the catalog.
Fresh == {c \in Containers : \A n \in Names : content[n] # c}

\* The marker goes as the very last step.
Finish(p) ==
    /\ pc[p] = "finish"
    /\ Set(name(p), "marker", FALSE)
    /\ \E c \in Fresh : content' = [content EXCEPT ![name(p)] = c]
    /\ End(p)

-------------------------------------------------------------------------------
(* reset, remove, rename                                                   *)

\* reset: _remove_path(rootfs_dir), swept again when it fails, then the install.
Clear(p) ==
    /\ pc[p] = "clear"
    /\ \/ /\ Installed(name(p))
          /\ content' = [content EXCEPT ![name(p)] = None]
          /\ \E left \in IF Piecemeal /\ tree[name(p)].rootfs = "whole"
                         THEN {"partial"} ELSE {"none"} :
                Set(name(p), "rootfs", left)
          /\ UNCHANGED pc
       \/ /\ ~ Installed(name(p)) \/ Fails
          /\ Goto(p, "check")
          /\ UNCHANGED <<tree, content>>
    /\ UNCHANGED <<held, job>>

\* remove: _remove_path goes on past what it cannot delete, and then gives up.
Remove(p) ==
    /\ pc[p] = "remove"
    /\ \/ /\ tree[name(p)] # Absent
          /\ \E t \in OneEntryLess(tree[name(p)]) : tree' = [tree EXCEPT ![name(p)] = t]
          /\ content' = [content EXCEPT ![name(p)] = None]
          /\ UNCHANGED <<held, job, pc>>
       \/ /\ tree[name(p)] = Absent \/ Fails
          /\ End(p)
          /\ UNCHANGED <<tree, content>>

\* Mutant: the new name is taken to be free, as it was before the locks were had.
MoveReplacing(p) ==
    /\ pc[p] = "move"
    /\ LET n == name(p)
           m == job[p].target
       IN  /\ tree' = [tree EXCEPT ![n] = Absent, ![m] = tree[n]]
           /\ content' = [content EXCEPT ![n] = None, ![m] = content[n]]
    /\ End(p)

\* os.rename(orig_dir, new_dir), refused when there is nothing to move any more or
\* the new name has been taken meanwhile.
Move(p) ==
    /\ pc[p] = "move"
    /\ LET n == name(p)
           m == job[p].target
       IN  IF tree[n] # Absent /\ tree[m] = Absent
           THEN /\ tree' = [tree EXCEPT ![n] = Absent, ![m] = tree[n]]
                /\ content' = [content EXCEPT ![n] = None, ![m] = content[n]]
           ELSE UNCHANGED <<tree, content>>
    /\ End(p)

-------------------------------------------------------------------------------
(* restore                                                                 *)

RestoreCheck(p) ==
    /\ pc[p] = "restoreCheck"
    /\ IF Installed(name(p)) THEN End(p) ELSE Goto(p, "restore") /\ UNCHANGED <<held, job>>
    /\ UNCHANGED <<tree, content>>

\* The first member that will produce content; an archive without one ends here.
RestoreFirst(p) ==
    /\ pc[p] = "restore"
    /\ \/ /\ Set(name(p), "rootfs", "partial")
          /\ Goto(p, "restoreRest")
          /\ UNCHANGED <<held, job>>
       \/ End(p) /\ UNCHANGED tree
    /\ UNCHANGED content

\* The other members; some may have failed, and then what there is stays.
RestoreRest(p) ==
    /\ pc[p] = "restoreRest"
    /\ \/ Set(name(p), "rootfs", "whole")
       \/ Fails /\ UNCHANGED tree
    /\ \E step \in {"restoreManifest", "restoreFinish"} : Goto(p, step)
    /\ UNCHANGED <<content, held, job>>

\* A damaged archive, Ctrl+C: the command ends where it is.
RestoreFails(p) ==
    /\ Fails
    /\ pc[p] = "restoreRest"
    /\ End(p)
    /\ UNCHANGED <<tree, content>>

\* _write_manifest writes the file in place.
RestoreManifest(p) ==
    /\ pc[p] = "restoreManifest"
    /\ \/ /\ tree[name(p)].manifest # "torn"
          /\ Set(name(p), "manifest", "torn")
          /\ UNCHANGED pc
       \/ /\ tree[name(p)].manifest = "torn"
          /\ Set(name(p), "manifest", "whole")
          /\ Goto(p, "restoreFinish")
    /\ UNCHANGED <<content, held, job>>

RestoreFinish(p) ==
    /\ pc[p] = "restoreFinish"
    /\ IF tree[name(p)].rootfs = "whole"
       THEN \E c \in Fresh : content' = [content EXCEPT ![name(p)] = c]
       ELSE UNCHANGED content
    /\ End(p)
    /\ UNCHANGED tree

-------------------------------------------------------------------------------
(* backup and login                                                        *)

\* login looks for the rootfs once it has the lock.
OpenRootfs(p) ==
    /\ pc[p] = "open"
    /\ IF Installed(name(p)) THEN Goto(p, "read") /\ UNCHANGED <<held, job>> ELSE End(p)
    /\ UNCHANGED <<tree, content>>

\* The archive is written, the session is over.
Read(p) ==
    /\ pc[p] = "read"
    /\ End(p)
    /\ UNCHANGED <<tree, content>>

\* SIGKILL or power loss between any two steps.
Crash(p) ==
    /\ "crash" \in Features
    /\ pc[p] # "idle"
    /\ End(p)
    /\ UNCHANGED <<tree, content>>

Next ==
    \E p \in Procs :
        \/ Start(p) \/ Lock(p) \/ LockSecond(p)
        \/ Check(p) \/ Rmtree(p) \/ RmtreeFails(p) \/ Mark(p) \/ MakeRootfs(p) \/ Extract(p)
        \/ WriteManifest(p) \/ Abort(p) \/ Finish(p)
        \/ Clear(p) \/ Remove(p) \/ Move(p)
        \/ RestoreCheck(p) \/ RestoreFirst(p) \/ RestoreRest(p) \/ RestoreFails(p)
        \/ RestoreManifest(p) \/ RestoreFinish(p)
        \/ OpenRootfs(p) \/ Read(p) \/ Crash(p)

Spec == Init /\ [][Next]_vars

-------------------------------------------------------------------------------
\* A finished container goes only when somebody removes, resets or renames it: an
\* install, interrupted or not, never takes one for a leftover of its own ("safe to
\* wipe and redo", container_incomplete_marker).
NothingLost ==
    [][\A n \in Names :
          content[n] # None /\ content'[n] = None =>
              \E p \in Procs : pc[p] \in {"clear", "remove", "move"} /\ name(p) = n]_vars

\* A rootfs nobody is working on has the marker exactly if no command finished it:
\* "without it, 'already exists' checks cannot distinguish a finished container from
\* an aborted one" (container_incomplete_marker).
MarkerTells ==
    \A n \in Names :
        (\A p \in Procs : held[p][n] # "exclusive") /\ Installed(n)
            => (tree[n].marker <=> content[n] = None)

\* Nothing changes in a container while it is backed up or logged in to: the shared
\* lock keeps every command that writes out, rename's two names included.
ReadersUndisturbed ==
    [][\A p \in Procs : pc[p] = "read" => tree'[name(p)] = tree[name(p)]]_vars

\* The commands together keep a catalog of finished containers.
Catalog == INSTANCE ContainerCatalog

RefinesCatalog == Catalog!Spec
===============================================================================
