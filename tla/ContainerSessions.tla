--------------------------- MODULE ContainerSessions ---------------------------
(***************************************************************************)
(* The sessions of one container: `login` and `run` (commands/login), the  *)
(* session count of helpers/session.py, the namespace holder of            *)
(* helpers/namespace.py, the mounts of helpers/mount_manager.py, and the   *)
(* `kill` and `unmount` commands that tear them all down.                  *)
(*                                                                         *)
(* Two locks serialise the commands: the container lock, which sessions    *)
(* share and `unmount` takes exclusively, and sessions.lock, an exclusive  *)
(* flock around every change of the count.  /proc decides what the count   *)
(* is worth: whoever changes it first asks whether any process has the     *)
(* rootfs as its root.  A session's own process enters the rootfs only     *)
(* after it has released sessions.lock, and `kill` waits for neither lock. *)
(***************************************************************************)
EXTENDS Naturals, FiniteSets

CONSTANTS
    Procs,      \* processes running commands of the program
    Modes,      \* session modes in use, among "host", "plain" and "maxiso"
    Features,   \* what else happens (see FeatureNames)
    MaxCount,   \* bound: sessions counted at once, crashed ones included
    Nobody      \* no process

FeatureNames ==
    {"fail",        \* creating the holder, or mounting, fails
     "survivors",   \* processes outlive SIGKILL
     "background",  \* commands leave processes behind in the rootfs
     "chrootcmd",   \* --get-chroot-cmd: a session that runs nothing
     "detach",      \* run --detach
     "sweep",       \* a signal relayed to the guest leaves it alive
     "kill", "unmount",
     "crash"}       \* a command is killed at any point

Holder == "holder"  \* sessions.lock held by the parked holder alone

ASSUME SessionsAssumption ==
    /\ Modes \subseteq {"host", "plain", "maxiso"}
    /\ Features \subseteq FeatureNames
    /\ MaxCount \in Nat
    /\ Nobody \notin Procs /\ Holder \notin Procs

VARIABLES
    pc,             \* pc[p]: what process p does
    mode,           \* mode[p]: the mode of p's session, or "none"
    containerLock,  \* containerLock[p]: how p holds the container lock
    sessionLock,    \* who holds sessions.lock: a process, the holder, or Nobody
    count,          \* the integer in data/<name>/sessions
    options,        \* the mode recorded in mount_opts.json, or "none"
    isolation,      \* isolation.mode: "none", "host" or "namespace"
    holder,         \* the live holder: "none", "plain" or "maxiso" (chrooted)
    creator,        \* the process whose present session forked the holder
    bound,          \* the processes whose Holder object names the live holder
    sawHolder,      \* the processes whose `kill` read a live holder at its start
    inherited,      \* whether the holder keeps the container lock of a dead creator
    mounted,        \* where the rootfs has its mounts: "host", "ns"
    starting,       \* children of `run --detach` yet to enter: <<p, "host" | "ns">>
    inside          \* processes in the rootfs: <<p, "main" | "left" | "detached">>

vars == <<pc, mode, containerLock, sessionLock, count, options, isolation, holder,
          creator, bound, sawHolder, inherited, mounted, starting, inside>>

locks   == <<containerLock, sessionLock>>
record  == <<count, options, isolation>>
holding == <<holder, creator, bound, inherited, starting>>
views   == <<mode, sawHolder>>
guests  == <<mounted, inside>>

SessionSteps == {"check", "count", "first", "remount", "mount", "join", "launch",
                 "running", "sweep", "exit", "reap", "teardown", "leave"}
KillSteps    == {"kill", "killProcs", "killReset", "killState"}
UnmountSteps == {"stopProcs", "unmountReset", "unmountAll"}

GuestKinds == {"main", "left", "detached"}

TypeOK ==
    /\ pc \in [Procs -> {"idle"} \union SessionSteps \union KillSteps \union UnmountSteps]
    /\ mode \in [Procs -> Modes \union {"none"}]
    /\ containerLock \in [Procs -> {"none", "shared", "exclusive"}]
    /\ sessionLock \in Procs \union {Nobody, Holder}
    /\ count \in Nat
    /\ options \in {"none", "host", "plain", "maxiso"}
    /\ isolation \in {"none", "host", "namespace"}
    /\ holder \in {"none", "plain", "maxiso"}
    /\ creator \in Procs \union {Nobody}
    /\ bound \in SUBSET Procs
    /\ sawHolder \in SUBSET Procs
    /\ inherited \in BOOLEAN
    /\ mounted \in SUBSET {"host", "ns"}
    /\ starting \in SUBSET (Procs \X {"host", "ns"})
    /\ inside \in SUBSET (Procs \X GuestKinds)

Init ==
    /\ pc = [p \in Procs |-> "idle"]
    /\ mode = [p \in Procs |-> "none"]
    /\ containerLock = [p \in Procs |-> "none"]
    /\ sessionLock = Nobody
    /\ count = 0
    /\ options = "none"
    /\ isolation = "none"
    /\ holder = "none"
    /\ creator = Nobody
    /\ bound = {}
    /\ sawHolder = {}
    /\ inherited = FALSE
    /\ mounted = {}
    /\ starting = {}
    /\ inside = {}

-------------------------------------------------------------------------------
Goto(p, step) == pc' = [pc EXCEPT ![p] = step]

\* get_active_chroot_pids: a child that has not chrooted yet is not seen, and the
\* holder of a maximum-isolation session is.
ActiveWith(h) == inside # {} \/ h = "maxiso"
Active == ActiveWith(holder)

UsesNamespaces(p) == mode[p] # "host"
MountsAt(p) == IF UsesNamespaces(p) THEN "ns" ELSE "host"

\* release_holder: the holder dies, and with it the descriptors it inherited and every
\* way into its namespaces.
ReleaseHolder ==
    /\ holder' = "none"
    /\ creator' = Nobody
    /\ bound' = {}
    /\ inherited' = FALSE
    /\ starting' = {c \in starting : c[2] = "host"}

\* What sessions.lock becomes when the holder dies.
FreedSessionLock == IF sessionLock = Holder THEN Nobody ELSE sessionLock

\* Mutants of DecrementedWith: nothing keeps the count from going below zero; the file
\* is believed whatever /proc says.
DecrementedBelowZero(h) == IF ~ ActiveWith(h) THEN 0 ELSE count - 1
DecrementedOnPaper(h) == IF count = 0 THEN 0 ELSE count - 1

\* _decrement_inner: what /proc says, not one less than what the file said.
DecrementedWith(h) == IF ~ ActiveWith(h) \/ count = 0 THEN 0 ELSE count - 1
Decremented == DecrementedWith(holder)

\* What is left of the processes in the rootfs after SIGTERM and SIGKILL.
Survivors == IF "survivors" \in Features THEN SUBSET inside ELSE {{}}

\* The Holder object of p names a process that has died.
Orphaned(p) == UsesNamespaces(p) /\ p \notin bound

\* session.lock
TakeSessionLock(p) == sessionLock = Nobody /\ sessionLock' = p

\* Mutant: the lock is kept.
LeaveLocking(p) ==
    /\ UNCHANGED sessionLock
    /\ Goto(p, "leave")

\* A session leaves: it is counted out and the locks it may hold are released, with
\* flock(LOCK_UN), which also unlocks what the holder inherited.
LeaveLocked(p) ==
    /\ sessionLock' = Nobody
    /\ Goto(p, "leave")

-------------------------------------------------------------------------------
(* Logging in                                                              *)

\* command_login: the container lock, shared; an exclusive holder refuses it.
Enter(p) ==
    /\ pc[p] = "idle"
    /\ \A q \in Procs : containerLock[q] # "exclusive"
    /\ containerLock' = [containerLock EXCEPT ![p] = "shared"]
    /\ \E m \in Modes : mode' = [mode EXCEPT ![p] = m]
    /\ Goto(p, "check")
    /\ UNCHANGED <<sawHolder, sessionLock, record, holding, guests>>

\* check_isolation_conflicts, before sessions.lock is asked for.
Conflict(p) ==
    IF UsesNamespaces(p)
    THEN isolation = "host" /\ "host" \in mounted
    ELSE holder # "none" \/ isolation = "namespace"

Check(p) ==
    /\ pc[p] = "check"
    /\ \/ /\ Conflict(p)
          /\ Goto(p, "leave")
          /\ UNCHANGED isolation
       \/ /\ ~ Conflict(p)
          /\ isolation' = IF UsesNamespaces(p) /\ isolation = "host" THEN "none" ELSE isolation
          /\ Goto(p, "count")
    /\ UNCHANGED <<views, locks, count, options, holding, guests>>

\* Mutant: any count that is found is taken for a crashed session's.
IncrementAfresh(p) ==
    /\ pc[p] = "count"
    /\ TakeSessionLock(p)
    /\ count' = 1
    /\ options' = "none"
    /\ Goto(p, "first")
    /\ UNCHANGED <<views, containerLock, isolation, holding, guests>>

\* session.increment under sessions.lock: a positive count nobody in /proc backs is
\* a crashed session's, and so is its mount_opts.json.
Increment(p) ==
    /\ pc[p] = "count"
    /\ count < MaxCount
    /\ TakeSessionLock(p)
    /\ IF count > 0 /\ ~ Active
       THEN count' = 1 /\ options' = "none"
       ELSE count' = count + 1 /\ UNCHANGED options
    /\ Goto(p, IF count' = 1 THEN "first" ELSE "join")
    /\ UNCHANGED <<views, containerLock, isolation, holding, guests>>

\* The first session: acquire_holder reuses a live holder or forks one, which
\* inherits every descriptor of p, the two locks among them.
FirstHolder(p) ==
    /\ pc[p] = "first"
    /\ IF UsesNamespaces(p)
       THEN /\ isolation' = "namespace"
            /\ bound' = bound \union {p}
            /\ IF holder # "none"
               THEN UNCHANGED <<holder, creator>>
               ELSE holder' = mode[p] /\ creator' = p
       ELSE isolation' = "host" /\ UNCHANGED <<holder, creator, bound>>
    /\ Goto(p, "remount")
    /\ UNCHANGED <<views, locks, count, options, inherited, starting, guests>>

\* NamespaceError from acquire_holder, of which nothing is left: the host's view is
\* unmounted and the count taken back.
FirstHolderFails(p) ==
    /\ "fail" \in Features
    /\ pc[p] = "first"
    /\ UsesNamespaces(p)
    /\ holder = "none"
    /\ mounted' = mounted \ {"host"}
    /\ count' = Decremented
    /\ LeaveLocked(p)
    /\ UNCHANGED <<views, containerLock, options, isolation, holding, inside>>

\* unmount_all of whatever an earlier session left, before mounting afresh.
FirstUnmount(p) ==
    /\ pc[p] = "remount"
    /\ mounted' = IF Orphaned(p) THEN mounted ELSE mounted \ {MountsAt(p)}
    /\ Goto(p, "mount")
    /\ UNCHANGED <<views, locks, record, holding, inside>>

\* apply_bind_mounts, apply_special_mounts, save_mount_options; sessions.lock goes.
FirstMount(p) ==
    /\ pc[p] = "mount"
    /\ ~ Orphaned(p)
    /\ mounted' = mounted \union {MountsAt(p)}
    /\ options' = mode[p]
    /\ sessionLock' = Nobody
    /\ Goto(p, "launch")
    /\ UNCHANGED <<views, containerLock, count, isolation, holding, inside>>

\* A mount fails, as it does once `kill` has ended the holder: everything is unwound,
\* except the isolation mode of a session that has no holder.
FirstMountFails(p) ==
    /\ pc[p] = "mount"
    /\ "fail" \in Features \/ Orphaned(p)
    /\ mounted' = mounted \ {MountsAt(p)}
    /\ IF UsesNamespaces(p)
       THEN ReleaseHolder /\ isolation' = "none"
       ELSE UNCHANGED <<holding, isolation>>
    /\ count' = DecrementedWith(holder')
    /\ LeaveLocked(p)
    /\ UNCHANGED <<views, containerLock, options, inside>>

\* A session that joins: refused when the isolation differs from the record, or when
\* there is no holder of its kind to enter.
JoinRefused(p) ==
    \/ options # "none" /\ (options = "maxiso") # (mode[p] = "maxiso")
    \/ UsesNamespaces(p) /\ holder = "none"
    \/ mode[p] = "maxiso" /\ holder # "maxiso"

Join(p) ==
    /\ pc[p] = "join"
    /\ \/ /\ JoinRefused(p)
          /\ count' = Decremented
          /\ LeaveLocked(p)
          /\ UNCHANGED <<options, bound, mounted>>
       \/ /\ ~ JoinRefused(p)
          /\ mounted' = mounted \union {MountsAt(p)}
          /\ options' = mode[p]
          /\ bound' = IF UsesNamespaces(p) THEN bound \union {p} ELSE bound
          /\ sessionLock' = Nobody
          /\ Goto(p, "launch")
          /\ UNCHANGED count
    /\ UNCHANGED <<views, containerLock, isolation, holder, creator, inherited, starting,
                   inside>>

-------------------------------------------------------------------------------
(* Running                                                                 *)

\* The session's own process enters the rootfs, after the lock has been released.
Chroot(p) ==
    /\ pc[p] = "launch"
    /\ ~ Orphaned(p)
    /\ inside' = inside \union {<<p, "main">>}
    /\ Goto(p, "running")
    /\ UNCHANGED <<views, locks, record, holding, mounted>>

\* There are no namespaces to enter any more, and the command never runs.
ChrootFails(p) ==
    /\ pc[p] = "launch"
    /\ Orphaned(p)
    /\ Goto(p, "exit")
    /\ UNCHANGED <<views, locks, record, holding, guests>>

\* Mutant of PrintChrootCommand: the teardown is left to sessions that run something.
PrintChrootCommandMounted(p) ==
    /\ "chrootcmd" \in Features
    /\ pc[p] = "launch"
    /\ sessionLock = Nobody
    /\ count' = Decremented
    /\ Goto(p, "leave")
    /\ UNCHANGED <<views, locks, options, isolation, holding, guests>>

\* --get-chroot-cmd: nothing runs; the session is counted out again and, when that
\* leaves none, its teardown follows under the same lock.
PrintChrootCommand(p) ==
    /\ "chrootcmd" \in Features
    /\ pc[p] = "launch"
    /\ sessionLock = Nobody
    /\ count' = Decremented
    /\ IF Decremented = 0
       THEN /\ mounted' = mounted \ {MountsAt(p)}
            /\ options' = "none"
            /\ IF UsesNamespaces(p)
               THEN ReleaseHolder /\ isolation' = "none"
               ELSE UNCHANGED <<holding, isolation>>
       ELSE UNCHANGED <<mounted, options, isolation, holding>>
    /\ Goto(p, "leave")
    /\ UNCHANGED <<views, locks, inside>>

\* _run_detached: the child is forked and the command returns; the count stands.
Detach(p) ==
    /\ "detach" \in Features
    /\ pc[p] = "launch"
    /\ starting' = IF Orphaned(p) THEN starting ELSE starting \union {<<p, MountsAt(p)>>}
    /\ Goto(p, "leave")
    /\ UNCHANGED <<views, locks, record, holder, creator, bound, inherited, guests>>

DetachedChroot(p) ==
    /\ \E m \in {"host", "ns"} :
          /\ <<p, m>> \in starting
          /\ starting' = starting \ {<<p, m>>}
    /\ inside' = inside \union {<<p, "detached">>}
    /\ UNCHANGED <<pc, views, locks, record, holder, creator, bound, inherited, mounted>>

\* The command leaves a process behind, as a desktop session does.
LeaveBehind(p) ==
    /\ "background" \in Features
    /\ <<p, "main">> \in inside
    /\ inside' = inside \union {<<p, "left">>}
    /\ UNCHANGED <<pc, views, locks, record, holding, mounted>>

GuestExits ==
    /\ \E g \in inside : inside' = inside \ {g}
    /\ UNCHANGED <<pc, views, locks, record, holding, mounted>>

\* The wait for the foreground command ends.
Exits(p) ==
    /\ pc[p] = "running"
    /\ <<p, "main">> \notin inside
    /\ Goto(p, "exit")
    /\ UNCHANGED <<views, locks, record, holding, guests>>

\* _sweep_if_last_session: session.count, which corrects a count nobody backs ...
SweepCount(p) ==
    /\ "sweep" \in Features
    /\ pc[p] = "running"
    /\ <<p, "main">> \in inside
    /\ sessionLock = Nobody
    /\ count' = IF Active THEN count ELSE 0
    /\ count' <= 1
    /\ Goto(p, "sweep")
    /\ UNCHANGED <<views, locks, options, isolation, holding, guests>>

\* ... and then _reap_session_processes, with no lock held any more.
Sweep(p) ==
    /\ pc[p] = "sweep"
    /\ inside' \in Survivors
    /\ Goto(p, "running")
    /\ UNCHANGED <<views, locks, record, holding, mounted>>

-------------------------------------------------------------------------------
(* _exit_teardown                                                          *)

Decrement(p) ==
    /\ pc[p] = "exit"
    /\ TakeSessionLock(p)
    /\ count' = Decremented
    /\ Goto(p, "reap")
    /\ UNCHANGED <<views, containerLock, options, isolation, holding, guests>>

\* Other sessions are counted: nothing is torn down.
NotLast(p) ==
    /\ pc[p] = "reap"
    /\ count # 0
    /\ LeaveLocked(p)
    /\ UNCHANGED <<views, containerLock, record, holding, guests>>

\* Mutant: every session sweeps on its way out.
ReapUnchecked(p) ==
    /\ pc[p] = "reap"
    /\ inside' = {}
    /\ Goto(p, "teardown")
    /\ UNCHANGED <<views, locks, record, holding, mounted>>

\* _reap_session_processes spares the holder only.
Reap(p) ==
    /\ pc[p] = "reap"
    /\ count = 0
    /\ inside' = {}
    /\ Goto(p, "teardown")
    /\ UNCHANGED <<views, locks, record, holding, mounted>>

\* Some processes outlive SIGKILL: the container is left mounted for `kill`.
ReapLeavesSurvivors(p) ==
    /\ pc[p] = "reap"
    /\ count = 0
    /\ inside' \in Survivors \ {{}}
    /\ LeaveLocked(p)
    /\ UNCHANGED <<views, containerLock, record, holding, mounted>>

Teardown(p) ==
    /\ pc[p] = "teardown"
    /\ mounted' = mounted \ {MountsAt(p)}
    /\ options' = "none"
    /\ isolation' = "none"
    /\ IF UsesNamespaces(p) THEN ReleaseHolder ELSE UNCHANGED holding
    /\ LeaveLocked(p)
    /\ UNCHANGED <<views, containerLock, count, inside>>

\* The command returns and releases the container lock, the holder's copy included.
Leave(p) ==
    /\ pc[p] = "leave"
    /\ containerLock' = [containerLock EXCEPT ![p] = "none"]
    /\ creator' = IF creator = p THEN Nobody ELSE creator
    /\ bound' = bound \ {p}
    /\ mode' = [mode EXCEPT ![p] = "none"]
    /\ Goto(p, "idle")
    /\ UNCHANGED <<sawHolder, sessionLock, record, holder, inherited, starting, guests>>

-------------------------------------------------------------------------------
(* kill and unmount                                                        *)

ContainerLockFree(p) == ~ inherited /\ \A q \in Procs \ {p} : containerLock[q] = "none"

\* lock.acquire() of `kill`: taken when free, done without otherwise.
TryContainerLock(p) ==
    containerLock' = IF ContainerLockFree(p)
                     THEN [containerLock EXCEPT ![p] = "exclusive"] ELSE containerLock

\* The mounts that `kill` sees and unmounts, through the holder it read if it read one.
KillView(p) == IF p \notin sawHolder THEN {"host"} ELSE IF p \in bound THEN {"ns"} ELSE {}

\* `kill`: the holder is read once, and the mounts go first, under whatever runs.
Kill(p) ==
    /\ "kill" \in Features
    /\ pc[p] = "idle"
    /\ Active \/ holder # "none" \/ "host" \in mounted
    /\ IF holder # "none"
       THEN /\ sawHolder' = sawHolder \union {p}
            /\ bound' = bound \union {p}
            /\ mounted' = mounted \ {"ns"}
       ELSE /\ mounted' = mounted \ {"host"}
            /\ UNCHANGED <<sawHolder, bound>>
    /\ TryContainerLock(p)
    /\ Goto(p, "killProcs")
    /\ UNCHANGED <<mode, sessionLock, record, holder, creator, inherited, starting, inside>>

\* Every chrooted process is signalled, a chrooted holder among them; then the lock
\* and the mounts are tried again.
KillProcs(p) ==
    /\ pc[p] = "killProcs"
    /\ IF Active \/ mounted \intersect KillView(p) # {}
       THEN TryContainerLock(p)
       ELSE UNCHANGED containerLock
    /\ inside' \in Survivors
    /\ IF holder = "maxiso"
       THEN /\ ReleaseHolder
            /\ sessionLock' = FreedSessionLock
            /\ mounted' = mounted \ (KillView(p) \union {"ns"})
       ELSE /\ mounted' = mounted \ KillView(p)
            /\ UNCHANGED <<holding, sessionLock>>
    /\ Goto(p, "killReset")
    /\ UNCHANGED <<views, record>>

\* session.reset waits for sessions.lock.
KillReset(p) ==
    /\ pc[p] = "killReset"
    /\ sessionLock = Nobody
    /\ count' = 0
    /\ Goto(p, "killState")
    /\ UNCHANGED <<views, locks, options, isolation, holding, guests>>

\* Mount options, the holder that is alive by now where one was when `kill` began,
\* the isolation mode, and the lock if it was had.
KillState(p) ==
    /\ pc[p] = "killState"
    /\ options' = "none"
    /\ isolation' = "none"
    /\ IF p \in sawHolder
       THEN ReleaseHolder /\ sessionLock' = FreedSessionLock /\ mounted' = mounted \ {"ns"}
       ELSE UNCHANGED <<holding, sessionLock, mounted>>
    /\ sawHolder' = sawHolder \ {p}
    /\ containerLock' = [containerLock EXCEPT ![p] = "none"]
    /\ Goto(p, "idle")
    /\ UNCHANGED <<mode, count, inside>>

\* `unmount`: refused unless the container lock can be had exclusively.
Unmount(p) ==
    /\ "unmount" \in Features
    /\ pc[p] = "idle"
    /\ ContainerLockFree(p)
    /\ containerLock' = [containerLock EXCEPT ![p] = "exclusive"]
    /\ Goto(p, "stopProcs")
    /\ UNCHANGED <<views, sessionLock, record, holding, guests>>

UnmountStopProcs(p) ==
    /\ pc[p] = "stopProcs"
    /\ inside' \in Survivors
    /\ IF holder = "maxiso"
       THEN ReleaseHolder /\ sessionLock' = FreedSessionLock /\ mounted' = mounted \ {"ns"}
       ELSE UNCHANGED <<holding, sessionLock, mounted>>
    /\ Goto(p, "unmountReset")
    /\ UNCHANGED <<views, containerLock, record>>

UnmountReset(p) ==
    /\ pc[p] = "unmountReset"
    /\ sessionLock = Nobody
    /\ count' = 0
    /\ options' = "none"
    /\ Goto(p, "unmountAll")
    /\ UNCHANGED <<views, locks, isolation, holding, guests>>

\* Mutant: the mounts are taken for the host's whatever the holder says.
UnmountAllHost(p) ==
    /\ pc[p] = "unmountAll"
    /\ mounted' = mounted \ {"host"}
    /\ ReleaseHolder
    /\ sessionLock' = FreedSessionLock
    /\ isolation' = "none"
    /\ Goto(p, "leave")
    /\ UNCHANGED <<views, containerLock, count, options, inside>>

UnmountAll(p) ==
    /\ pc[p] = "unmountAll"
    /\ mounted' = IF holder # "none" THEN mounted \ {"ns"} ELSE mounted \ {"host"}
    /\ ReleaseHolder
    /\ sessionLock' = FreedSessionLock
    /\ isolation' = "none"
    /\ Goto(p, "leave")
    /\ UNCHANGED <<views, containerLock, count, options, inside>>

-------------------------------------------------------------------------------
\* A command is killed.  Its flocks go with its descriptors, except those the holder
\* it forked has copies of; its guest process dies with the terminal or lives on.
Crash(p) ==
    /\ "crash" \in Features
    /\ pc[p] # "idle"
    /\ sessionLock' = IF sessionLock # p THEN sessionLock
                      ELSE IF creator = p THEN Holder ELSE Nobody
    /\ inherited' = (inherited \/ creator = p)
    /\ creator' = IF creator = p THEN Nobody ELSE creator
    /\ containerLock' = [containerLock EXCEPT ![p] = "none"]
    /\ \/ inside' = inside \ {<<p, "main">>}
       \/ /\ <<p, "main">> \in inside
          /\ inside' = (inside \ {<<p, "main">>}) \union {<<p, "left">>}
    /\ mode' = [mode EXCEPT ![p] = "none"]
    /\ bound' = bound \ {p}
    /\ sawHolder' = sawHolder \ {p}
    /\ Goto(p, "idle")
    /\ UNCHANGED <<record, holder, starting, mounted>>

SessionStep(p) ==
    \/ Check(p) \/ Increment(p)
    \/ FirstHolder(p) \/ FirstHolderFails(p) \/ FirstUnmount(p) \/ FirstMount(p)
    \/ FirstMountFails(p) \/ Join(p)
    \/ Chroot(p) \/ ChrootFails(p) \/ PrintChrootCommand(p) \/ Detach(p)
    \/ Exits(p) \/ Sweep(p)
    \/ Decrement(p) \/ NotLast(p) \/ Reap(p) \/ ReapLeavesSurvivors(p) \/ Teardown(p)
    \/ Leave(p)

KillStep(p) == KillProcs(p) \/ KillReset(p) \/ KillState(p)

UnmountStep(p) == UnmountStopProcs(p) \/ UnmountReset(p) \/ UnmountAll(p)

Next ==
    \/ \E p \in Procs :
          \/ Enter(p) \/ SessionStep(p) \/ SweepCount(p)
          \/ DetachedChroot(p) \/ LeaveBehind(p)
          \/ Kill(p) \/ KillStep(p) \/ Unmount(p) \/ UnmountStep(p)
          \/ Crash(p)
    \/ GuestExits

Spec == Init /\ [][Next]_vars

\* Commands are scheduled, and a flock(2) waiter is woken.  Nothing is assumed of the
\* guest's processes, nor that anybody ever runs `kill` or `unmount`.
Fairness ==
    \A p \in Procs :
        /\ WF_vars(SessionStep(p) \/ KillStep(p) \/ UnmountStep(p))
        /\ SF_vars(Increment(p)) /\ SF_vars(Decrement(p))
        /\ SF_vars(KillReset(p)) /\ SF_vars(UnmountReset(p))

FairSpec == Spec /\ Fairness
-------------------------------------------------------------------------------
Running(p) == <<p, "main">> \in inside /\ pc[p] \in {"running", "sweep"}

\* The mounts of a container are not taken from under a session that runs in it:
\* "the mounts and the namespace holder are only released when the count reaches
\* zero, which is what lets several sessions share one set of mounts" (session.py).
LiveSessionMounted == \A p \in Procs : Running(p) => MountsAt(p) \in mounted

\* The sweep at the end of a session, or on a signal to it, kills no other session's
\* command (_sweep_if_last_session: "only when no other session's processes would die").
SweepSparesOthers ==
    [][\A p, q \in Procs :
          p # q /\ pc[p] \in {"reap", "sweep"} /\ pc'[p] # pc[p] /\ Running(q)
             => <<q, "main">> \in inside']_vars

\* Once every session is out and no process is left, nothing is left of them: "the
\* last session out tears the mounts down" (session.py).
LastOutTearsDown ==
    (\A p \in Procs : pc[p] = "idle") /\ starting = {} /\ inside = {}
        => mounted = {} /\ holder = "none" /\ options = "none"

\* A session that is alone, with no process left in the rootfs, is the last one out
\* whatever crashed sessions had left in the count: "/proc is the real authority and
\* the file is a cache of it" (session.py).
LastLeaverTearsDown ==
    [][\A p \in Procs :
          LET alone == inside = {} /\ \A q \in Procs \ {p} : pc[q] = "idle"
          IN  pc[p] = "exit" /\ pc'[p] = "reap" /\ alone => count' = 0]_vars

\* sessions.lock serialises every change of the count, the mounts and the holder that
\* a session makes, a session's crash and `kill` notwithstanding.
Critical == {"first", "remount", "mount", "join", "reap", "teardown"}
SessionsSerial == \A p \in Procs : pc[p] \in Critical => sessionLock = p

\* While `unmount` works no session is in, to mount what it has unmounted: "a busy
\* container is waited for rather than forced" (unmount.py).
UnmountAlone ==
    \A p, q \in Procs : pc[p] \in UnmountSteps => pc[q] \notin SessionSteps \ {"leave"}

\* `unmount` leaves nothing of any session, crashed or detached, `kill` or not.
UnmountClean ==
    [][\A p \in Procs :
          pc[p] = "unmountAll" /\ pc'[p] = "leave" /\ UNCHANGED inside
             => mounted' = {} /\ count' = 0 /\ options' = "none" /\ holder' = "none"]_vars

\* A session whose command is over gets out, and `kill` comes to an end: neither waits
\* for ever on sessions.lock, whoever else dies.
EveryoneGetsOut == \A p \in Procs : pc[p] \in {"exit", "killProcs"} ~> pc[p] = "idle"
===============================================================================
