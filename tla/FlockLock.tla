------------------------------- MODULE FlockLock -------------------------------
(***************************************************************************)
(* One lock of chroot_distro/locking.py: the lock file's name, the inodes  *)
(* it has referred to, the flock(2) each process holds on the inode it     *)
(* opened, and the steps of _FlockBase.acquire() and release().  The name  *)
(* is resolved in one system call and the flock taken in another, so what  *)
(* excludes two commands is not the name but the inode each of them opened *)
(* in between.  Who may take that name away decides whether the lock works: *)
(* `remove` does, after it has released the lock.                           *)
(*                                                                         *)
(* The lock directory is taken as opened: locking.py descends to it one    *)
(* level at a time with the outcomes acquire() has for the file itself      *)
(* (opened, refused by the filesystem, occupied), which are the ones here. *)
(***************************************************************************)
EXTENDS Naturals, FiniteSets

CONSTANTS
    Procs,          \* processes of the program
    Inodes,         \* inodes the name may come to refer to, reused once free
    Commands,       \* the ways commands lock (see Command)
    NoEntry,        \* the name does not exist
    Clearable,      \* the name is a symlink, FIFO, empty directory: unlink clears it
    Stuck,          \* the name is a directory that is not empty
    Foreign,        \* which of the two may turn up while the name is free
    Probed,         \* whether busy_locks() scans the directory of this lock
    FsRefuses,      \* whether the filesystem may refuse to open or to flock
    MaxDepth,       \* bound: nested acquisitions of a lock already held
    NoInode         \* no descriptor

\* exclusive, blocking: the arguments of _FlockBase.__init__; unlinks: the command
\* deletes the lock file after releasing the lock, as `remove` does.
Command == [exclusive : BOOLEAN, blocking : BOOLEAN, unlinks : BOOLEAN]

ASSUME FlockAssumption ==
    /\ Commands \subseteq Command
    /\ Inodes \intersect {NoEntry, Clearable, Stuck, NoInode} = {}
    /\ NoEntry \notin {Clearable, Stuck}
    /\ Clearable # Stuck
    /\ Foreign \subseteq {Clearable, Stuck}
    /\ Probed \in BOOLEAN
    /\ FsRefuses \in BOOLEAN
    /\ MaxDepth \in Nat

VARIABLES
    entry,          \* what the lock file's name refers to
    line,           \* line[i]: the process the first line of inode i names
    fd,             \* fd[p]: the inode p's descriptor is open on
    mode,           \* mode[p]: the flock p's open file description holds
    cmd,            \* cmd[p]: the command p runs
    pc,             \* pc[p]: where p is in acquire(), in its command or in release()
    heldExclusive,  \* the processes whose _held_exclusive names the lock
    depth           \* depth[p]: re-entrant acquisitions p has not released yet

vars == <<entry, line, fd, mode, cmd, pc, heldExclusive, depth>>

NoLine == NoInode   \* an empty lock file names nobody

Steps == {"idle", "open", "drop", "reopen", "flock", "write", "held", "unlocked",
          "unlink", "probeFlock", "probed"}

Requested(p) == IF cmd[p].exclusive THEN "exclusive" ELSE "shared"

\* flock(2): what two descriptions of one inode may hold at the same time.
Compatible(m, n) == m = "none" \/ n = "none" \/ (m = "shared" /\ n = "shared")

Grantable(p, m) ==
    \A q \in Procs \ {p} : fd[q] = fd[p] => Compatible(m, mode[q])

\* O_CREAT makes an inode nobody refers to.
FreeInodes == {i \in Inodes : i # entry /\ \A q \in Procs : fd[q] # i}

TypeOK ==
    /\ entry \in Inodes \union {NoEntry, Clearable, Stuck}
    /\ line \in [Inodes -> Procs \union {NoLine}]
    /\ fd \in [Procs -> Inodes \union {NoInode}]
    /\ mode \in [Procs -> {"none", "shared", "exclusive"}]
    /\ cmd \in [Procs -> Command]
    /\ pc \in [Procs -> Steps]
    /\ heldExclusive \in SUBSET Procs
    /\ depth \in [Procs -> Nat]

Init ==
    /\ entry = NoEntry
    /\ line = [i \in Inodes |-> NoLine]
    /\ fd = [p \in Procs |-> NoInode]
    /\ mode = [p \in Procs |-> "none"]
    /\ cmd \in [Procs -> Commands]
    /\ pc = [p \in Procs |-> "idle"]
    /\ heldExclusive = {}
    /\ depth = [p \in Procs |-> 0]

-------------------------------------------------------------------------------
Goto(p, step) == pc' = [pc EXCEPT ![p] = step]

\* acquire() is entered: the lock is not one this process holds exclusively.
Start(p) ==
    /\ pc[p] = "idle"
    /\ \E c \in Commands : cmd' = [cmd EXCEPT ![p] = c]
    /\ Goto(p, "open")
    /\ UNCHANGED <<entry, line, fd, mode, heldExclusive, depth>>

\* Mutant: a lock file made anew (a temporary file renamed over the name) at each open.
OpenReplacing(p) ==
    /\ \E i \in FreeInodes :
          /\ entry' = i
          /\ fd' = [fd EXCEPT ![p] = i]
          /\ line' = [line EXCEPT ![i] = NoLine]
    /\ Goto(p, "flock")
    /\ UNCHANGED <<mode, cmd, heldExclusive, depth>>

\* Mutant: opening with "w" truncates before the flock is tried.
OpenTruncating(p) ==
    /\ \/ /\ entry \in Inodes
          /\ fd' = [fd EXCEPT ![p] = entry]
          /\ line' = [line EXCEPT ![entry] = NoLine]
          /\ UNCHANGED entry
       \/ /\ entry = NoEntry
          /\ \E i \in FreeInodes :
                /\ entry' = i
                /\ fd' = [fd EXCEPT ![p] = i]
                /\ line' = [line EXCEPT ![i] = NoLine]
    /\ Goto(p, "flock")
    /\ UNCHANGED <<mode, cmd, heldExclusive, depth>>

\* open_regular_at(O_RDWR | O_CREAT) on a name that is a plain file or free.
OpenPlain(p) ==
    /\ \/ /\ entry \in Inodes
          /\ fd' = [fd EXCEPT ![p] = entry]
          /\ UNCHANGED <<entry, line>>
       \/ /\ entry = NoEntry
          /\ \E i \in FreeInodes :
                /\ entry' = i
                /\ fd' = [fd EXCEPT ![p] = i]
                /\ line' = [line EXCEPT ![i] = NoLine]
    /\ Goto(p, "flock")
    /\ UNCHANGED <<mode, cmd, heldExclusive, depth>>

\* _open_lock_file, first attempt: anything but a plain file is to be dropped.
Open(p) ==
    /\ pc[p] = "open"
    /\ \/ OpenPlain(p)
       \/ /\ entry \in {Clearable, Stuck}
          /\ Goto(p, "drop")
          /\ UNCHANGED <<entry, line, fd, mode, cmd, heldExclusive, depth>>

\* _drop_planted unlinks by name, whatever the name refers to by then; the name
\* that stays occupied raises _HostileLockError and the command is refused.
Drop(p) ==
    /\ pc[p] = "drop"
    /\ \/ /\ entry = Stuck
          /\ Goto(p, "idle")
          /\ UNCHANGED entry
       \/ /\ entry # Stuck
          /\ entry' = NoEntry
          /\ Goto(p, "reopen")
    /\ UNCHANGED <<line, fd, mode, cmd, heldExclusive, depth>>

\* _open_lock_file, second attempt: an occupied name refuses the command.
Reopen(p) ==
    /\ pc[p] = "reopen"
    /\ \/ OpenPlain(p)
       \/ /\ entry \in {Clearable, Stuck}
          /\ Goto(p, "idle")
          /\ UNCHANGED <<entry, line, fd, mode, cmd, heldExclusive, depth>>

\* A read-only filesystem, no permission: acquire() returns True without a lock.
OpenRefused(p) ==
    /\ FsRefuses
    /\ pc[p] \in {"open", "reopen"}
    /\ Goto(p, "unlocked")
    /\ UNCHANGED <<entry, line, fd, mode, cmd, heldExclusive, depth>>

\* Mutant: the flock is taken LOCK_SH whatever was asked for.
GrantShared(p) ==
    /\ pc[p] = "flock"
    /\ Grantable(p, "shared")
    /\ mode' = [mode EXCEPT ![p] = "shared"]
    /\ Goto(p, "write")
    /\ UNCHANGED <<entry, line, fd, cmd, heldExclusive, depth>>

\* flock() granted.
Grant(p) ==
    /\ pc[p] = "flock"
    /\ Grantable(p, Requested(p))
    /\ mode' = [mode EXCEPT ![p] = Requested(p)]
    /\ Goto(p, "write")
    /\ UNCHANGED <<entry, line, fd, cmd, heldExclusive, depth>>

\* flock(LOCK_NB) refused with EAGAIN: acquire() returns False.  A blocking
\* request waits instead, and this action is not its.
Refuse(p) ==
    /\ pc[p] = "flock"
    /\ ~ cmd[p].blocking
    /\ ~ Grantable(p, Requested(p))
    /\ fd' = [fd EXCEPT ![p] = NoInode]
    /\ Goto(p, "idle")
    /\ UNCHANGED <<entry, line, mode, cmd, heldExclusive, depth>>

\* flock() fails with another errno: the filesystem ignores locks.
FlockUnsupported(p) ==
    /\ FsRefuses
    /\ pc[p] = "flock"
    /\ fd' = [fd EXCEPT ![p] = NoInode]
    /\ Goto(p, "unlocked")
    /\ UNCHANGED <<entry, line, mode, cmd, heldExclusive, depth>>

\* truncate(0) and "PID command"; an exclusive holder enters _held_exclusive.
Write(p) ==
    /\ pc[p] = "write"
    /\ line' = [line EXCEPT ![fd[p]] = p]
    /\ heldExclusive' = IF cmd[p].exclusive THEN heldExclusive \union {p} ELSE heldExclusive
    /\ Goto(p, "held")
    /\ UNCHANGED <<entry, fd, mode, cmd, depth>>

\* acquire() of a lock in _held_exclusive: no second descriptor, only a count.
Nest(p) ==
    /\ pc[p] = "held"
    /\ p \in heldExclusive
    /\ depth[p] < MaxDepth
    /\ depth' = [depth EXCEPT ![p] = @ + 1]
    /\ UNCHANGED <<entry, line, fd, mode, cmd, pc, heldExclusive>>

\* Mutant: release() does not look at _reentrant.
UnnestDroppingFlock(p) ==
    /\ depth[p] > 0
    /\ depth' = [depth EXCEPT ![p] = @ - 1]
    /\ mode' = [mode EXCEPT ![p] = "none"]
    /\ UNCHANGED <<entry, line, fd, cmd, pc, heldExclusive>>

\* Mutant: release() of a lock that was never acquired again.
UnnestUnguarded(p) ==
    /\ pc[p] = "held"
    /\ depth' = [depth EXCEPT ![p] = @ - 1]
    /\ UNCHANGED <<entry, line, fd, mode, cmd, pc, heldExclusive>>

\* release() of a re-entrant acquisition.
Unnest(p) ==
    /\ depth[p] > 0
    /\ depth' = [depth EXCEPT ![p] = @ - 1]
    /\ UNCHANGED <<entry, line, fd, mode, cmd, pc, heldExclusive>>

\* Mutant: the descriptor is forgotten without LOCK_UN or close.
ReleaseLeaking(p) ==
    /\ pc[p] = "held"
    /\ depth[p] = 0
    /\ heldExclusive' = heldExclusive \ {p}
    /\ Goto(p, "idle")
    /\ UNCHANGED <<entry, line, fd, mode, cmd, depth>>

\* release() of the acquisition that took the flock.
Release(p) ==
    /\ pc[p] = "held"
    /\ depth[p] = 0
    /\ heldExclusive' = heldExclusive \ {p}
    /\ mode' = [mode EXCEPT ![p] = "none"]
    /\ fd' = [fd EXCEPT ![p] = NoInode]
    /\ Goto(p, IF cmd[p].unlinks THEN "unlink" ELSE "idle")
    /\ UNCHANGED <<entry, line, cmd, depth>>

\* The end of a command that went on without a lock: nothing to release.
EndUnlocked(p) ==
    /\ pc[p] = "unlocked"
    /\ Goto(p, IF cmd[p].unlinks THEN "unlink" ELSE "idle")
    /\ UNCHANGED <<entry, line, fd, mode, cmd, heldExclusive, depth>>

\* remove.py: os.unlink(container_lock_path(name)), after the lock is released.
UnlinkAfterRelease(p) ==
    /\ pc[p] = "unlink"
    /\ entry' = IF entry = Stuck THEN Stuck ELSE NoEntry
    /\ Goto(p, "idle")
    /\ UNCHANGED <<line, fd, mode, cmd, heldExclusive, depth>>

\* busy_locks(): the file is opened read-only where it exists as a plain file...
ProbeOpen(p) ==
    /\ Probed
    /\ pc[p] = "idle"
    /\ entry \in Inodes
    /\ fd' = [fd EXCEPT ![p] = entry]
    /\ Goto(p, "probeFlock")
    /\ UNCHANGED <<entry, line, mode, cmd, heldExclusive, depth>>

\* ... LOCK_SH | LOCK_NB is tried: a refusal reports the lock as held ...
ProbeFlock(p) ==
    /\ pc[p] = "probeFlock"
    /\ \/ /\ Grantable(p, "shared")
          /\ mode' = [mode EXCEPT ![p] = "shared"]
          /\ Goto(p, "probed")
          /\ UNCHANGED fd
       \/ /\ ~ Grantable(p, "shared")
          /\ fd' = [fd EXCEPT ![p] = NoInode]
          /\ Goto(p, "idle")
          /\ UNCHANGED mode
    /\ UNCHANGED <<entry, line, cmd, heldExclusive, depth>>

\* ... and dropped again.
ProbeEnd(p) ==
    /\ pc[p] = "probed"
    /\ mode' = [mode EXCEPT ![p] = "none"]
    /\ fd' = [fd EXCEPT ![p] = NoInode]
    /\ Goto(p, "idle")
    /\ UNCHANGED <<entry, line, cmd, heldExclusive, depth>>

\* The process dies anywhere: the kernel closes its descriptors, which drops its
\* flock, and its module globals go with it.
Crash(p) ==
    /\ pc[p] # "idle"
    /\ mode' = [mode EXCEPT ![p] = "none"]
    /\ fd' = [fd EXCEPT ![p] = NoInode]
    /\ heldExclusive' = heldExclusive \ {p}
    /\ depth' = [depth EXCEPT ![p] = 0]
    /\ Goto(p, "idle")
    /\ UNCHANGED <<entry, line, cmd>>

\* Something that is not a plain file turns up under a free name.
Occupy ==
    /\ entry = NoEntry
    /\ entry' \in Foreign
    /\ UNCHANGED <<line, fd, mode, cmd, pc, heldExclusive, depth>>

\* The steps the process itself goes on to take, once it has started a command.
Proceed(p) ==
    \/ Open(p) \/ Drop(p) \/ Reopen(p) \/ OpenRefused(p)
    \/ Grant(p) \/ Refuse(p) \/ FlockUnsupported(p) \/ Write(p)
    \/ Unnest(p) \/ Release(p) \/ EndUnlocked(p) \/ UnlinkAfterRelease(p)
    \/ ProbeFlock(p) \/ ProbeEnd(p)

Next ==
    \/ \E p \in Procs : Proceed(p) \/ Start(p) \/ Nest(p) \/ ProbeOpen(p) \/ Crash(p)
    \/ Occupy

Spec == Init /\ [][Next]_vars

-------------------------------------------------------------------------------
\* Processes are scheduled, and flock(2) wakes a waiter that could be granted the
\* lock again and again, hence strong fairness for Grant.  A command enters nested
\* sections finitely often before it ends, hence strong fairness for Release.
Fairness ==
    \A p \in Procs :
        /\ WF_vars(Proceed(p))
        /\ SF_vars(Grant(p))
        /\ SF_vars(Release(p))

FairSpec == Spec /\ Fairness

-------------------------------------------------------------------------------
Holds(p, m) == pc[p] = "held" /\ mode[p] = m

\* Two commands that both believe they hold the lock do so in compatible modes
\* (locking.py: the locks "serialise commands against each other").
MutualExclusion ==
    \A p, q \in Procs :
        p # q /\ pc[p] = "held" /\ pc[q] = "held" => Compatible(Requested(p), Requested(q))

\* The first line of the file an exclusive holder has open names that holder for
\* as long as it holds it: no conflicting acquire() wipes it, on any interleaving
\* with files that come and go (the O_CREAT without O_TRUNC of acquire()).
HolderNamed ==
    \A p \in Procs : Holds(p, "exclusive") => line[fd[p]] = p

\* A command that is inside a nested section still owns the flock exclusively, and
\* _held_exclusive, which is what makes nesting free, never outlives the flock.
NestingSound ==
    \A p \in Procs :
        /\ depth[p] > 0 => Holds(p, "exclusive")
        /\ p \in heldExclusive => Holds(p, "exclusive")

\* A command waiting for a lock in blocking mode gets it or dies waiting.
WaiterServed ==
    \A p \in Procs : pc[p] = "flock" /\ cmd[p].blocking ~> pc[p] # "flock"

\* The lock of locking.py is a shared/exclusive lock, where nobody takes the name away.
Lock == INSTANCE SharedLock WITH owner <- mode

RefinesSharedLock == Lock!Spec
===============================================================================
