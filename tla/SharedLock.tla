------------------------------ MODULE SharedLock ------------------------------
(***************************************************************************)
(* What a lock of chroot_distro/locking.py promises its callers, with no   *)
(* file, inode or descriptor in sight: each process owns the lock in one   *)
(* mode at most, any number of shared owners coexist, and an exclusive     *)
(* owner is alone.  An owner that dies stops owning the lock.              *)
(***************************************************************************)

CONSTANT Procs      \* the processes that may ask for the lock

VARIABLE owner      \* owner[p] is the mode p owns the lock in

Modes == {"none", "shared", "exclusive"}

\* Two modes that two different processes may own at the same time.
Compatible(m, n) == m = "none" \/ n = "none" \/ (m = "shared" /\ n = "shared")

TypeOK == owner \in [Procs -> Modes]

Init == owner = [p \in Procs |-> "none"]

Acquire(p, m) ==
    /\ owner[p] = "none"
    /\ \A q \in Procs \ {p} : Compatible(m, owner[q])
    /\ owner' = [owner EXCEPT ![p] = m]

Release(p) ==
    /\ owner[p] # "none"
    /\ owner' = [owner EXCEPT ![p] = "none"]

Next ==
    \E p \in Procs :
        \/ \E m \in Modes \ {"none"} : Acquire(p, m)
        \/ Release(p)

Spec == Init /\ [][Next]_owner
===============================================================================
