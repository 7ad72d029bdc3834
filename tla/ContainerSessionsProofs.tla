----------------------- MODULE ContainerSessionsProofs -----------------------
(***************************************************************************)
(* Proofs about ContainerSessions, for any number of processes and any mix *)
(* of modes and features: the types, who excludes whom by the two locks,   *)
(* and what the sessions of a container owe each other and `unmount`: the  *)
(* mounts stay under a session that runs, and go with the last one.        *)
(***************************************************************************)
EXTENDS ContainerSessions, FiniteSetTheorems, TLAPS

\* Counting out never leaves the naturals.
LEMMA DecrementedType == ASSUME TypeOK PROVE \A h : DecrementedWith(h) \in Nat
BY DEF TypeOK, DecrementedWith

\* Nothing runs and nothing is recorded at first.
LEMMA TypeInit == Init => TypeOK
<1> SUFFICES ASSUME Init PROVE TypeOK
  OBVIOUS
<1>1. pc \in [Procs -> {"idle"} \union SessionSteps \union KillSteps \union UnmountSteps]
  BY DEF Init
<1>2. /\ mode \in [Procs -> Modes \union {"none"}]
      /\ containerLock \in [Procs -> {"none", "shared", "exclusive"}]
  BY DEF Init
<1>3. count \in Nat /\ sessionLock \in Procs \union {Nobody, Holder}
  BY DEF Init
<1> QED
  BY <1>1, <1>2, <1>3 DEF Init, TypeOK

\* Every step keeps the types.
LEMMA TypeStep == TypeOK /\ [Next]_vars => TypeOK'
<1> SUFFICES ASSUME TypeOK, [Next]_vars PROVE TypeOK'
  OBVIOUS
<1> USE SessionsAssumption DEF TypeOK, Goto, vars, locks, record, holding, views, guests,
      ActiveWith, Active, UsesNamespaces, MountsAt, ReleaseHolder, FreedSessionLock,
      Decremented, Survivors, Orphaned, TakeSessionLock, LeaveLocked, ContainerLockFree,
      TryContainerLock, KillView, GuestKinds, SessionSteps, KillSteps, UnmountSteps
<1>1. ASSUME NEW p \in Procs, Enter(p) PROVE TypeOK'
  BY <1>1 DEF Enter
<1>2. ASSUME NEW p \in Procs, Check(p) PROVE TypeOK'
  BY <1>2 DEF Check
<1>3. ASSUME NEW p \in Procs, Increment(p) PROVE TypeOK'
  BY <1>3 DEF Increment
<1>4. ASSUME NEW p \in Procs, FirstHolder(p) PROVE TypeOK'
  BY <1>4 DEF FirstHolder
<1>5. ASSUME NEW p \in Procs, FirstHolderFails(p) PROVE TypeOK'
  BY <1>5, DecrementedType DEF FirstHolderFails
<1>6. ASSUME NEW p \in Procs, FirstUnmount(p) PROVE TypeOK'
  BY <1>6 DEF FirstUnmount
<1>7. ASSUME NEW p \in Procs, FirstMount(p) PROVE TypeOK'
  BY <1>7 DEF FirstMount
<1>8. ASSUME NEW p \in Procs, FirstMountFails(p) PROVE TypeOK'
  BY <1>8, DecrementedType DEF FirstMountFails
<1>9. ASSUME NEW p \in Procs, Join(p) PROVE TypeOK'
  <2>1. CASE JoinRefused(p)
    <3>1. /\ pc' = [pc EXCEPT ![p] = "leave"] /\ count' = Decremented
          /\ sessionLock' = Nobody /\ UNCHANGED <<options, bound, mounted>>
      BY <1>9, <2>1 DEF Join
    <3>2. count' \in Nat
      BY <3>1, DecrementedType
    <3> QED
      BY <1>9, <3>1, <3>2 DEF Join
  <2>2. CASE ~ JoinRefused(p)
    <3>1. /\ pc' = [pc EXCEPT ![p] = "launch"] /\ options' = mode[p]
          /\ mounted' = mounted \union {MountsAt(p)} /\ sessionLock' = Nobody
          /\ bound' = IF UsesNamespaces(p) THEN bound \union {p} ELSE bound
      BY <1>9, <2>2 DEF Join
    <3>2. mode[p] \in {"none", "host", "plain", "maxiso"}
      OBVIOUS
    <3> QED
      BY <1>9, <3>1, <3>2 DEF Join
  <2> QED
    BY <2>1, <2>2
<1>10. ASSUME NEW p \in Procs, Chroot(p) PROVE TypeOK'
  BY <1>10 DEF Chroot
<1>11. ASSUME NEW p \in Procs, ChrootFails(p) PROVE TypeOK'
  BY <1>11 DEF ChrootFails
<1>12. ASSUME NEW p \in Procs, PrintChrootCommand(p) PROVE TypeOK'
  BY <1>12, DecrementedType DEF PrintChrootCommand
<1>13. ASSUME NEW p \in Procs, Detach(p) PROVE TypeOK'
  BY <1>13 DEF Detach
<1>14. ASSUME NEW p \in Procs, DetachedChroot(p) PROVE TypeOK'
  BY <1>14 DEF DetachedChroot
<1>15. ASSUME NEW p \in Procs, LeaveBehind(p) PROVE TypeOK'
  BY <1>15 DEF LeaveBehind
<1>16. ASSUME NEW p \in Procs, Exits(p) PROVE TypeOK'
  BY <1>16 DEF Exits
<1>17. ASSUME NEW p \in Procs, SweepCount(p) PROVE TypeOK'
  BY <1>17 DEF SweepCount
<1>18. ASSUME NEW p \in Procs, Sweep(p) PROVE TypeOK'
  BY <1>18 DEF Sweep
<1>19. ASSUME NEW p \in Procs, Decrement(p) PROVE TypeOK'
  BY <1>19, DecrementedType DEF Decrement
<1>20. ASSUME NEW p \in Procs, NotLast(p) PROVE TypeOK'
  BY <1>20 DEF NotLast
<1>21. ASSUME NEW p \in Procs, Reap(p) PROVE TypeOK'
  BY <1>21 DEF Reap
<1>22. ASSUME NEW p \in Procs, ReapLeavesSurvivors(p) PROVE TypeOK'
  BY <1>22 DEF ReapLeavesSurvivors
<1>23. ASSUME NEW p \in Procs, Teardown(p) PROVE TypeOK'
  BY <1>23 DEF Teardown
<1>24. ASSUME NEW p \in Procs, Leave(p) PROVE TypeOK'
  BY <1>24 DEF Leave
<1>25. ASSUME NEW p \in Procs, Kill(p) PROVE TypeOK'
  BY <1>25 DEF Kill
<1>26. ASSUME NEW p \in Procs, KillProcs(p) PROVE TypeOK'
  BY <1>26 DEF KillProcs
<1>27. ASSUME NEW p \in Procs, KillReset(p) PROVE TypeOK'
  BY <1>27 DEF KillReset
<1>28. ASSUME NEW p \in Procs, KillState(p) PROVE TypeOK'
  BY <1>28 DEF KillState
<1>29. ASSUME NEW p \in Procs, Unmount(p) PROVE TypeOK'
  BY <1>29 DEF Unmount
<1>30. ASSUME NEW p \in Procs, UnmountStopProcs(p) PROVE TypeOK'
  BY <1>30 DEF UnmountStopProcs
<1>31. ASSUME NEW p \in Procs, UnmountReset(p) PROVE TypeOK'
  BY <1>31 DEF UnmountReset
<1>32. ASSUME NEW p \in Procs, UnmountAll(p) PROVE TypeOK'
  BY <1>32 DEF UnmountAll
<1>33. ASSUME NEW p \in Procs, Crash(p) PROVE TypeOK'
  BY <1>33 DEF Crash
<1>34. CASE GuestExits
  BY <1>34 DEF GuestExits
<1>35. CASE UNCHANGED vars
  BY <1>35
<1>36. QED
  BY <1>1, <1>2, <1>3, <1>4, <1>5, <1>6, <1>7, <1>8, <1>9, <1>10, <1>11, <1>12, <1>13, <1>14,
       <1>15, <1>16, <1>17, <1>18, <1>19, <1>20, <1>21, <1>22, <1>23, <1>24, <1>25, <1>26,
       <1>27, <1>28, <1>29, <1>30, <1>31, <1>32, <1>33, <1>34, <1>35 DEF Next, SessionStep,
       KillStep, UnmountStep

\* Types are right throughout, in every mix of modes and features.
THEOREM TypeCorrect == Spec => []TypeOK
BY TypeInit, TypeStep, PTL DEF Spec

-------------------------------------------------------------------------------
\* What makes the two invariants inductive: a session has the container lock shared
\* until it leaves, `unmount` has it exclusively, and an exclusive holder is alone.
LockInv ==
    /\ SessionsSerial
    /\ \A p \in Procs : pc[p] \in SessionSteps \ {"leave"} => containerLock[p] = "shared"
    /\ \A p \in Procs : pc[p] \in UnmountSteps => containerLock[p] = "exclusive"
    /\ \A p, q \in Procs : p # q /\ containerLock[p] = "exclusive" => containerLock[q] = "none"

\* Every step keeps the lock invariant.
LEMMA LockStep == TypeOK /\ LockInv /\ [Next]_vars => LockInv'
<1> SUFFICES ASSUME TypeOK, LockInv, [Next]_vars PROVE LockInv'
  OBVIOUS
<1> USE SessionsAssumption DEF TypeOK, LockInv, SessionsSerial, Critical, Goto, SessionSteps,
    KillSteps, UnmountSteps, LeaveLocked, TakeSessionLock, FreedSessionLock, TryContainerLock,
    ContainerLockFree, vars, locks
<1>1. ASSUME NEW r \in Procs, Enter(r) PROVE LockInv'
  BY <1>1 DEF Enter
<1>2. ASSUME NEW r \in Procs, Check(r) PROVE LockInv'
  BY <1>2 DEF Check
<1>3. ASSUME NEW r \in Procs, Increment(r) PROVE LockInv'
  BY <1>3 DEF Increment
<1>4. ASSUME NEW r \in Procs, FirstHolder(r) PROVE LockInv'
  BY <1>4 DEF FirstHolder
<1>5. ASSUME NEW r \in Procs, FirstHolderFails(r) PROVE LockInv'
  BY <1>5 DEF FirstHolderFails
<1>6. ASSUME NEW r \in Procs, FirstUnmount(r) PROVE LockInv'
  BY <1>6 DEF FirstUnmount
<1>7. ASSUME NEW r \in Procs, FirstMount(r) PROVE LockInv'
  BY <1>7 DEF FirstMount
<1>8. ASSUME NEW r \in Procs, FirstMountFails(r) PROVE LockInv'
  BY <1>8 DEF FirstMountFails
<1>9. ASSUME NEW r \in Procs, Join(r) PROVE LockInv'
  BY <1>9 DEF Join
<1>10. ASSUME NEW r \in Procs, Chroot(r) PROVE LockInv'
  BY <1>10 DEF Chroot
<1>11. ASSUME NEW r \in Procs, ChrootFails(r) PROVE LockInv'
  BY <1>11 DEF ChrootFails
<1>12. ASSUME NEW r \in Procs, PrintChrootCommand(r) PROVE LockInv'
  BY <1>12 DEF PrintChrootCommand
<1>13. ASSUME NEW r \in Procs, Detach(r) PROVE LockInv'
  BY <1>13 DEF Detach
<1>14. ASSUME NEW r \in Procs, DetachedChroot(r) PROVE LockInv'
  BY <1>14 DEF DetachedChroot
<1>15. ASSUME NEW r \in Procs, LeaveBehind(r) PROVE LockInv'
  BY <1>15 DEF LeaveBehind
<1>16. ASSUME NEW r \in Procs, Exits(r) PROVE LockInv'
  BY <1>16 DEF Exits
<1>17. ASSUME NEW r \in Procs, SweepCount(r) PROVE LockInv'
  BY <1>17 DEF SweepCount
<1>18. ASSUME NEW r \in Procs, Sweep(r) PROVE LockInv'
  BY <1>18 DEF Sweep
<1>19. ASSUME NEW r \in Procs, Decrement(r) PROVE LockInv'
  BY <1>19 DEF Decrement
<1>20. ASSUME NEW r \in Procs, NotLast(r) PROVE LockInv'
  BY <1>20 DEF NotLast
<1>21. ASSUME NEW r \in Procs, Reap(r) PROVE LockInv'
  BY <1>21 DEF Reap
<1>22. ASSUME NEW r \in Procs, ReapLeavesSurvivors(r) PROVE LockInv'
  BY <1>22 DEF ReapLeavesSurvivors
<1>23. ASSUME NEW r \in Procs, Teardown(r) PROVE LockInv'
  BY <1>23 DEF Teardown
<1>24. ASSUME NEW r \in Procs, Leave(r) PROVE LockInv'
  BY <1>24 DEF Leave
<1>25. ASSUME NEW r \in Procs, Kill(r) PROVE LockInv'
  BY <1>25 DEF Kill
<1>26. ASSUME NEW r \in Procs, KillProcs(r) PROVE LockInv'
  BY <1>26 DEF KillProcs
<1>27. ASSUME NEW r \in Procs, KillReset(r) PROVE LockInv'
  BY <1>27 DEF KillReset
<1>28. ASSUME NEW r \in Procs, KillState(r) PROVE LockInv'
  BY <1>28 DEF KillState
<1>29. ASSUME NEW r \in Procs, Unmount(r) PROVE LockInv'
  BY <1>29 DEF Unmount
<1>30. ASSUME NEW r \in Procs, UnmountStopProcs(r) PROVE LockInv'
  BY <1>30 DEF UnmountStopProcs
<1>31. ASSUME NEW r \in Procs, UnmountReset(r) PROVE LockInv'
  BY <1>31 DEF UnmountReset
<1>32. ASSUME NEW r \in Procs, UnmountAll(r) PROVE LockInv'
  BY <1>32 DEF UnmountAll
<1>33. ASSUME NEW r \in Procs, Crash(r) PROVE LockInv'
  BY <1>33 DEF Crash
<1>34. CASE GuestExits \/ UNCHANGED vars
  BY <1>34 DEF GuestExits
<1> QED
  BY <1>1, <1>2, <1>3, <1>4, <1>5, <1>6, <1>7, <1>8, <1>9, <1>10, <1>11, <1>12, <1>13, <1>14,
       <1>15, <1>16, <1>17, <1>18, <1>19, <1>20, <1>21, <1>22, <1>23, <1>24, <1>25, <1>26,
       <1>27, <1>28, <1>29, <1>30, <1>31, <1>32, <1>33, <1>34 DEF Next, SessionStep, KillStep,
       UnmountStep

\* Any number of commands: sessions change the count, the mounts and the holder one at
\* a time, and not while `unmount` works, though `kill` heeds neither lock and commands
\* crash with a holder that keeps their descriptors.
THEOREM LockCorrect == Spec => [](TypeOK /\ LockInv)
<1>1. Init => LockInv
  BY DEF Init, LockInv, SessionsSerial, Critical, SessionSteps, UnmountSteps
<1> QED
  BY <1>1, TypeInit, TypeStep, LockStep, PTL DEF Spec

\* Critical sections of sessions exclude each other (session.lock).
THEOREM SessionsAreSerial == Spec => []SessionsSerial
BY LockCorrect, PTL DEF LockInv

\* No session is in while `unmount` takes the container down.
THEOREM UnmountIsAlone == Spec => []UnmountAlone
<1>1. TypeOK /\ LockInv => UnmountAlone
  BY DEF TypeOK, LockInv, UnmountAlone, SessionSteps, UnmountSteps
<1> QED
  BY <1>1, LockCorrect, PTL

-------------------------------------------------------------------------------
(* The mounts and those who count. *)

\* A session is counted from `increment` to `decrement`: it opens the container or joins
\* it under sessions.lock, and is settled in it after that.
Opening == {"first", "remount", "mount"}
Settled == {"launch", "running", "sweep", "exit"}
Counting == Opening \union {"join"} \union Settled
Counted == {p \in Procs : pc[p] \in Counting}

\* The count may be too large, for sessions that crashed or were detached, and is never
\* too small.
Sized == IsFiniteSet(Counted) /\ Cardinality(Counted) <= count

\* Nobody crashed and nobody was detached.
Exact == count = Cardinality(Counted)

\* Whoever opens the container is the only session counted, and who tears it down is
\* counted no longer.
Alone ==
    /\ \A p, q \in Procs : pc[p] \in Opening /\ pc[q] \in Counting => p = q
    /\ \A p, q \in Procs : pc[p] = "teardown" => pc[q] \notin Counting

\* Sessions in maximum isolation, and a holder that shows in /proc, with the mounts, as
\* long as any of them is settled.
Moded == \A p \in Procs : pc[p] \in SessionSteps \ {"leave"} => mode[p] = "maxiso"
Housed ==
    /\ holder \in {"none", "maxiso"} /\ (bound # {} => holder # "none")
    /\ \A p \in Procs : pc[p] \in Settled => holder = "maxiso" /\ "ns" \in mounted

\* Nobody runs `kill`.
NoKill == \A p \in Procs : pc[p] \notin KillSteps

MountInv == TypeOK /\ LockInv /\ NoKill /\ Moded /\ Sized /\ Alone /\ Housed

-------------------------------------------------------------------------------
(* Counting                                                                *)

\* Who enters a counted step is counted with the others.
LEMMA CountsIn ==
    ASSUME TypeOK, NEW p \in Procs, NEW s \in Counting, Goto(p, s)
    PROVE  Counted' = Counted \union {p}
BY DEF TypeOK, Goto, Counted

\* Who leaves the counted steps leaves the others counted.
LEMMA CountsOut ==
    ASSUME TypeOK, NEW p \in Procs, NEW s, s \notin Counting, Goto(p, s)
    PROVE  Counted' = Counted \ {p}
BY DEF TypeOK, Goto, Counted

\* Steps between counted steps, or between others, count nobody in or out.
LEMMA CountsSame ==
    ASSUME TypeOK, NEW p \in Procs, NEW s, Goto(p, s), pc[p] \in Counting <=> s \in Counting
    PROVE  Counted' = Counted
BY DEF TypeOK, Goto, Counted

\* With a count of zero nobody is counted.
LEMMA ZeroCounts ==
    ASSUME Sized, count = 0
    PROVE  \A q \in Procs : pc[q] \notin Counting
<1>1. Cardinality(Counted) \in Nat
  BY FS_CardinalityType DEF Sized
<1>2. Cardinality(Counted) = 0
  BY <1>1 DEF Sized
<1>3. Counted = {}
  BY <1>2, FS_EmptySet DEF Sized
<1> QED
  BY <1>3 DEF Counted

\* With sessions.lock free and nothing in /proc, nobody is counted.
LEMMA IdleCounts ==
    ASSUME MountInv, NEW p \in Procs, sessionLock \in {p, Nobody}, ~ Active
    PROVE  \A q \in Procs : q # p => pc[q] \notin Counting
<1>1. ASSUME NEW q \in Procs, q # p PROVE pc[q] \notin Critical
  BY <1>1, SessionsAssumption DEF MountInv, LockInv, SessionsSerial
<1>2. ASSUME NEW q \in Procs PROVE pc[q] \notin Settled
  BY DEF MountInv, Housed, Active, ActiveWith
<1> QED
  BY <1>1, <1>2 DEF Counting, Critical, Opening

\* A change of the count and of the counted that adds one to both, or one to the counted
\* when there are none.
LEMMA SizedIn ==
    ASSUME MountInv, NEW p \in Procs, p \notin Counted, Counted' = Counted \union {p},
           \/ count' = count + 1
           \/ count' = 1 /\ Counted = {}
    PROVE  Sized' /\ (Exact => Exact')
<1>1. /\ IsFiniteSet(Counted') /\ Cardinality(Counted') = Cardinality(Counted) + 1
  BY FS_AddElement DEF MountInv, Sized
<1>2. Cardinality(Counted) \in Nat /\ (Counted = {} => Cardinality(Counted) = 0)
  BY FS_CardinalityType, FS_EmptySet DEF MountInv, Sized
<1>3. count \in Nat
  BY DEF MountInv, TypeOK
<1> QED
  BY <1>1, <1>2, <1>3 DEF MountInv, Sized, Exact

\* _decrement_inner takes one from the count, or all when /proc has nobody and nobody else
\* is counted.
LEMMA SizedOut ==
    ASSUME MountInv, NEW p \in Procs, p \in Counted, Counted' = Counted \ {p},
           NEW h, count' = DecrementedWith(h), ActiveWith(h) \/ Counted \ {p} = {}
    PROVE  Sized' /\ (Exact => Exact')
<1>1. /\ IsFiniteSet(Counted') /\ Cardinality(Counted') = Cardinality(Counted) - 1
  BY FS_RemoveElement DEF MountInv, Sized
<1>2. Cardinality(Counted) \in Nat /\ Cardinality(Counted') \in Nat
  BY <1>1, FS_CardinalityType DEF MountInv, Sized
<1>3. count \in Nat /\ Cardinality(Counted) <= count
  BY DEF MountInv, Sized, TypeOK
<1>4. count # 0
  BY <1>1, <1>2, <1>3
<1>5. CASE ActiveWith(h)
  <2>1. count' = count - 1
    BY <1>4, <1>5 DEF DecrementedWith
  <2> QED
    BY <1>1, <1>2, <1>3, <2>1 DEF Sized, Exact
<1>6. CASE ~ ActiveWith(h)
  <2>1. count' = 0 /\ Counted' = {}
    BY <1>6 DEF DecrementedWith
  <2>2. Cardinality(Counted') = 0 /\ count' = 0
    BY <2>1, FS_EmptySet
  <2>3. Cardinality(Counted') <= count'
    BY <2>2
  <2> QED
    BY <1>1, <2>2, <2>3 DEF Sized, Exact
<1> QED
  BY <1>5, <1>6

\* Nobody counted in or out and the count left as it is.
LEMMA SizedSame ==
    ASSUME MountInv, Counted' = Counted, count' = count
    PROVE  Sized' /\ (Exact => Exact')
BY DEF MountInv, Sized, Exact

\* Somebody gone who was not counted out: the count is too large.
LEMMA SizedGone ==
    ASSUME MountInv, NEW p \in Procs, Counted' = Counted \ {p}, count' = count
    PROVE  Sized'
<1>1. /\ IsFiniteSet(Counted') /\ Cardinality(Counted') <= Cardinality(Counted)
      /\ Cardinality(Counted') \in Nat /\ Cardinality(Counted) \in Nat
  BY FS_Subset, FS_CardinalityType DEF MountInv, Sized
<1> QED
  BY <1>1 DEF MountInv, Sized, TypeOK

\* Everybody out and the count reset.
LEMMA SizedNone ==
    ASSUME Counted' = {}, count' = 0
    PROVE  Sized' /\ Exact'
<1>1. IsFiniteSet(Counted') /\ Cardinality(Counted') = 0
  BY FS_EmptySet
<1> QED
  BY <1>1 DEF Sized, Exact

\* The same as SizedSame, for a step of one command.
LEMMA StillSized ==
    ASSUME MountInv, NEW p \in Procs, NEW s, Goto(p, s), pc[p] \in Counting <=> s \in Counting,
           count' = count
    PROVE  Sized' /\ (Exact => Exact')
<1>1. Counted' = Counted
  BY CountsSame DEF MountInv
<1> QED
  BY <1>1, SizedSame

\* The same as SizedOut, for a step of one command.
LEMMA CountedOut ==
    ASSUME MountInv, NEW p \in Procs, NEW s, Goto(p, s), pc[p] \in Counting, s \notin Counting,
           NEW h, count' = DecrementedWith(h),
           ActiveWith(h) \/ \A q \in Procs : q # p => pc[q] \notin Counting
    PROVE  Sized' /\ (Exact => Exact')
<1>1. Counted' = Counted \ {p} /\ p \in Counted
  BY CountsOut DEF MountInv, Counted
<1>2. ActiveWith(h) \/ Counted \ {p} = {}
  BY DEF Counted
<1> QED
  BY <1>1, <1>2, SizedOut

\* A reset of the count while nobody is counted.
LEMMA StillNone ==
    ASSUME MountInv, NEW p \in Procs, NEW s, Goto(p, s), s \notin Counting, count' = 0,
           \A q \in Procs : pc[q] \notin Counting
    PROVE  Sized' /\ Exact'
<1>1. Counted = {}
  BY DEF Counted
<1>2. Counted' = {}
  BY <1>1, CountsOut DEF MountInv
<1> QED
  BY <1>2, SizedNone

\* `unmount` at work, nobody is counted.
LEMMA UnmountCounts ==
    ASSUME MountInv, NEW p \in Procs, pc[p] \in UnmountSteps
    PROVE  \A q \in Procs : pc[q] \notin Counting
BY DEF MountInv, TypeOK, LockInv, UnmountSteps, SessionSteps, Counting, Opening, Settled

\* Every step but `kill` counts right, and none makes the count too large but a crash and
\* a session that is detached.
LEMMA SizedStep ==
    ASSUME MountInv, Modes = {"maxiso"}, "kill" \notin Features, [Next]_vars
    PROVE  Sized' /\ (Exact /\ "crash" \notin Features /\ "detach" \notin Features => Exact')
<1> DEFINE Goal ==
           Sized' /\ (Exact /\ "crash" \notin Features /\ "detach" \notin Features => Exact')
<1> USE DEF record
<1>1. ASSUME NEW p \in Procs, Enter(p) PROVE Goal
  BY <1>1, StillSized DEF Enter, Counting, Opening, Settled
<1>2. ASSUME NEW p \in Procs, Check(p) PROVE Goal
  BY <1>2, StillSized DEF Check, Counting, Opening, Settled
<1>3. ASSUME NEW p \in Procs, FirstHolder(p) PROVE Goal
  BY <1>3, StillSized DEF FirstHolder, Counting, Opening, Settled
<1>4. ASSUME NEW p \in Procs, FirstUnmount(p) PROVE Goal
  BY <1>4, StillSized DEF FirstUnmount, Counting, Opening, Settled
<1>5. ASSUME NEW p \in Procs, FirstMount(p) PROVE Goal
  BY <1>5, StillSized DEF FirstMount, Counting, Opening, Settled
<1>6. ASSUME NEW p \in Procs, Chroot(p) PROVE Goal
  BY <1>6, StillSized DEF Chroot, Counting, Opening, Settled
<1>7. ASSUME NEW p \in Procs, ChrootFails(p) PROVE Goal
  BY <1>7, StillSized DEF ChrootFails, Counting, Opening, Settled
<1>8. ASSUME NEW p \in Procs, Exits(p) PROVE Goal
  BY <1>8, StillSized DEF Exits, Counting, Opening, Settled
<1>9. ASSUME NEW p \in Procs, Sweep(p) PROVE Goal
  BY <1>9, StillSized DEF Sweep, Counting, Opening, Settled
<1>10. ASSUME NEW p \in Procs, NotLast(p) PROVE Goal
  BY <1>10, StillSized DEF NotLast, LeaveLocked, Counting, Opening, Settled
<1>11. ASSUME NEW p \in Procs, Reap(p) PROVE Goal
  BY <1>11, StillSized DEF Reap, Counting, Opening, Settled
<1>12. ASSUME NEW p \in Procs, ReapLeavesSurvivors(p) PROVE Goal
  BY <1>12, StillSized DEF ReapLeavesSurvivors, LeaveLocked, Counting, Opening, Settled
<1>13. ASSUME NEW p \in Procs, Teardown(p) PROVE Goal
  BY <1>13, StillSized DEF Teardown, LeaveLocked, Counting, Opening, Settled
<1>14. ASSUME NEW p \in Procs, Leave(p) PROVE Goal
  BY <1>14, StillSized DEF Leave, Counting, Opening, Settled
<1>15. ASSUME NEW p \in Procs, Unmount(p) PROVE Goal
  BY <1>15, StillSized DEF Unmount, Counting, Opening, Settled
<1>16. ASSUME NEW p \in Procs, UnmountStopProcs(p) PROVE Goal
  BY <1>16, StillSized DEF UnmountStopProcs, Counting, Opening, Settled
<1>17. ASSUME NEW p \in Procs, UnmountAll(p) PROVE Goal
  BY <1>17, StillSized DEF UnmountAll, Counting, Opening, Settled
<1>18. ASSUME NEW p \in Procs, Increment(p) PROVE Goal
  <2>1. CASE count > 0 /\ ~ Active
    <3>1. Goto(p, "first") /\ count' = 1 /\ pc[p] = "count" /\ sessionLock = Nobody
      BY <1>18, <2>1 DEF Increment, TakeSessionLock
    <3>2. Counted' = Counted \union {p}
      BY <3>1, CountsIn DEF MountInv, Counting, Opening
    <3>3. pc[p] \notin Counting
      BY <3>1 DEF Counting, Opening, Settled
    <3>4. Counted = {}
      BY <2>1, <3>1, <3>3, IdleCounts DEF Counted
    <3> QED
      BY <3>1, <3>2, <3>4, SizedIn
  <2>2. CASE ~ (count > 0 /\ ~ Active)
    <3>1. count' = count + 1 /\ pc[p] = "count"
      BY <1>18, <2>2 DEF Increment
    <3>2. PICK s \in {"first", "join"} : Goto(p, s)
      BY <1>18 DEF Increment
    <3>3. Counted' = Counted \union {p}
      BY <3>2, CountsIn DEF MountInv, Counting, Opening
    <3>4. p \notin Counted
      BY <3>1 DEF Counted, Counting, Opening, Settled
    <3> QED
      BY <3>1, <3>3, <3>4, SizedIn
  <2> QED
    BY <2>1, <2>2
<1>19. ASSUME NEW p \in Procs, FirstHolderFails(p) PROVE Goal
  <2>1. Goto(p, "leave") /\ count' = DecrementedWith(holder) /\ pc[p] = "first"
    BY <1>19 DEF FirstHolderFails, LeaveLocked, Decremented
  <2>2. pc[p] \in Opening /\ pc[p] \in Counting /\ "leave" \notin Counting
    BY <2>1 DEF Counting, Opening, Settled
  <2>3. \A q \in Procs : q # p => pc[q] \notin Counting
    BY <2>2 DEF MountInv, Alone
  <2> QED
    BY <2>1, <2>2, <2>3, CountedOut
<1>20. ASSUME NEW p \in Procs, FirstMountFails(p) PROVE Goal
  <2>1. PICK h : h = holder'
    OBVIOUS
  <2>2. Goto(p, "leave") /\ count' = DecrementedWith(h) /\ pc[p] = "mount"
    BY <1>20, <2>1 DEF FirstMountFails, LeaveLocked
  <2>3. pc[p] \in Opening /\ pc[p] \in Counting /\ "leave" \notin Counting
    BY <2>2 DEF Counting, Opening, Settled
  <2>4. \A q \in Procs : q # p => pc[q] \notin Counting
    BY <2>3 DEF MountInv, Alone
  <2> QED
    BY <2>2, <2>3, <2>4, CountedOut
<1>21. ASSUME NEW p \in Procs, Join(p) PROVE Goal
  <2>1. pc[p] = "join" /\ pc[p] \in Counting /\ "leave" \notin Counting /\ "launch" \in Counting
    BY <1>21 DEF Join, Counting, Opening, Settled
  <2>2. CASE JoinRefused(p)
    <3>1. Goto(p, "leave") /\ count' = DecrementedWith(holder)
      BY <1>21, <2>2 DEF Join, LeaveLocked, Decremented
    <3>2. sessionLock = p
      BY <2>1 DEF MountInv, LockInv, SessionsSerial, Critical
    <3>3. ActiveWith(holder) \/ \A q \in Procs : q # p => pc[q] \notin Counting
      BY <3>2, IdleCounts DEF Active
    <3> QED
      BY <2>1, <3>1, <3>3, CountedOut
  <2>3. CASE ~ JoinRefused(p)
    BY <1>21, <2>1, <2>3, StillSized DEF Join
  <2> QED
    BY <2>2, <2>3
<1>22. ASSUME NEW p \in Procs, PrintChrootCommand(p) PROVE Goal
  <2>1. Goto(p, "leave") /\ count' = DecrementedWith(holder) /\ pc[p] = "launch"
    BY <1>22 DEF PrintChrootCommand, Decremented
  <2>2. pc[p] \in Counting /\ "leave" \notin Counting /\ pc[p] \in Settled
    BY <2>1 DEF Counting, Opening, Settled
  <2>3. ActiveWith(holder)
    BY <2>2 DEF MountInv, Housed, ActiveWith
  <2> QED
    BY <2>1, <2>2, <2>3, CountedOut
<1>23. ASSUME NEW p \in Procs, Decrement(p) PROVE Goal
  <2>1. Goto(p, "reap") /\ count' = DecrementedWith(holder) /\ pc[p] = "exit"
    BY <1>23 DEF Decrement, Decremented
  <2>2. pc[p] \in Counting /\ "reap" \notin Counting /\ pc[p] \in Settled
    BY <2>1 DEF Counting, Opening, Settled
  <2>3. ActiveWith(holder)
    BY <2>2 DEF MountInv, Housed, ActiveWith
  <2> QED
    BY <2>1, <2>2, <2>3, CountedOut
<1>24. ASSUME NEW p \in Procs, SweepCount(p) PROVE Goal
  <2>1. Goto(p, "sweep") /\ pc[p] = "running" /\ count' = IF Active THEN count ELSE 0
    BY <1>24 DEF SweepCount
  <2>2. Active
    BY <2>1 DEF MountInv, Housed, Active, ActiveWith, Settled
  <2>3. count' = count
    BY <2>1, <2>2
  <2> QED
    BY <2>1, <2>3, StillSized DEF Counting, Settled
<1>25. ASSUME NEW p \in Procs, UnmountReset(p) PROVE Goal
  <2>1. Goto(p, "unmountAll") /\ count' = 0 /\ pc[p] \in UnmountSteps
    BY <1>25 DEF UnmountReset, UnmountSteps
  <2> QED
    BY <2>1, UnmountCounts, StillNone DEF Counting, Opening, Settled
<1>26. ASSUME NEW p \in Procs, Detach(p) PROVE Goal
  <2>1. Goto(p, "leave") /\ count' = count /\ "detach" \in Features /\ "leave" \notin Counting
    BY <1>26 DEF Detach, Counting, Opening, Settled
  <2> QED
    BY <2>1, CountsOut, SizedGone DEF MountInv
<1>27. ASSUME NEW p \in Procs, Crash(p) PROVE Goal
  <2>1. Goto(p, "idle") /\ count' = count /\ "crash" \in Features /\ "idle" \notin Counting
    BY <1>27 DEF Crash, Counting, Opening, Settled
  <2> QED
    BY <2>1, CountsOut, SizedGone DEF MountInv
<1>28. ASSUME NEW p \in Procs, Kill(p) \/ KillStep(p) PROVE FALSE
  BY <1>28 DEF MountInv, NoKill, Kill, KillStep, KillProcs, KillReset, KillState, KillSteps
<1>29. ASSUME UNCHANGED <<pc, count>> PROVE Goal
  <2>1. Counted' = Counted
    BY <1>29 DEF Counted
  <2> QED
    BY <1>29, <2>1, SizedSame
<1>30. CASE GuestExits \/ UNCHANGED vars \/ \E p \in Procs : DetachedChroot(p) \/ LeaveBehind(p)
  BY <1>30, <1>29 DEF GuestExits, vars, DetachedChroot, LeaveBehind
<1> QED
  BY <1>1, <1>2, <1>3, <1>4, <1>5, <1>6, <1>7, <1>8, <1>9, <1>10, <1>11, <1>12, <1>13,
     <1>14, <1>15, <1>16, <1>17, <1>18, <1>19, <1>20, <1>21, <1>22, <1>23, <1>24, <1>25,
     <1>26, <1>27, <1>28, <1>29, <1>30
     DEF Next, SessionStep, UnmountStep

\* With a count of zero nobody is counted, in the state a step leads to.
LEMMA ZeroCountsNext ==
    ASSUME Sized', count' = 0
    PROVE  \A q \in Procs : pc'[q] \notin Counting
<1>1. Cardinality(Counted') \in Nat
  BY FS_CardinalityType DEF Sized
<1>2. Cardinality(Counted') = 0
  BY <1>1 DEF Sized
<1>3. Counted' = {}
  BY <1>2, FS_EmptySet DEF Sized
<1> QED
  BY <1>3 DEF Counted

\* Every step but `kill` leaves the mounts and the holder to the sessions settled with
\* them.
LEMMA HousedStep ==
    ASSUME MountInv, Modes = {"maxiso"}, "kill" \notin Features, [Next]_vars
    PROVE  NoKill' /\ Moded' /\ Alone' /\ Housed'
<1> DEFINE Goal == NoKill' /\ Moded' /\ Alone' /\ Housed'
<1>1. Sized'
  BY SizedStep
<1> USE DEF MountInv, TypeOK, NoKill, Moded, Alone, Housed, Goto, SessionSteps, KillSteps,
    Counting, Opening, Settled, views, locks, record, holding, guests, vars, UsesNamespaces,
    MountsAt, ReleaseHolder, LeaveLocked
<1>2. ASSUME NEW p \in Procs, Enter(p) PROVE Goal
  BY <1>2 DEF Enter
<1>3. ASSUME NEW p \in Procs, Check(p) PROVE Goal
  BY <1>3 DEF Check
<1>4. ASSUME NEW p \in Procs, FirstHolder(p) PROVE Goal
  BY <1>4 DEF FirstHolder
<1>5. ASSUME NEW p \in Procs, FirstHolderFails(p) PROVE Goal
  BY <1>5 DEF FirstHolderFails
<1>6. ASSUME NEW p \in Procs, FirstUnmount(p) PROVE Goal
  BY <1>6 DEF FirstUnmount
<1>7. ASSUME NEW p \in Procs, FirstMount(p) PROVE Goal
  BY <1>7 DEF FirstMount, Orphaned
<1>8. ASSUME NEW p \in Procs, FirstMountFails(p) PROVE Goal
  BY <1>8 DEF FirstMountFails
<1>9. ASSUME NEW p \in Procs, Join(p) PROVE Goal
  BY <1>9 DEF Join, JoinRefused
<1>10. ASSUME NEW p \in Procs, Chroot(p) PROVE Goal
  BY <1>10 DEF Chroot
<1>11. ASSUME NEW p \in Procs, ChrootFails(p) PROVE Goal
  BY <1>11 DEF ChrootFails
<1>12. ASSUME NEW p \in Procs, Detach(p) PROVE Goal
  BY <1>12 DEF Detach
<1>13. ASSUME NEW p \in Procs, DetachedChroot(p) PROVE Goal
  BY <1>13 DEF DetachedChroot
<1>14. ASSUME NEW p \in Procs, LeaveBehind(p) PROVE Goal
  BY <1>14 DEF LeaveBehind
<1>15. ASSUME NEW p \in Procs, Exits(p) PROVE Goal
  BY <1>15 DEF Exits
<1>16. ASSUME NEW p \in Procs, SweepCount(p) PROVE Goal
  BY <1>16 DEF SweepCount
<1>17. ASSUME NEW p \in Procs, Sweep(p) PROVE Goal
  BY <1>17 DEF Sweep
<1>18. ASSUME NEW p \in Procs, Decrement(p) PROVE Goal
  BY <1>18 DEF Decrement
<1>19. ASSUME NEW p \in Procs, NotLast(p) PROVE Goal
  BY <1>19 DEF NotLast
<1>20. ASSUME NEW p \in Procs, ReapLeavesSurvivors(p) PROVE Goal
  BY <1>20 DEF ReapLeavesSurvivors
<1>21. ASSUME NEW p \in Procs, Teardown(p) PROVE Goal
  BY <1>21 DEF Teardown
<1>22. ASSUME NEW p \in Procs, Leave(p) PROVE Goal
  BY <1>22 DEF Leave
<1>23. ASSUME NEW p \in Procs, Unmount(p) PROVE Goal
  BY <1>23 DEF Unmount
<1>24. ASSUME NEW p \in Procs, UnmountReset(p) PROVE Goal
  BY <1>24 DEF UnmountReset
<1>25. ASSUME NEW p \in Procs, Crash(p) PROVE Goal
  BY <1>25 DEF Crash
<1>26. ASSUME NEW p \in Procs, Increment(p) PROVE Goal
  <2>1. pc[p] = "count" /\ sessionLock = Nobody /\ count \in Nat
    BY <1>26 DEF Increment, TakeSessionLock
  <2>2. Goto(p, "first") \/ Goto(p, "join")
    BY <1>26 DEF Increment
  <2>3. ASSUME Goto(p, "first") PROVE \A q \in Procs : q # p => pc[q] \notin Counting
    <3>1. count' = 1
      BY <1>26, <2>1, <2>3 DEF Increment
    <3>2. ~ Active \/ count = 0
      BY <1>26, <2>1, <3>1 DEF Increment
    <3> QED
      BY <2>1, <3>2, IdleCounts, ZeroCounts
  <2>4. UNCHANGED <<mode, holder, bound, mounted>>
    BY <1>26 DEF Increment
  <2>5. \A q \in Procs : pc[q] \notin Opening /\ pc[q] # "teardown"
    BY <2>1, SessionsAssumption DEF LockInv, SessionsSerial, Critical
  <2>6. CASE Goto(p, "first")
    BY <2>1, <2>3, <2>4, <2>5, <2>6
  <2>7. CASE Goto(p, "join")
    BY <2>1, <2>4, <2>5, <2>7
  <2> QED
    BY <2>2, <2>6, <2>7
<1>27. ASSUME NEW p \in Procs, PrintChrootCommand(p) PROVE Goal
  <2>1. CASE Decremented = 0
    <3>1. \A q \in Procs : pc'[q] \notin Counting
      BY <1>27, <1>1, <2>1, ZeroCountsNext DEF PrintChrootCommand
    <3> QED
      BY <1>27, <2>1, <3>1 DEF PrintChrootCommand
  <2>2. CASE Decremented # 0
    BY <1>27, <2>2 DEF PrintChrootCommand
  <2> QED
    BY <2>1, <2>2
<1>28. ASSUME NEW p \in Procs, Reap(p) PROVE Goal
  <2>1. \A q \in Procs : pc[q] \notin Counting
    BY <1>28, ZeroCounts DEF Reap
  <2> QED
    BY <1>28, <2>1 DEF Reap
<1>29. ASSUME NEW p \in Procs, UnmountStopProcs(p) PROVE Goal
  <2>1. \A q \in Procs : pc[q] \notin Counting
    BY <1>29, UnmountCounts DEF UnmountStopProcs, UnmountSteps
  <2> QED
    BY <1>29, <2>1 DEF UnmountStopProcs
<1>30. ASSUME NEW p \in Procs, UnmountAll(p) PROVE Goal
  <2>1. \A q \in Procs : pc[q] \notin Counting
    BY <1>30, UnmountCounts DEF UnmountAll, UnmountSteps
  <2> QED
    BY <1>30, <2>1 DEF UnmountAll
<1>31. ASSUME NEW p \in Procs, Kill(p) \/ KillStep(p) PROVE FALSE
  BY <1>31 DEF Kill, KillStep, KillProcs, KillReset, KillState
<1>32. CASE GuestExits \/ UNCHANGED vars
  BY <1>32 DEF GuestExits
<1> QED
  BY <1>2, <1>3, <1>4, <1>5, <1>6, <1>7, <1>8, <1>9, <1>10, <1>11, <1>12, <1>13, <1>14,
     <1>15, <1>16, <1>17, <1>18, <1>19, <1>20, <1>21, <1>22, <1>23, <1>24, <1>25, <1>26,
     <1>27, <1>28, <1>29, <1>30, <1>31, <1>32
     DEF Next, SessionStep, UnmountStep

-------------------------------------------------------------------------------
\* Nothing is counted, mounted or held at first.
LEMMA MountInit == Init => MountInv /\ Exact
<1> SUFFICES ASSUME Init PROVE MountInv /\ Exact
  OBVIOUS
<1>1. TypeOK
  BY TypeInit
<1>2. \A p \in Procs : pc[p] = "idle"
  BY DEF Init
<1>3. LockInv
  BY <1>2 DEF Init, LockInv, SessionsSerial, Critical, SessionSteps, UnmountSteps
<1>4. NoKill /\ Moded /\ Alone /\ Housed
  BY <1>2 DEF Init, NoKill, Moded, Alone, Housed, KillSteps, SessionSteps, Opening, Settled
<1>5. Counted = {}
  BY <1>2 DEF Counted, Counting, Opening, Settled
<1>6. IsFiniteSet(Counted) /\ Cardinality(Counted) = 0 /\ count = 0
  BY <1>5, FS_EmptySet DEF Init
<1>7. Sized /\ Exact
  BY <1>6 DEF Sized, Exact
<1> QED
  BY <1>1, <1>3, <1>4, <1>7 DEF MountInv

\* Every step but `kill` keeps the invariant.
LEMMA MountStep ==
    ASSUME Modes = {"maxiso"}, "kill" \notin Features
    PROVE  MountInv /\ [Next]_vars => MountInv'
<1> SUFFICES ASSUME MountInv, [Next]_vars PROVE MountInv'
  OBVIOUS
<1>1. TypeOK' /\ LockInv'
  BY TypeStep, LockStep DEF MountInv
<1>2. Sized' /\ NoKill' /\ Moded' /\ Alone' /\ Housed'
  BY SizedStep, HousedStep
<1> QED
  BY <1>1, <1>2 DEF MountInv

\* In maximum isolation nobody unmounts what a session runs in, though sessions fail,
\* crash, are signalled and detached, leave processes behind and survivors, and `unmount`
\* comes in between: only `kill` may.
THEOREM RunningStayMounted ==
    ASSUME Modes = {"maxiso"}, "kill" \notin Features
    PROVE  Spec => []LiveSessionMounted
<1>1. MountInv => LiveSessionMounted
  BY DEF MountInv, Moded, Housed, LiveSessionMounted, Running, Settled, SessionSteps, MountsAt,
     UsesNamespaces
<1> QED
  BY <1>1, MountInit, MountStep, PTL DEF Spec

-------------------------------------------------------------------------------
\* A process moves on by a step of its own.
LEMMA OwnStep ==
    ASSUME TypeOK, [Next]_vars, NEW p \in Procs, pc'[p] # pc[p]
    PROVE  \/ Enter(p) \/ SessionStep(p) \/ SweepCount(p)
           \/ Kill(p) \/ KillStep(p) \/ Unmount(p) \/ UnmountStep(p) \/ Crash(p)
<1>1. ASSUME NEW r \in Procs, NEW s, Goto(r, s) PROVE r = p
  BY <1>1 DEF Goto, TypeOK
<1>2. ASSUME NEW r \in Procs, SessionStep(r) PROVE r = p
  BY <1>1, <1>2
     DEF SessionStep, LeaveLocked, Check, Increment, FirstHolder, FirstHolderFails,
     FirstUnmount, FirstMount, FirstMountFails, Join, Chroot, ChrootFails, PrintChrootCommand,
     Detach, Exits, Sweep, Decrement, NotLast, Reap, ReapLeavesSurvivors, Teardown, Leave
<1>3. ASSUME NEW r \in Procs,
             \/ Enter(r) \/ SweepCount(r) \/ Kill(r) \/ KillStep(r) \/ Unmount(r)
             \/ UnmountStep(r) \/ Crash(r)
      PROVE  r = p
  BY <1>1, <1>3
     DEF Enter, SweepCount, Kill, KillStep, KillProcs, KillReset, KillState, Unmount,
     UnmountStep, UnmountStopProcs, UnmountReset, UnmountAll, Crash
<1>4. ASSUME NEW r \in Procs, DetachedChroot(r) \/ LeaveBehind(r) PROVE FALSE
  BY <1>4 DEF DetachedChroot, LeaveBehind
<1>5. ASSUME GuestExits \/ UNCHANGED vars PROVE FALSE
  BY <1>5 DEF GuestExits, vars
<1> QED
  BY <1>2, <1>3, <1>4, <1>5 DEF Next

\* Who is about to sweep sweeps, finds others counted, or dies.
LEMMA ReapSteps ==
    ASSUME TypeOK, [Next]_vars, NEW p \in Procs, pc[p] = "reap", pc'[p] # pc[p]
    PROVE  NotLast(p) \/ Reap(p) \/ ReapLeavesSurvivors(p) \/ Crash(p)
BY OwnStep DEF Enter, SweepCount, Kill, KillStep, KillProcs, KillReset, KillState, Unmount,
   UnmountStep, UnmountStopProcs, UnmountReset, UnmountAll, SessionStep, Check, Increment,
   FirstHolder, FirstHolderFails, FirstUnmount, FirstMount, FirstMountFails, Join, Chroot,
   ChrootFails, PrintChrootCommand, Detach, Exits, Sweep, Decrement, Teardown, Leave

\* A session counts itself out, or dies.
LEMMA ExitSteps ==
    ASSUME TypeOK, [Next]_vars, NEW p \in Procs, pc[p] = "exit", pc'[p] = "reap"
    PROVE  Decrement(p)
<1>1. pc'[p] # pc[p]
  OBVIOUS
<1>2. ~ Crash(p)
  BY DEF Crash, Goto, TypeOK
<1> QED
  BY <1>1, <1>2, OwnStep
     DEF Enter, SweepCount, Kill, KillStep, KillProcs, KillReset, KillState,
     Unmount, UnmountStep, UnmountStopProcs, UnmountReset, UnmountAll, SessionStep, Check,
     Increment, FirstHolder, FirstHolderFails, FirstUnmount, FirstMount, FirstMountFails, Join,
     Chroot, ChrootFails, PrintChrootCommand, Detach, Exits, Sweep, NotLast, Reap,
     ReapLeavesSurvivors, Teardown, Leave

\* `unmount` ends by unmounting, or dies.
LEMMA UnmountEnds ==
    ASSUME TypeOK, [Next]_vars, NEW p \in Procs, pc[p] = "unmountAll", pc'[p] = "leave"
    PROVE  UnmountAll(p)
<1>1. pc'[p] # pc[p]
  OBVIOUS
<1>2. ~ Crash(p)
  BY DEF Crash, Goto, TypeOK
<1> QED
  BY <1>1, <1>2, OwnStep
     DEF Enter, SweepCount, Kill, KillStep, KillProcs, KillReset, KillState,
     Unmount, UnmountStep, UnmountStopProcs, UnmountReset, SessionStep, Check, Increment,
     FirstHolder, FirstHolderFails, FirstUnmount, FirstMount, FirstMountFails, Join, Chroot,
     ChrootFails, PrintChrootCommand, Detach, Exits, Sweep, Decrement, NotLast, Reap,
     ReapLeavesSurvivors, Teardown, Leave

\* No session is being signalled to end.
NoSweep == \A p \in Procs : pc[p] # "sweep"

\* Without the signal nobody gets to the sweep of the handler.
LEMMA NoSweepStep ==
    ASSUME "sweep" \notin Features
    PROVE  TypeOK /\ NoSweep /\ [Next]_vars => NoSweep'
<1> SUFFICES ASSUME TypeOK, NoSweep, [Next]_vars, NEW p \in Procs, pc'[p] = "sweep" PROVE FALSE
  BY DEF NoSweep
<1>1. pc'[p] # pc[p]
  BY DEF NoSweep
<1>2. \A s : Goto(p, s) => s = "sweep"
  BY DEF Goto, TypeOK
<1> QED
  BY <1>1, <1>2, OwnStep
     DEF Enter, SweepCount, Kill, KillStep, KillProcs, KillReset, KillState,
     Unmount, UnmountStep, UnmountStopProcs, UnmountReset, UnmountAll, Crash, SessionStep,
     LeaveLocked, Check, Increment, FirstHolder, FirstHolderFails, FirstUnmount, FirstMount,
     FirstMountFails, Join, Chroot, ChrootFails, PrintChrootCommand, Detach, Exits, Sweep,
     Decrement, NotLast, Reap, ReapLeavesSurvivors, Teardown, Leave, NoSweep

\* In maximum isolation the sweep at the end of a session kills the command of no other,
\* whatever crashed or detached sessions have left in the count: the last one counted out
\* is the last one there.
THEOREM SweepsSpareOthers ==
    ASSUME Modes = {"maxiso"}, "kill" \notin Features, "sweep" \notin Features
    PROVE  Spec => SweepSparesOthers
<1> DEFINE Spared == \A p, q \in Procs :
               p # q /\ pc[p] \in {"reap", "sweep"} /\ pc'[p] # pc[p] /\ Running(q)
                  => <<q, "main">> \in inside'
<1>1. ASSUME MountInv, NoSweep, [Next]_vars PROVE Spared
  <2> SUFFICES ASSUME NEW p \in Procs, NEW q \in Procs, p # q, pc[p] = "reap", pc'[p] # pc[p],
                      Running(q)
               PROVE  <<q, "main">> \in inside'
    BY <1>1 DEF NoSweep
  <2>1. pc[q] \in Counting /\ <<q, "main">> \in inside
    BY DEF Running, Counting, Settled
  <2>2. count # 0
    BY <1>1, <2>1, ZeroCounts DEF MountInv
  <2>3. NotLast(p) \/ Crash(p)
    BY <1>1, <2>2, ReapSteps DEF MountInv, Reap, ReapLeavesSurvivors
  <2>4. CASE NotLast(p)
    BY <2>1, <2>4 DEF NotLast, guests
  <2>5. CASE Crash(p)
    <3>1. <<q, "main">> # <<p, "main">>
      OBVIOUS
    <3> QED
      BY <2>1, <2>5, <3>1 DEF Crash
  <2> QED
    BY <2>3, <2>4, <2>5
<1>2. Init => NoSweep
  BY DEF Init, NoSweep
<1>3. MountInv /\ NoSweep /\ [Next]_vars => NoSweep'
  BY NoSweepStep DEF MountInv
<1>4. MountInv /\ NoSweep /\ [Next]_vars => [Spared]_vars
  BY <1>1
<1> QED
  BY <1>2, <1>3, <1>4, MountInit, MountStep, PTL DEF Spec, SweepSparesOthers

-------------------------------------------------------------------------------
\* What a container is between the first mount and the last teardown.
Using == {"remount", "mount", "join", "reap", "teardown"} \union Settled
Unused == \A p \in Procs : pc[p] \notin Using
Cleared == mounted = {} /\ holder = "none" /\ options = "none"

\* A container nobody uses is cleared; whoever opens it found it so, and who joins found
\* somebody in it who stays until the joining is over.
Tidy ==
    /\ mounted \subseteq {"ns"}
    /\ Unused => Cleared
    /\ \A p \in Procs : pc[p] \in {"remount", "mount"} => mounted = {} /\ options = "none"
    /\ \A p \in Procs : pc[p] = "join" => \E q \in Procs : pc[q] \in Settled

\* With a positive count that is exact, somebody is counted.
LEMMA SomebodyCounts ==
    ASSUME MountInv, Exact, count # 0
    PROVE  \E q \in Procs : pc[q] \in Counting
<1>1. Counted # {}
  BY FS_EmptySet DEF Exact, MountInv, Sized
<1> QED
  BY <1>1 DEF Counted

\* The same of the state a step leads to.
LEMMA SomebodyCountsNext ==
    ASSUME Exact', count' # 0
    PROVE  \E q \in Procs : pc'[q] \in Counting
<1>1. Counted' # {}
  BY FS_EmptySet DEF Exact
<1> QED
  BY <1>1 DEF Counted

\* The holder of sessions.lock is the only one in a critical section.
LEMMA LockAlone ==
    ASSUME MountInv, NEW p \in Procs, sessionLock \in {p, Nobody}
    PROVE  \A q \in Procs : q # p => pc[q] \notin Critical
BY SessionsAssumption DEF MountInv, LockInv, SessionsSerial

\* Whoever opens a container found it cleared.
LEMMA OpensCleared ==
    ASSUME MountInv, Tidy, NEW p \in Procs, pc[p] = "first"
    PROVE  Unused /\ Cleared
<1>1. sessionLock = p
  BY DEF MountInv, LockInv, SessionsSerial, Critical
<1>2. ASSUME NEW q \in Procs, q # p PROVE pc[q] \notin Using
  BY <1>1, <1>2, LockAlone DEF MountInv, Alone, Critical, Using, Counting, Opening
<1> QED
  BY <1>2 DEF Tidy, Unused, Using, Settled

\* `unmount` works on a container nobody uses.
LEMMA UnmountUnused ==
    ASSUME MountInv, Tidy, NEW p \in Procs, pc[p] \in UnmountSteps
    PROVE  Unused /\ Cleared
BY DEF MountInv, TypeOK, LockInv, Tidy, Unused, Using, Settled, SessionSteps, UnmountSteps

\* Sessions that only end by themselves leave the container tidy.
LEMMA TidyStep ==
    ASSUME MountInv, Exact, Tidy, [Next]_vars, Modes = {"maxiso"},
           Features \intersect {"kill", "crash", "detach", "survivors"} = {}
    PROVE  Tidy'
<1>1. Sized' /\ Exact'
  BY SizedStep
<1> USE DEF MountInv, TypeOK, NoKill, Moded, Alone, Housed, Goto, SessionSteps, KillSteps,
    Counting, Opening, Settled, views, locks, record, holding, guests, vars, UsesNamespaces,
    MountsAt, ReleaseHolder, LeaveLocked, Tidy, Unused, Using, Cleared
<1>2. ASSUME NEW p \in Procs, Enter(p) PROVE Tidy'
  BY <1>2 DEF Enter
<1>3. ASSUME NEW p \in Procs, Check(p) PROVE Tidy'
  BY <1>3 DEF Check
<1>4. ASSUME NEW p \in Procs, FirstUnmount(p) PROVE Tidy'
  BY <1>4 DEF FirstUnmount
<1>5. ASSUME NEW p \in Procs, FirstMount(p) PROVE Tidy'
  BY <1>5 DEF FirstMount
<1>6. ASSUME NEW p \in Procs, FirstMountFails(p) PROVE Tidy'
  BY <1>6 DEF FirstMountFails
<1>7. ASSUME NEW p \in Procs, Chroot(p) PROVE Tidy'
  BY <1>7 DEF Chroot
<1>8. ASSUME NEW p \in Procs, ChrootFails(p) PROVE Tidy'
  BY <1>8 DEF ChrootFails
<1>9. ASSUME NEW p \in Procs, DetachedChroot(p) PROVE Tidy'
  BY <1>9 DEF DetachedChroot
<1>10. ASSUME NEW p \in Procs, LeaveBehind(p) PROVE Tidy'
  BY <1>10 DEF LeaveBehind
<1>11. ASSUME NEW p \in Procs, Exits(p) PROVE Tidy'
  BY <1>11 DEF Exits
<1>12. ASSUME NEW p \in Procs, SweepCount(p) PROVE Tidy'
  BY <1>12 DEF SweepCount
<1>13. ASSUME NEW p \in Procs, Sweep(p) PROVE Tidy'
  BY <1>13 DEF Sweep
<1>14. ASSUME NEW p \in Procs, Reap(p) PROVE Tidy'
  BY <1>14 DEF Reap
<1>15. ASSUME NEW p \in Procs, Teardown(p) PROVE Tidy'
  BY <1>15 DEF Teardown
<1>16. ASSUME NEW p \in Procs, Leave(p) PROVE Tidy'
  BY <1>16 DEF Leave
<1>17. ASSUME NEW p \in Procs, Unmount(p) PROVE Tidy'
  BY <1>17 DEF Unmount
<1>18. ASSUME NEW p \in Procs, Increment(p) PROVE Tidy'
  <2>1. pc[p] = "count" /\ sessionLock = Nobody /\ count \in Nat
    BY <1>18 DEF Increment, TakeSessionLock
  <2>2. \A q \in Procs : pc[q] \notin Critical
    BY <2>1, LockAlone DEF Critical
  <2>3. UNCHANGED <<holder, mounted>> /\ (options = "none" => options' = "none")
    BY <1>18 DEF Increment
  <2>4. CASE Goto(p, "first")
    BY <2>1, <2>2, <2>3, <2>4 DEF Critical
  <2>5. CASE Goto(p, "join")
    <3>1. count # 0
      BY <1>18, <2>1, <2>5 DEF Increment
    <3>2. PICK q \in Procs : pc[q] \in Counting
      BY <3>1, SomebodyCounts
    <3>3. pc[q] \in Settled /\ q # p
      BY <2>1, <2>2, <3>2 DEF Critical
    <3> QED
      BY <2>1, <2>2, <2>3, <2>5, <3>3 DEF Critical
  <2> QED
    BY <1>18, <2>4, <2>5 DEF Increment
<1>19. ASSUME NEW p \in Procs, FirstHolder(p) PROVE Tidy'
  <2>1. Unused /\ Cleared
    BY <1>19, OpensCleared DEF FirstHolder
  <2> QED
    BY <1>19, <2>1 DEF FirstHolder
<1>20. ASSUME NEW p \in Procs, FirstHolderFails(p) PROVE Tidy'
  <2>1. Unused /\ Cleared
    BY <1>20, OpensCleared DEF FirstHolderFails
  <2> QED
    BY <1>20, <2>1 DEF FirstHolderFails
<1>21. ASSUME NEW p \in Procs, Join(p) PROVE Tidy'
  <2>1. PICK q \in Procs : pc[q] \in Settled
    BY <1>21 DEF Join
  <2>2. pc[p] = "join" /\ sessionLock = p
    BY <1>21 DEF Join, LockInv, SessionsSerial, Critical
  <2>3. \A r \in Procs : r # p => pc[r] \notin Critical
    BY <2>2, LockAlone
  <2>4. q # p /\ pc'[q] = pc[q] /\ \A r \in Procs : r # p => pc'[r] = pc[r]
    BY <1>21, <2>1, <2>2 DEF Join
  <2>5. pc'[p] \in {"leave", "launch"} /\ mounted' \subseteq {"ns"}
    BY <1>21, <2>2 DEF Join
  <2> QED
    BY <2>1, <2>3, <2>4, <2>5 DEF Critical
<1>22. ASSUME NEW p \in Procs, PrintChrootCommand(p) PROVE Tidy'
  <2>1. pc[p] = "launch" /\ sessionLock = Nobody /\ Goto(p, "leave")
    BY <1>22 DEF PrintChrootCommand
  <2>2. \A q \in Procs : pc[q] \notin Critical
    BY <2>1, LockAlone DEF Critical
  <2>3. CASE Decremented = 0
    <3>1. Cleared'
      BY <1>22, <2>3 DEF PrintChrootCommand
    <3> QED
      BY <2>1, <2>2, <3>1 DEF Critical
  <2>4. CASE Decremented # 0
    <3>1. count' # 0 /\ UNCHANGED mounted
      BY <1>22, <2>4 DEF PrintChrootCommand
    <3>2. PICK q \in Procs : pc'[q] \in Counting
      BY <1>1, <3>1, SomebodyCountsNext
    <3>3. q # p /\ pc'[q] \in Settled
      BY <2>1, <2>2, <3>2 DEF Critical
    <3> QED
      BY <2>1, <2>2, <3>1, <3>3 DEF Critical
  <2> QED
    BY <2>3, <2>4
<1>23. ASSUME NEW p \in Procs, Decrement(p) PROVE Tidy'
  <2>1. pc[p] = "exit" /\ sessionLock = Nobody /\ Goto(p, "reap") /\ UNCHANGED mounted
    BY <1>23 DEF Decrement, TakeSessionLock
  <2>2. \A q \in Procs : pc[q] \notin Critical
    BY <2>1, LockAlone DEF Critical
  <2> QED
    BY <2>1, <2>2 DEF Critical
<1>24. ASSUME NEW p \in Procs, NotLast(p) PROVE Tidy'
  <2>1. pc[p] = "reap" /\ count # 0 /\ Goto(p, "leave") /\ UNCHANGED mounted
    BY <1>24 DEF NotLast
  <2>2. \A r \in Procs : r # p => pc[r] \notin Critical
    BY <2>1, LockAlone DEF LockInv, SessionsSerial, Critical
  <2>3. PICK q \in Procs : pc[q] \in Counting
    BY <2>1, SomebodyCounts
  <2>4. q # p /\ pc[q] \in Settled
    BY <2>1, <2>2, <2>3 DEF Critical
  <2> QED
    BY <2>1, <2>2, <2>4 DEF Critical
<1>25. ASSUME NEW p \in Procs, UnmountStopProcs(p) PROVE Tidy'
  <2>1. Unused /\ Cleared
    BY <1>25, UnmountUnused DEF UnmountStopProcs, UnmountSteps
  <2> QED
    BY <1>25, <2>1 DEF UnmountStopProcs
<1>26. ASSUME NEW p \in Procs, UnmountReset(p) PROVE Tidy'
  <2>1. Unused /\ Cleared
    BY <1>26, UnmountUnused DEF UnmountReset, UnmountSteps
  <2> QED
    BY <1>26, <2>1 DEF UnmountReset
<1>27. ASSUME NEW p \in Procs, UnmountAll(p) PROVE Tidy'
  <2>1. Unused /\ Cleared
    BY <1>27, UnmountUnused DEF UnmountAll, UnmountSteps
  <2> QED
    BY <1>27, <2>1 DEF UnmountAll
<1>28. ASSUME NEW p \in Procs,
              \/ Kill(p) \/ KillStep(p) \/ Crash(p) \/ Detach(p) \/ ReapLeavesSurvivors(p)
       PROVE  FALSE
  BY <1>28 DEF Kill, KillStep, KillProcs, KillReset, KillState, Crash, Detach,
     ReapLeavesSurvivors, Survivors
<1>29. CASE GuestExits \/ UNCHANGED vars
  BY <1>29 DEF GuestExits
<1> QED
  BY <1>2, <1>3, <1>4, <1>5, <1>6, <1>7, <1>8, <1>9, <1>10, <1>11, <1>12, <1>13, <1>14,
     <1>15, <1>16, <1>17, <1>18, <1>19, <1>20, <1>21, <1>22, <1>23, <1>24, <1>25, <1>26,
     <1>27, <1>28, <1>29
     DEF Next, SessionStep, UnmountStep

\* In maximum isolation the last session out takes the mounts, the holder and the recorded
\* options with it, whatever fails, prints its command only or leaves processes behind,
\* and with `unmount` coming in between.
THEOREM LastOutClears ==
    ASSUME Modes = {"maxiso"}, Features \intersect {"kill", "crash", "detach", "survivors"} = {}
    PROVE  Spec => []LastOutTearsDown
<1> DEFINE IInv == MountInv /\ Exact /\ Tidy
<1>1. Init => IInv
  BY MountInit DEF Init, Tidy, Unused, Cleared, Using, Settled
<1>2. IInv /\ [Next]_vars => IInv'
  BY MountStep, SizedStep, TidyStep
<1>3. IInv => LastOutTearsDown
  BY DEF Tidy, Unused, Cleared, Using, Settled, LastOutTearsDown
<1> QED
  BY <1>1, <1>2, <1>3, PTL DEF Spec

-------------------------------------------------------------------------------
\* The mounts are all in one view, the host's or a holder's that lives.
Viewed ==
    /\ \A p \in Procs : pc[p] \in SessionSteps \ {"leave"} => mode[p] \in Modes
    /\ "host" \in Modes => holder = "none" /\ mounted \subseteq {"host"}
    /\ "host" \notin Modes => mounted \subseteq {"ns"} /\ ("ns" \in mounted => holder # "none")
    /\ bound # {} => holder # "none"

\* Every step keeps the mounts in one view, while the modes in use have one.
LEMMA ViewedStep ==
    ASSUME TypeOK, Viewed, [Next]_vars, "host" \in Modes => Modes = {"host"}
    PROVE  Viewed'
<1> USE DEF TypeOK, Viewed, Goto, SessionSteps, KillSteps, UnmountSteps, vars, locks, record,
      holding, views, guests, UsesNamespaces, MountsAt, ReleaseHolder, LeaveLocked, Orphaned
<1>1. ASSUME NEW p \in Procs, Enter(p) PROVE Viewed'
  BY <1>1 DEF Enter
<1>2. ASSUME NEW p \in Procs, Check(p) PROVE Viewed'
  BY <1>2 DEF Check
<1>3. ASSUME NEW p \in Procs, Increment(p) PROVE Viewed'
  BY <1>3 DEF Increment
<1>4. ASSUME NEW p \in Procs, FirstHolder(p) PROVE Viewed'
  BY <1>4, SessionsAssumption DEF FirstHolder
<1>5. ASSUME NEW p \in Procs, FirstHolderFails(p) PROVE Viewed'
  BY <1>5 DEF FirstHolderFails
<1>6. ASSUME NEW p \in Procs, FirstUnmount(p) PROVE Viewed'
  BY <1>6 DEF FirstUnmount
<1>7. ASSUME NEW p \in Procs, FirstMount(p) PROVE Viewed'
  BY <1>7 DEF FirstMount
<1>8. ASSUME NEW p \in Procs, FirstMountFails(p) PROVE Viewed'
  BY <1>8 DEF FirstMountFails
<1>9. ASSUME NEW p \in Procs, Join(p) PROVE Viewed'
  BY <1>9 DEF Join, JoinRefused
<1>10. ASSUME NEW p \in Procs, Chroot(p) PROVE Viewed'
  BY <1>10 DEF Chroot
<1>11. ASSUME NEW p \in Procs, ChrootFails(p) PROVE Viewed'
  BY <1>11 DEF ChrootFails
<1>12. ASSUME NEW p \in Procs, PrintChrootCommand(p) PROVE Viewed'
  BY <1>12 DEF PrintChrootCommand
<1>13. ASSUME NEW p \in Procs, Detach(p) PROVE Viewed'
  BY <1>13 DEF Detach
<1>14. ASSUME NEW p \in Procs, DetachedChroot(p) PROVE Viewed'
  BY <1>14 DEF DetachedChroot
<1>15. ASSUME NEW p \in Procs, LeaveBehind(p) PROVE Viewed'
  BY <1>15 DEF LeaveBehind
<1>16. ASSUME NEW p \in Procs, Exits(p) PROVE Viewed'
  BY <1>16 DEF Exits
<1>17. ASSUME NEW p \in Procs, SweepCount(p) PROVE Viewed'
  BY <1>17 DEF SweepCount
<1>18. ASSUME NEW p \in Procs, Sweep(p) PROVE Viewed'
  BY <1>18 DEF Sweep
<1>19. ASSUME NEW p \in Procs, Decrement(p) PROVE Viewed'
  BY <1>19 DEF Decrement
<1>20. ASSUME NEW p \in Procs, NotLast(p) PROVE Viewed'
  BY <1>20 DEF NotLast
<1>21. ASSUME NEW p \in Procs, Reap(p) PROVE Viewed'
  BY <1>21 DEF Reap
<1>22. ASSUME NEW p \in Procs, ReapLeavesSurvivors(p) PROVE Viewed'
  BY <1>22 DEF ReapLeavesSurvivors
<1>23. ASSUME NEW p \in Procs, Teardown(p) PROVE Viewed'
  BY <1>23 DEF Teardown
<1>24. ASSUME NEW p \in Procs, Leave(p) PROVE Viewed'
  BY <1>24 DEF Leave
<1>25. ASSUME NEW p \in Procs, Kill(p) PROVE Viewed'
  BY <1>25 DEF Kill
<1>26. ASSUME NEW p \in Procs, KillProcs(p) PROVE Viewed'
  BY <1>26 DEF KillProcs
<1>27. ASSUME NEW p \in Procs, KillReset(p) PROVE Viewed'
  BY <1>27 DEF KillReset
<1>28. ASSUME NEW p \in Procs, KillState(p) PROVE Viewed'
  BY <1>28 DEF KillState
<1>29. ASSUME NEW p \in Procs, Unmount(p) PROVE Viewed'
  BY <1>29 DEF Unmount
<1>30. ASSUME NEW p \in Procs, UnmountStopProcs(p) PROVE Viewed'
  BY <1>30 DEF UnmountStopProcs
<1>31. ASSUME NEW p \in Procs, UnmountReset(p) PROVE Viewed'
  BY <1>31 DEF UnmountReset
<1>32. ASSUME NEW p \in Procs, UnmountAll(p) PROVE Viewed'
  BY <1>32 DEF UnmountAll
<1>33. ASSUME NEW p \in Procs, Crash(p) PROVE Viewed'
  BY <1>33 DEF Crash
<1>34. CASE GuestExits \/ UNCHANGED vars
  BY <1>34 DEF GuestExits
<1> QED
  BY <1>1, <1>2, <1>3, <1>4, <1>5, <1>6, <1>7, <1>8, <1>9, <1>10, <1>11, <1>12, <1>13,
     <1>14, <1>15, <1>16, <1>17, <1>18, <1>19, <1>20, <1>21, <1>22, <1>23, <1>24, <1>25,
     <1>26, <1>27, <1>28, <1>29, <1>30, <1>31, <1>32, <1>33, <1>34
     DEF Next, SessionStep, KillStep, UnmountStep

\* Once `unmount` has reset the count and the options they stay reset until it is done.
Reset == \A p \in Procs : pc[p] = "unmountAll" => count = 0 /\ options = "none"

\* No step of another command undoes what `unmount` has reset.
LEMMA ResetStep ==
    ASSUME TypeOK, LockInv, Reset, [Next]_vars
    PROVE  Reset'
<1> USE DEF TypeOK, LockInv, Reset, Goto, SessionSteps, UnmountSteps, vars, locks, record,
      LeaveLocked
<1>1. ASSUME NEW p \in Procs, Enter(p) PROVE Reset'
  BY <1>1 DEF Enter
<1>2. ASSUME NEW p \in Procs, Check(p) PROVE Reset'
  BY <1>2 DEF Check
<1>3. ASSUME NEW p \in Procs, Increment(p) PROVE Reset'
  BY <1>3 DEF Increment
<1>4. ASSUME NEW p \in Procs, FirstHolder(p) PROVE Reset'
  BY <1>4 DEF FirstHolder
<1>5. ASSUME NEW p \in Procs, FirstHolderFails(p) PROVE Reset'
  BY <1>5 DEF FirstHolderFails
<1>6. ASSUME NEW p \in Procs, FirstUnmount(p) PROVE Reset'
  BY <1>6 DEF FirstUnmount
<1>7. ASSUME NEW p \in Procs, FirstMount(p) PROVE Reset'
  BY <1>7 DEF FirstMount
<1>8. ASSUME NEW p \in Procs, FirstMountFails(p) PROVE Reset'
  BY <1>8 DEF FirstMountFails
<1>9. ASSUME NEW p \in Procs, Join(p) PROVE Reset'
  BY <1>9 DEF Join
<1>10. ASSUME NEW p \in Procs, Chroot(p) PROVE Reset'
  BY <1>10 DEF Chroot
<1>11. ASSUME NEW p \in Procs, ChrootFails(p) PROVE Reset'
  BY <1>11 DEF ChrootFails
<1>12. ASSUME NEW p \in Procs, PrintChrootCommand(p) PROVE Reset'
  BY <1>12 DEF PrintChrootCommand
<1>13. ASSUME NEW p \in Procs, Detach(p) PROVE Reset'
  BY <1>13 DEF Detach
<1>14. ASSUME NEW p \in Procs, DetachedChroot(p) PROVE Reset'
  BY <1>14 DEF DetachedChroot
<1>15. ASSUME NEW p \in Procs, LeaveBehind(p) PROVE Reset'
  BY <1>15 DEF LeaveBehind
<1>16. ASSUME NEW p \in Procs, Exits(p) PROVE Reset'
  BY <1>16 DEF Exits
<1>17. ASSUME NEW p \in Procs, SweepCount(p) PROVE Reset'
  BY <1>17 DEF SweepCount
<1>18. ASSUME NEW p \in Procs, Sweep(p) PROVE Reset'
  BY <1>18 DEF Sweep
<1>19. ASSUME NEW p \in Procs, Decrement(p) PROVE Reset'
  BY <1>19 DEF Decrement
<1>20. ASSUME NEW p \in Procs, NotLast(p) PROVE Reset'
  BY <1>20 DEF NotLast
<1>21. ASSUME NEW p \in Procs, Reap(p) PROVE Reset'
  BY <1>21 DEF Reap
<1>22. ASSUME NEW p \in Procs, ReapLeavesSurvivors(p) PROVE Reset'
  BY <1>22 DEF ReapLeavesSurvivors
<1>23. ASSUME NEW p \in Procs, Teardown(p) PROVE Reset'
  BY <1>23 DEF Teardown
<1>24. ASSUME NEW p \in Procs, Leave(p) PROVE Reset'
  BY <1>24 DEF Leave
<1>25. ASSUME NEW p \in Procs, Kill(p) PROVE Reset'
  BY <1>25 DEF Kill
<1>26. ASSUME NEW p \in Procs, KillProcs(p) PROVE Reset'
  BY <1>26 DEF KillProcs
<1>27. ASSUME NEW p \in Procs, KillReset(p) PROVE Reset'
  BY <1>27 DEF KillReset
<1>28. ASSUME NEW p \in Procs, KillState(p) PROVE Reset'
  BY <1>28 DEF KillState
<1>29. ASSUME NEW p \in Procs, Unmount(p) PROVE Reset'
  BY <1>29 DEF Unmount
<1>30. ASSUME NEW p \in Procs, UnmountStopProcs(p) PROVE Reset'
  BY <1>30 DEF UnmountStopProcs
<1>31. ASSUME NEW p \in Procs, UnmountReset(p) PROVE Reset'
  BY <1>31 DEF UnmountReset
<1>32. ASSUME NEW p \in Procs, UnmountAll(p) PROVE Reset'
  BY <1>32 DEF UnmountAll
<1>33. ASSUME NEW p \in Procs, Crash(p) PROVE Reset'
  BY <1>33 DEF Crash
<1>34. CASE GuestExits \/ UNCHANGED vars
  BY <1>34 DEF GuestExits
<1> QED
  BY <1>1, <1>2, <1>3, <1>4, <1>5, <1>6, <1>7, <1>8, <1>9, <1>10, <1>11, <1>12, <1>13,
     <1>14, <1>15, <1>16, <1>17, <1>18, <1>19, <1>20, <1>21, <1>22, <1>23, <1>24, <1>25,
     <1>26, <1>27, <1>28, <1>29, <1>30, <1>31, <1>32, <1>33, <1>34
     DEF Next, SessionStep, KillStep, UnmountStep

\* `unmount` leaves no mount, no holder, no count and no options of any session, though
\* `kill` heeds none of its locks, and sessions crash, are detached and have survivors, as
\* long as all of them are host sessions or none is.
THEOREM UnmountsAll ==
    ASSUME "host" \in Modes => Modes = {"host"}
    PROVE  Spec => UnmountClean
<1> DEFINE IInv == TypeOK /\ LockInv /\ Viewed /\ Reset
           Cleaned == \A p \in Procs :
               pc[p] = "unmountAll" /\ pc'[p] = "leave" /\ UNCHANGED inside
                 => mounted' = {} /\ count' = 0 /\ options' = "none" /\ holder' = "none"
<1>1. Init => Viewed /\ Reset
  BY DEF Init, Viewed, Reset, SessionSteps
<1>2. IInv /\ [Next]_vars => Viewed' /\ Reset'
  BY ViewedStep, ResetStep
<1>3. ASSUME IInv, [Next]_vars PROVE Cleaned
  <2> SUFFICES ASSUME NEW p \in Procs, pc[p] = "unmountAll", pc'[p] = "leave"
               PROVE  mounted' = {} /\ count' = 0 /\ options' = "none" /\ holder' = "none"
    OBVIOUS
  <2>1. UnmountAll(p)
    BY <1>3, UnmountEnds
  <2>2. count' = 0 /\ options' = "none" /\ holder' = "none"
    BY <1>3, <2>1 DEF UnmountAll, ReleaseHolder, Reset
  <2>3. mounted' = {}
    BY <1>3, <2>1 DEF UnmountAll, Viewed
  <2> QED
    BY <2>2, <2>3
<1>4. IInv /\ [Next]_vars => [Cleaned]_vars
  BY <1>3
<1>5. Spec => [](TypeOK /\ LockInv)
  BY LockCorrect
<1> QED
  BY <1>1, <1>2, <1>4, <1>5, PTL DEF Spec, UnmountClean

-------------------------------------------------------------------------------
\* The holder of a session that is not isolated does not show in /proc.
Hidden ==
    /\ holder # "maxiso"
    /\ \A p \in Procs : pc[p] \in SessionSteps \ {"leave"} => mode[p] \in Modes

\* Nobody forks a chrooted holder without maximum isolation.
LEMMA HiddenStep ==
    ASSUME TypeOK, Hidden, [Next]_vars, "maxiso" \notin Modes
    PROVE  Hidden'
<1> USE DEF TypeOK, Hidden, Goto, SessionSteps, KillSteps, UnmountSteps, vars, locks, record,
      holding, views, guests, ReleaseHolder, LeaveLocked
<1>1. ASSUME NEW p \in Procs, Enter(p) PROVE Hidden'
  BY <1>1 DEF Enter
<1>2. ASSUME NEW p \in Procs, Check(p) PROVE Hidden'
  BY <1>2 DEF Check
<1>3. ASSUME NEW p \in Procs, Increment(p) PROVE Hidden'
  BY <1>3 DEF Increment
<1>4. ASSUME NEW p \in Procs, FirstHolder(p) PROVE Hidden'
  BY <1>4 DEF FirstHolder
<1>5. ASSUME NEW p \in Procs, FirstHolderFails(p) PROVE Hidden'
  BY <1>5 DEF FirstHolderFails
<1>6. ASSUME NEW p \in Procs, FirstUnmount(p) PROVE Hidden'
  BY <1>6 DEF FirstUnmount
<1>7. ASSUME NEW p \in Procs, FirstMount(p) PROVE Hidden'
  BY <1>7 DEF FirstMount
<1>8. ASSUME NEW p \in Procs, FirstMountFails(p) PROVE Hidden'
  BY <1>8 DEF FirstMountFails
<1>9. ASSUME NEW p \in Procs, Join(p) PROVE Hidden'
  BY <1>9 DEF Join
<1>10. ASSUME NEW p \in Procs, Chroot(p) PROVE Hidden'
  BY <1>10 DEF Chroot
<1>11. ASSUME NEW p \in Procs, ChrootFails(p) PROVE Hidden'
  BY <1>11 DEF ChrootFails
<1>12. ASSUME NEW p \in Procs, PrintChrootCommand(p) PROVE Hidden'
  BY <1>12 DEF PrintChrootCommand
<1>13. ASSUME NEW p \in Procs, Detach(p) PROVE Hidden'
  BY <1>13 DEF Detach
<1>14. ASSUME NEW p \in Procs, DetachedChroot(p) PROVE Hidden'
  BY <1>14 DEF DetachedChroot
<1>15. ASSUME NEW p \in Procs, LeaveBehind(p) PROVE Hidden'
  BY <1>15 DEF LeaveBehind
<1>16. ASSUME NEW p \in Procs, Exits(p) PROVE Hidden'
  BY <1>16 DEF Exits
<1>17. ASSUME NEW p \in Procs, SweepCount(p) PROVE Hidden'
  BY <1>17 DEF SweepCount
<1>18. ASSUME NEW p \in Procs, Sweep(p) PROVE Hidden'
  BY <1>18 DEF Sweep
<1>19. ASSUME NEW p \in Procs, Decrement(p) PROVE Hidden'
  BY <1>19 DEF Decrement
<1>20. ASSUME NEW p \in Procs, NotLast(p) PROVE Hidden'
  BY <1>20 DEF NotLast
<1>21. ASSUME NEW p \in Procs, Reap(p) PROVE Hidden'
  BY <1>21 DEF Reap
<1>22. ASSUME NEW p \in Procs, ReapLeavesSurvivors(p) PROVE Hidden'
  BY <1>22 DEF ReapLeavesSurvivors
<1>23. ASSUME NEW p \in Procs, Teardown(p) PROVE Hidden'
  BY <1>23 DEF Teardown
<1>24. ASSUME NEW p \in Procs, Leave(p) PROVE Hidden'
  BY <1>24 DEF Leave
<1>25. ASSUME NEW p \in Procs, Kill(p) PROVE Hidden'
  BY <1>25 DEF Kill
<1>26. ASSUME NEW p \in Procs, KillProcs(p) PROVE Hidden'
  BY <1>26 DEF KillProcs
<1>27. ASSUME NEW p \in Procs, KillReset(p) PROVE Hidden'
  BY <1>27 DEF KillReset
<1>28. ASSUME NEW p \in Procs, KillState(p) PROVE Hidden'
  BY <1>28 DEF KillState
<1>29. ASSUME NEW p \in Procs, Unmount(p) PROVE Hidden'
  BY <1>29 DEF Unmount
<1>30. ASSUME NEW p \in Procs, UnmountStopProcs(p) PROVE Hidden'
  BY <1>30 DEF UnmountStopProcs
<1>31. ASSUME NEW p \in Procs, UnmountReset(p) PROVE Hidden'
  BY <1>31 DEF UnmountReset
<1>32. ASSUME NEW p \in Procs, UnmountAll(p) PROVE Hidden'
  BY <1>32 DEF UnmountAll
<1>33. ASSUME NEW p \in Procs, Crash(p) PROVE Hidden'
  BY <1>33 DEF Crash
<1>34. CASE GuestExits \/ UNCHANGED vars
  BY <1>34 DEF GuestExits
<1> QED
  BY <1>1, <1>2, <1>3, <1>4, <1>5, <1>6, <1>7, <1>8, <1>9, <1>10, <1>11, <1>12, <1>13,
     <1>14, <1>15, <1>16, <1>17, <1>18, <1>19, <1>20, <1>21, <1>22, <1>23, <1>24, <1>25,
     <1>26, <1>27, <1>28, <1>29, <1>30, <1>31, <1>32, <1>33, <1>34
     DEF Next, SessionStep, KillStep, UnmountStep

\* Without maximum isolation a session alone in a rootfs without processes counts itself
\* out as the last, whatever the sessions that crashed left in the count.
THEOREM LastLeaverClears ==
    ASSUME "maxiso" \notin Modes
    PROVE  Spec => LastLeaverTearsDown
<1> DEFINE Corrected == \A p \in Procs :
               LET alone == inside = {} /\ \A q \in Procs \ {p} : pc[q] = "idle"
               IN  pc[p] = "exit" /\ pc'[p] = "reap" /\ alone => count' = 0
<1>1. Init => Hidden
  BY DEF Init, Hidden, SessionSteps
<1>2. TypeOK /\ Hidden /\ [Next]_vars => Hidden'
  BY HiddenStep
<1>3. ASSUME TypeOK, Hidden, [Next]_vars PROVE Corrected
  <2> SUFFICES ASSUME NEW p \in Procs, pc[p] = "exit", pc'[p] = "reap", inside = {}
               PROVE  count' = 0
    OBVIOUS
  <2>1. Decrement(p)
    BY <1>3, ExitSteps
  <2> QED
    BY <1>3, <2>1 DEF Decrement, Decremented, DecrementedWith, ActiveWith, Hidden
<1>4. TypeOK /\ Hidden /\ [Next]_vars => [Corrected]_vars
  BY <1>3
<1> QED
  BY <1>1, <1>2, <1>4, TypeInit, TypeStep, PTL DEF Spec, LastLeaverTearsDown
===============================================================================
