--------------------------- MODULE FlockLockProofs ---------------------------
(***************************************************************************)
(* What holds of FlockLock for every number of processes, whatever happens *)
(* to the lock file's name (HolderNamed, NestingSound), and what holds     *)
(* when nothing ever takes the name away (mutual exclusion, and that the    *)
(* flock implements a shared/exclusive lock).                               *)
(***************************************************************************)
EXTENDS FlockLock, TLAPS

-------------------------------------------------------------------------------
\* A process has a descriptor, and a flock on it, exactly in the steps of acquire()
\* and of its command where the code has one.
DescriptorInv ==
    \A p \in Procs :
        /\ fd[p] = NoInode <=> pc[p] \notin {"flock", "write", "held", "probeFlock", "probed"}
        /\ pc[p] \notin {"write", "held", "probed"} => mode[p] = "none"
        /\ pc[p] \in {"write", "held"} => mode[p] = Requested(p)
        /\ pc[p] = "probed" => mode[p] = "shared"

\* flock(2) itself: descriptions of one inode are held in compatible modes.
InodeInv ==
    \A p, q \in Procs :
        p # q /\ fd[p] # NoInode /\ fd[p] = fd[q] => Compatible(mode[p], mode[q])

\* Holds on every interleaving, with files that come and go.
FlockInv == TypeOK /\ DescriptorInv /\ InodeInv /\ HolderNamed /\ NestingSound

\* Nobody takes the name away: no command of the lock's deletes the file, and
\* nothing else ever occupies it.  The locks of builds and of run caches are so.
NameKept == Foreign = {} /\ \A c \in Commands : ~ c.unlinks

\* Then there is one inode, and every descriptor is open on it.
NameInv ==
    /\ entry \in Inodes \union {NoEntry}
    /\ \A p \in Procs : /\ fd[p] # NoInode => fd[p] = entry
                        /\ cmd[p] \in Commands
                        /\ pc[p] \notin {"drop", "unlink"}

-------------------------------------------------------------------------------
LEMMA TypeInit == Init => TypeOK
  BY FlockAssumption DEF Init, TypeOK, Steps, NoLine

\* Every step keeps the types.
LEMMA TypeStep == TypeOK /\ [Next]_vars => TypeOK'
<1> SUFFICES ASSUME TypeOK, [Next]_vars PROVE TypeOK'
  OBVIOUS
<1> USE FlockAssumption DEF TypeOK, Steps, NoLine, Goto
<1>1. ASSUME NEW p \in Procs, Start(p) PROVE TypeOK'
  BY <1>1 DEF Start
<1>2. ASSUME NEW p \in Procs, Open(p) PROVE TypeOK'
  BY <1>2 DEF Open, OpenPlain, FreeInodes
<1>3. ASSUME NEW p \in Procs, Drop(p) PROVE TypeOK'
  BY <1>3 DEF Drop
<1>4. ASSUME NEW p \in Procs, Reopen(p) PROVE TypeOK'
  BY <1>4 DEF Reopen, OpenPlain, FreeInodes
<1>5. ASSUME NEW p \in Procs, OpenRefused(p) \/ FlockUnsupported(p) \/ EndUnlocked(p) PROVE TypeOK'
  BY <1>5 DEF OpenRefused, FlockUnsupported, EndUnlocked
<1>6. ASSUME NEW p \in Procs, Grant(p) \/ Refuse(p) PROVE TypeOK'
  BY <1>6 DEF Grant, Refuse, Requested
<1>7. ASSUME NEW p \in Procs, Write(p) PROVE TypeOK'
  BY <1>7 DEF Write
<1>8. ASSUME NEW p \in Procs, Nest(p) \/ Unnest(p) PROVE TypeOK'
  BY <1>8 DEF Nest, Unnest
<1>9. ASSUME NEW p \in Procs, Release(p) PROVE TypeOK'
  BY <1>9 DEF Release
<1>10. ASSUME NEW p \in Procs, UnlinkAfterRelease(p) PROVE TypeOK'
  BY <1>10 DEF UnlinkAfterRelease
<1>11. ASSUME NEW p \in Procs, ProbeOpen(p) \/ ProbeFlock(p) \/ ProbeEnd(p) PROVE TypeOK'
  BY <1>11 DEF ProbeOpen, ProbeFlock, ProbeEnd
<1>12. ASSUME NEW p \in Procs, Crash(p) PROVE TypeOK'
  BY <1>12 DEF Crash
<1>13. CASE Occupy
  BY <1>13 DEF Occupy
<1>14. CASE UNCHANGED vars
  BY <1>14 DEF vars
<1> QED
  BY <1>1, <1>2, <1>3, <1>4, <1>5, <1>6, <1>7, <1>8, <1>9, <1>10, <1>11, <1>12, <1>13, <1>14
     DEF Next, Proceed

\* The types are kept by every behaviour: what each variable of acquire() can be.
THEOREM TypeCorrect == Spec => []TypeOK
<1>1. TypeOK /\ [Next]_vars => TypeOK'
  BY TypeStep
<1> QED
  BY TypeInit, <1>1, PTL DEF Spec

-------------------------------------------------------------------------------
\* The facts about each step that every preservation proof below uses: the primed
\* variables are still functions on Procs, and no descriptor is open on NoInode.
LEMMA FlockInit == Init => FlockInv
  BY TypeInit, FlockAssumption
     DEF Init, FlockInv, DescriptorInv, InodeInv, HolderNamed, NestingSound, Holds, Compatible

\* Every step keeps FlockInv: the one that could break it is Grant, which looks at
\* every description of its inode before it takes the flock, and Write, which only
\* writes the line of an inode nobody else then owns exclusively.
LEMMA FlockStep == FlockInv /\ [Next]_vars => FlockInv'
<1> SUFFICES ASSUME FlockInv, [Next]_vars PROVE FlockInv'
  OBVIOUS
<1>0. TypeOK /\ TypeOK'
  BY TypeStep DEF FlockInv
<1>a. ASSUME DescriptorInv', InodeInv', HolderNamed', NestingSound'
      PROVE  FlockInv'
  BY <1>0, <1>a DEF FlockInv
<1> USE FlockAssumption
    DEF FlockInv, TypeOK, DescriptorInv, InodeInv, HolderNamed, NestingSound, Holds,
        Goto, Compatible, Requested
<1>1. ASSUME NEW p \in Procs, Start(p) PROVE FlockInv'
  BY <1>0, <1>1, <1>a DEF Start
<1>2. ASSUME NEW p \in Procs, pc[p] \in {"open", "reopen"}, OpenPlain(p) PROVE FlockInv'
  BY <1>0, <1>2, <1>a DEF OpenPlain, FreeInodes
<1>3. ASSUME NEW p \in Procs, Open(p) PROVE FlockInv'
  BY <1>0, <1>2, <1>3, <1>a DEF Open
<1>4. ASSUME NEW p \in Procs, Drop(p) PROVE FlockInv'
  BY <1>0, <1>4, <1>a DEF Drop
<1>5. ASSUME NEW p \in Procs, Reopen(p) PROVE FlockInv'
  BY <1>0, <1>2, <1>5, <1>a DEF Reopen
<1>6. ASSUME NEW p \in Procs, OpenRefused(p) \/ FlockUnsupported(p) \/ EndUnlocked(p)
      PROVE  FlockInv'
  BY <1>0, <1>6, <1>a DEF OpenRefused, FlockUnsupported, EndUnlocked
<1>7. ASSUME NEW p \in Procs, Grant(p) PROVE FlockInv'
  BY <1>0, <1>7, <1>a DEF Grant, Grantable
<1>8. ASSUME NEW p \in Procs, Refuse(p) PROVE FlockInv'
  BY <1>0, <1>8, <1>a DEF Refuse
<1>9. ASSUME NEW p \in Procs, Write(p) PROVE FlockInv'
  BY <1>0, <1>9, <1>a DEF Write
<1>10. ASSUME NEW p \in Procs, Nest(p) \/ Unnest(p) PROVE FlockInv'
  BY <1>0, <1>10, <1>a DEF Nest, Unnest
<1>11. ASSUME NEW p \in Procs, Release(p) PROVE FlockInv'
  BY <1>0, <1>11, <1>a DEF Release
<1>12. ASSUME NEW p \in Procs, UnlinkAfterRelease(p) PROVE FlockInv'
  BY <1>0, <1>12, <1>a DEF UnlinkAfterRelease
<1>13. ASSUME NEW p \in Procs, ProbeOpen(p) \/ ProbeFlock(p) \/ ProbeEnd(p) PROVE FlockInv'
  BY <1>0, <1>13, <1>a DEF ProbeOpen, ProbeFlock, ProbeEnd, Grantable
<1>14. ASSUME NEW p \in Procs, Crash(p) PROVE FlockInv'
  BY <1>0, <1>14, <1>a DEF Crash
<1>15. CASE Occupy
  BY <1>0, <1>15, <1>a DEF Occupy
<1>16. CASE UNCHANGED vars
  BY <1>0, <1>16, <1>a DEF vars
<1> QED
  BY <1>1, <1>3, <1>4, <1>5, <1>6, <1>7, <1>8, <1>9, <1>10, <1>11, <1>12, <1>13, <1>14,
     <1>15, <1>16
     DEF Next, Proceed

\* FlockInv holds throughout, for any commands and any fate of the file's name.
THEOREM FlockCorrect == Spec => []FlockInv
<1>1. FlockInv /\ [Next]_vars => FlockInv'
  BY FlockStep
<1> QED
  BY FlockInit, <1>1, PTL DEF Spec

\* The line of the file an exclusive holder has open names that holder, even when
\* `remove` or something else takes the name of the file away.
THEOREM HolderAlwaysNamed == Spec => []HolderNamed
<1>1. FlockInv => HolderNamed
  BY DEF FlockInv
<1> QED
  BY FlockCorrect, <1>1, PTL

\* Re-entrant sections never outlive the exclusive flock they rely on.
THEOREM NestingAlwaysSound == Spec => []NestingSound
<1>1. FlockInv => NestingSound
  BY DEF FlockInv
<1> QED
  BY FlockCorrect, <1>1, PTL

-------------------------------------------------------------------------------
LEMMA NameInit == NameKept /\ Init => NameInv
  BY DEF NameKept, Init, NameInv

\* As long as nobody takes the name away it refers to one inode once it exists.
LEMMA NameStep == NameKept /\ FlockInv /\ NameInv /\ [Next]_vars => NameInv'
<1> SUFFICES ASSUME NameKept, FlockInv, NameInv, [Next]_vars PROVE NameInv'
  OBVIOUS
<1> USE FlockAssumption DEF NameKept, FlockInv, TypeOK, NameInv, DescriptorInv, Goto
<1>1. ASSUME NEW p \in Procs, Start(p) PROVE NameInv'
  BY <1>1 DEF Start
<1>2. ASSUME NEW p \in Procs, Open(p) \/ Reopen(p) PROVE NameInv'
  BY <1>2 DEF Open, Reopen, OpenPlain, FreeInodes
<1>3. ASSUME NEW p \in Procs, Drop(p) \/ UnlinkAfterRelease(p) PROVE NameInv'
  BY <1>3 DEF Drop, UnlinkAfterRelease
<1>4. ASSUME NEW p \in Procs, OpenRefused(p) \/ FlockUnsupported(p) \/ EndUnlocked(p)
      PROVE  NameInv'
  BY <1>4 DEF OpenRefused, FlockUnsupported, EndUnlocked
<1>5. ASSUME NEW p \in Procs, Grant(p) \/ Refuse(p) \/ Write(p) PROVE NameInv'
  BY <1>5 DEF Grant, Refuse, Write
<1>6. ASSUME NEW p \in Procs, Nest(p) \/ Unnest(p) \/ Release(p) PROVE NameInv'
  BY <1>6 DEF Nest, Unnest, Release
<1>7. ASSUME NEW p \in Procs, ProbeOpen(p) \/ ProbeFlock(p) \/ ProbeEnd(p) PROVE NameInv'
  BY <1>7 DEF ProbeOpen, ProbeFlock, ProbeEnd
<1>8. ASSUME NEW p \in Procs, Crash(p) PROVE NameInv'
  BY <1>8 DEF Crash
<1>9. CASE Occupy
  BY <1>9 DEF Occupy
<1>10. CASE UNCHANGED vars
  BY <1>10 DEF vars
<1> QED
  BY <1>1, <1>2, <1>3, <1>4, <1>5, <1>6, <1>7, <1>8, <1>9, <1>10 DEF Next, Proceed

LEMMA NameCorrect == ASSUME NameKept PROVE Spec => []NameInv
<1>1. Init => NameInv
  BY NameInit
<1>2. FlockInv /\ NameInv /\ [Next]_vars => NameInv'
  BY NameStep
<1> QED
  BY FlockCorrect, <1>1, <1>2, PTL DEF Spec

\* Commands that hold the lock at the same time hold it in compatible modes, where
\* nothing takes the lock file's name away.
THEOREM MutualExclusionWhereNameKept == ASSUME NameKept PROVE Spec => []MutualExclusion
<1>1. FlockInv /\ NameInv => MutualExclusion
  BY DEF FlockInv, NameInv, MutualExclusion, DescriptorInv, InodeInv, TypeOK
<1> QED
  BY FlockCorrect, NameCorrect, <1>1, PTL

-------------------------------------------------------------------------------
\* A flock on the one inode is the shared/exclusive lock of SharedLock: a grant is
\* an acquisition, a release or the death of a holder is a release, and every other
\* step leaves the owners alone.
LEMMA RefinementStep ==
  ASSUME FlockInv, NameInv, NameInv', [Next]_vars
  PROVE  [Lock!Next]_mode
<1> USE DEF FlockInv, TypeOK, DescriptorInv, NameInv, Requested
<1>1. ASSUME NEW p \in Procs, Grant(p) PROVE [Lock!Next]_mode
  <2>1. \A q \in Procs \ {p} : Lock!Compatible(Requested(p), mode[q])
    BY <1>1, FlockAssumption DEF Grant, Grantable, Compatible, Lock!Compatible
  <2>2. Requested(p) \in Lock!Modes \ {"none"}
    BY DEF Lock!Modes
  <2>3. mode[p] = "none"
    BY <1>1 DEF Grant
  <2>4. Lock!Acquire(p, Requested(p))
    BY <1>1, <2>1, <2>3 DEF Grant, Lock!Acquire
  <2> QED
    BY <2>2, <2>4 DEF Lock!Next
<1>2. ASSUME NEW p \in Procs, Release(p) PROVE [Lock!Next]_mode
  BY <1>2 DEF Release, Lock!Next, Lock!Release
<1>3. ASSUME NEW p \in Procs, Crash(p) PROVE [Lock!Next]_mode
  BY <1>3 DEF Crash, Lock!Next, Lock!Release
<1>4. ASSUME NEW p \in Procs, ProbeFlock(p) PROVE [Lock!Next]_mode
  <2>1. CASE mode' = mode
    BY <2>1
  <2>2. CASE mode' # mode
    <3>1. /\ Grantable(p, "shared")
          /\ mode' = [mode EXCEPT ![p] = "shared"]
          /\ mode[p] = "none"
      BY <1>4, <2>2 DEF ProbeFlock
    <3>2. \A q \in Procs \ {p} : Lock!Compatible("shared", mode[q])
      BY <1>4, <3>1, FlockAssumption DEF ProbeFlock, Grantable, Compatible, Lock!Compatible
    <3>3. Lock!Acquire(p, "shared")
      BY <3>1, <3>2 DEF Lock!Acquire
    <3> QED
      BY <3>3 DEF Lock!Next, Lock!Modes
  <2> QED
    BY <2>1, <2>2
<1>5. ASSUME NEW p \in Procs, ProbeEnd(p) PROVE [Lock!Next]_mode
  BY <1>5 DEF ProbeEnd, Lock!Next, Lock!Release
<1>6. ASSUME NEW p \in Procs,
             \/ Start(p) \/ Open(p) \/ Drop(p) \/ Reopen(p) \/ OpenRefused(p)
             \/ FlockUnsupported(p) \/ EndUnlocked(p) \/ Refuse(p) \/ Write(p)
             \/ Nest(p) \/ Unnest(p) \/ UnlinkAfterRelease(p) \/ ProbeOpen(p)
      PROVE  UNCHANGED mode
  BY <1>6 DEF Start, Open, OpenPlain, Drop, Reopen, OpenRefused, FlockUnsupported,
              EndUnlocked, Refuse, Write, Nest, Unnest, UnlinkAfterRelease, ProbeOpen
<1>7. CASE Occupy
  BY <1>7 DEF Occupy
<1>8. CASE UNCHANGED vars
  BY <1>8 DEF vars
<1> QED
  BY <1>1, <1>2, <1>3, <1>4, <1>5, <1>6, <1>7, <1>8 DEF Next, Proceed

\* The lock of locking.py implements SharedLock where the name is kept.
THEOREM Refinement == ASSUME NameKept PROVE Spec => RefinesSharedLock
<1>1. Init => Lock!Init
  BY DEF Init, Lock!Init
<1>2. FlockInv /\ NameInv /\ NameInv' /\ [Next]_vars => [Lock!Next]_mode
  BY RefinementStep
<1> QED
  BY FlockCorrect, NameCorrect, <1>1, <1>2, PTL DEF Spec, RefinesSharedLock, Lock!Spec
===============================================================================
