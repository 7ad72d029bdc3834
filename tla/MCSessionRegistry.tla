--------------------------- MODULE MCSessionRegistry ---------------------------
\* What the records of sessions promise a reader, over every order of the steps, and what not.
EXTENDS Naturals, FiniteSets, Sequences

R == INSTANCE SessionRegistry

One(steps) == R!After(R!Registry({1, 2}, {}), steps)
Life(who, pid) == R!Registers(who, pid) \o R!Ends(who, pid)
At(steps, what) == CHOOSE i \in DOMAIN steps : steps[i].does = what

\* A session that is registered before the reader looks and ends after it is listed, one that is
\* over is not and its file is removed; a record is never read half written.
ASSUME LiveIsListed == \A o \in R!Orders(Life("a", 1), R!Reads(1)) :
    LET end == One(o)
    IN  /\ At(o, "publish") < At(o, "read") /\ At(o, "judge") < At(o, "end") => end.listed = {"a"}
        /\ At(o, "publish") < At(o, "read") /\ At(o, "end") < At(o, "probe") => end.listed = {} /\ end.name[1] = R!Nothing
        /\ end.listed \subseteq {"a"}

\* Sessions of other pids and other readers do not change that.
ASSUME OthersDoNotDisturb == \A o \in R!Orders(Life("b", 2), R!Registers("a", 1) \o R!Reads(1)) :
    One(o).listed = {"a"} /\ One(o).name[1] = "a"

\* A registration that fails leaves nothing under its name.
ASSUME FailuresLeaveNothing == \A k \in 0..2 : \A o \in R!Orders(R!Fails("a", 1, k), R!Reads(1)) :
    One(o).name[1] = R!Nothing /\ One(o).listed = {}

\* With a pid that is used again the steps of the reader can be about two files: the record of a
\* dead session is listed for a live one, and a live one loses its record for good.
Reused == R!Registers("a", 1) \o R!Ends("a", 1)
ASSUME OldIsListed == \E o \in R!Orders(R!Registers("b", 1), R!Reads(1)) : One(Reused \o o).listed = {"a"}
ASSUME NewIsPruned == \E o \in R!Orders(R!Registers("b", 1), R!Reads(1)) :
    One(Reused \o o).name[1] = R!Nothing /\ "b" \in One(Reused \o o).locked

\* A detached session is recorded under the pid of the command that started it, which ends: the
\* next session with that pid takes its record.
ASSUME DetachedIsHidden ==
    LET end == One(R!Registers("detached", 1) \o R!Registers("b", 1) \o R!Reads(1))
    IN  "detached" \in end.locked /\ end.listed = {"b"}

\* No process of a container with a session, and no descendant of a session, is an orphan; every
\* other one is.
ASSUME OrphansAreUntracked ==
    \A found \in [1..3 -> {"box", "den"}] : \A up \in [1..3 -> 0..3] : \A c \in {"box", "den"}, p \in 1..3 :
        LET untracked == R!Untracked({[pid |-> p, container |-> c]}, found, up)
        IN  \A q \in 1..3 : q \in untracked => found[q] # c /\ q # p /\ up[q] # p
ASSUME UntrackedAreShown == \A found \in [1..3 -> {"box", "den"}], up \in [1..3 -> 0..3] :
    R!Untracked({}, found, up) = 1..3
=============================================================================
