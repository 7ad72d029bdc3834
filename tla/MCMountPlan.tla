----------------------------- MODULE MCMountPlan -----------------------------
(* MountPlan over small sets of sessions: what holds of every one of them.    *)
EXTENDS MountPlan

Spec1(src, dst, opts) == [src |-> src, dst |-> dst, opts |-> opts]
Srv == <<"srv">>
SrvX == <<"srv", "x">>
HostA == <<"a">>
HostB == <<"b">>
RunUser == <<"run", "user">>
Auth == <<"home", "auth">>
Lib  == <<"usr", "lib", "gl">>
Node == <<"dev", "gpu">>

AndroidPaths == {Data, Prefix, TermuxHome, Binder, Storage, Shared, Prefix \o Tmp, Prefix \o X11}
                  \union Range(ArtCaches) \union Range(AppDirs) \union Range(SystemDirs)
Here == [p \in AndroidPaths |-> p]      \* no link among the paths of the host

\* A session on a Linux host that asks for nothing.
Linux ==
    [termux |-> FALSE, dist |-> "normal", isolated |-> FALSE, minimal |-> FALSE, max |-> FALSE,
     userns |-> FALSE, holder |-> FALSE, home |-> FALSE, tmp |-> FALSE, display |-> FALSE,
     hostHome |-> <<"home">>, loginHome |-> <<"root">>, sockets |-> <<RunUser>>, auths |-> <<Auth>>,
     gpu |-> "none", gpuBinds |-> <<>>, custom |-> <<>>, links |-> <<>>, real |-> Here,
     has |-> {Sys, Dev, Pts, Tmp, X11, RunUser, Auth, <<"home">>, HostA, HostB, Lib, Node},
     empty |-> {}, refuses |-> {}, submounts |-> {Sys, Dev, Data, <<"apex">>},
     supports |-> {"sysfs", "proc", "devpts", "binfmt_misc"}, pts |-> "multi"]

Android == [Linux EXCEPT !.termux = TRUE, !.has = (@ \union AndroidPaths) \ {RunUser, Auth},
                         !.supports = @ \union {"usbfs"}]

CustomSpecs == {Spec1(HostA, Srv, ""), Spec1(HostB, SrvX, ""), Spec1(HostA, Tmp, "ro"),
                Spec1(HostB, X11, ""), Spec1(Node, Node, ""), Spec1(HostA, Data, ""), Spec1(HostB, Proc, "")}
Customs == {<<>>} \union {<<a>> : a \in CustomSpecs} \union {<<a, b>> : a, b \in CustomSpecs}

Asks(base) ==
    {[base EXCEPT !.home = h, !.tmp = t, !.display = d, !.custom = c, !.gpu = g,
                  !.gpuBinds = IF g = "none" THEN <<>> ELSE <<Same(Node), Same(Lib)>>] :
       h, t, d \in BOOLEAN, c \in Customs, g \in IF base.termux THEN {"none"} ELSE {"none", "nvidia"}}
Sessions == Asks(Linux) \union Asks(Android) \union Asks([Android EXCEPT !.dist = "termux"])

-----------------------------------------------------------------------------
(* The order of the binds. *)

\* A bind is never listed after one that lies below its destination, which it would then
\* cover (bindings.py promises so): whatever is asked for, while the host's paths are no links.
BindsInOrder(binds) == \A i, j \in DOMAIN binds : i < j => ~IsPrefix(binds[j].dst, binds[i].dst)
ASSUME ParentsFirst == \A s \in Sessions : BindsInOrder(GetBindings(s))

\* Not so where they are: /product, a link to /system/product, comes before /system.
Linked == [Android EXCEPT !.real[<<"product">>] = <<"system", "product">>,
                          !.has = @ \union {<<"system", "product">>}]
ASSUME LinkedParentLast == ~BindsInOrder(GetBindings(Linked))

\* What a custom bind asks for is bound, unless it is refused or another one replaces it.
ASSUME CustomBound == \A s \in Sessions : \A i \in DOMAIN s.custom :
    LET c == s.custom[i] IN
    \/ Bind(c.src, c.dst) \in Range(GetBindings(s))
    \/ SystemPath(c.dst) \/ ~Exists(s, c.src)
    \/ \E j \in (i + 1)..Len(s.custom) : IsPrefix(s.custom[j].dst, c.dst)

-----------------------------------------------------------------------------
(* The first session. *)

Placed(s) == {[s EXCEPT !.holder = h, !.userns = u /\ h] : h, u \in BOOLEAN}
Isolated(s) == [s EXCEPT !.max = TRUE, !.isolated = TRUE, !.holder = TRUE]
Bases == {Linux, Android, [Android EXCEPT !.dist = "termux"],
          [Linux EXCEPT !.tmp = TRUE, !.display = TRUE, !.home = TRUE, !.gpu = "nvidia",
                        !.gpuBinds = <<Same(Node), Same(Lib)>>, !.custom = <<Spec1(HostA, Srv, "ro"), Spec1(HostB, SrvX, "")>>],
          [Android EXCEPT !.tmp = TRUE, !.display = TRUE, !.home = TRUE, !.minimal = FALSE],
          [Linux EXCEPT !.minimal = TRUE], [Android EXCEPT !.minimal = TRUE]}
Starts == UNION {Placed(s) \union Placed(Isolated(s)) : s \in Bases}

Empty == <<>>
VisibleAt(t, p) == {t[i] : i \in Tops(t, p)}

\* When everything is granted, every bind can be seen, those below /dev too, and under the
\* masks lie the filesystems they are for, with binfmt_misc alone above the read-only /proc/sys.
ASSUME AllInSight == \A s \in Starts :
    LET r == FirstSession(s, Empty) IN
    /\ r.ok
    /\ \A b \in Range(GetBindings(s)) : \E e \in VisibleAt(r.table, b.dst) : e.src = b.src
    /\ \A p \in Range(MaskedPaths) : \E e \in VisibleAt(r.table, p) : e.fs = "mask"
    /\ \A p \in Range(ReadOnlyPaths) : \E e \in VisibleAt(r.table, p) : e.fs = "self"
    /\ HasBinfmt(s) => VisibleAt(r.table, Binfmt) # {}

\* Mounts that are not refused for good: those of a namespace long gone are locked.
Unlocked(t) == SelectSeq(t, LAMBDA e : ~e.locked)

\* One pass of unmounting leaves nothing of a session.
ASSUME SweptClean == \A s \in Starts : UnmountOnce(FirstSession(s, Empty).table) = Empty

\* Whatever is refused: a session that starts has a /dev, a procfs of its own and, but in a
\* namespace on a kernel with one devpts instance, terminals; one that does not leaves nothing
\* mounted.  What Android alone adds never keeps a session from starting.
Refusals ==
    {<<"bind", p>> : p \in {Srv, Tmp, Storage, <<"vendor">>, Dev, Sys, Pts}}
      \union {<<"tmpfs", Dev>>, <<"sysfs", Sys>>, <<"proc", Proc>>, <<"devpts", Pts>>, <<"tmpfs", Shm>>,
              <<"mask", <<"proc", "kcore">>>>}
Refused == {{a, b} : a, b \in Refusals}
HasTerminals(t) ==
    \E e \in VisibleAt(t, Pts) : e.fs = "devpts"
ASSUME StartedOrGone == \A base \in Starts, refused \in Refused, pts \in {"multi", "single", "lone"} :
    LET s == [base EXCEPT !.refuses = refused, !.pts = pts]
        r == Login(s, Empty)
    IN  IF ~r.ok THEN r.table = Empty
        ELSE /\ \E e \in VisibleAt(r.table, Proc) : e.fs = "proc" /\ e.src = NoSource
             /\ s.max \/ VisibleAt(r.table, Dev) # {}
             /\ HasTerminals(r.table) \/ (s.holder /\ s.pts = "single")

\* Maximum isolation has nothing of the host's but the /sys and the device nodes a user
\* namespace leaves no other way to, and the /sys and /dev/pts that stand in for a sysfs and a
\* devpts that were refused; never the host's /dev.
HostTrees(s) ==
    {Sys : x \in {y \in {1} : s.userns \/ <<"sysfs", Sys>> \in s.refuses}}
      \union {Pts : x \in {y \in {1} : <<"devpts", Pts>> \in s.refuses}}
      \union (IF s.userns THEN {Append(Dev, n) : n \in Range(DevNodes)} ELSE {})
ASSUME LittleOfTheHost == \A base \in {b \in Starts : b.max}, refused \in Refused :
    LET s == [base EXCEPT !.refuses = refused] IN
    \A e \in Range(FirstSession(s, Empty).table) : e.src \in {NoSource} \union HostTrees(s)

\* The binds of /dev and /sys give nothing back: what is mounted into them afterwards stays
\* out of the host's own (apply_bind_mounts, _bind_host_sys).
ParentOf(t, j) == {i \in 1..(j - 1) : IsPrefix(t[i].at, t[j].at) /\
                     \A k \in (i + 1)..(j - 1) : ~IsPrefix(t[k].at, t[j].at)}
Propagates(t) == {j \in DOMAIN t : \E i \in ParentOf(t, j) : t[i].src # NoSource /\ ~t[i].slave}
ASSUME DevAndSysKeepToThemselves == \A base \in Starts, refused \in Refused :
    LET s == [base EXCEPT !.refuses = refused]
        t == FirstSession(s, Empty).table
    IN  ~s.holder /\ <<"tmpfs", Dev>> \notin refused =>
            \A j \in Propagates(t) : \A i \in ParentOf(t, j) : t[i].src \notin {Dev, Sys}

\* Not so for the host's /dev that stands in for a refused tmpfs: nothing makes it a slave, and
\* the devpts of the session is mounted on the host's /dev/pts as well.
ASSUME FallbackDevPropagates ==
    LET t == FirstSession([Linux EXCEPT !.refuses = {<<"tmpfs", Dev>>}], Empty).table
    IN  \E j \in Propagates(t) : t[j].at = Pts

\* Not so for what else is nested: the X11 socket in a shared /tmp is mounted on the host's too.
Nested == [Linux EXCEPT !.tmp = TRUE, !.display = TRUE]
ASSUME NestedBindPropagates ==
    \E j \in Propagates(FirstSession(Nested, Empty).table) : FirstSession(Nested, Empty).table[j].at = X11

-----------------------------------------------------------------------------
(* What dead sessions leave, and sessions that join. *)

Stale(at, fs) == [Entry(at, NoSource, fs) EXCEPT !.locked = TRUE]
Stales == {<<Stale(Dev, "tmpfs")>>, <<Stale(Dev, "ext4")>>, <<Stale(Pts, "devpts")>>, <<Stale(Sys, "sysfs")>>,
           <<Stale(Dev, "tmpfs"), Stale(Pts, "devpts")>>, <<Stale(Srv, "disk")>>}

\* A mount that cannot be removed does not keep a session from what it needs: a /dev that is
\* not a tmpfs is mounted over.
ASSUME StaleDevCovered == \A s \in Starts :
    LET r == FirstSession(s, <<Stale(Dev, "ext4")>>) IN
    ~s.holder => r.ok /\ \E e \in VisibleAt(r.table, Dev) : e.fs = "tmpfs"

\* A tree is not deleted while anything is mounted below it.
ASSUME NeverOverMounts == \A s \in Starts, stale \in Stales \union {Empty} :
    LET r == EnsureNoMounts(FirstSession(s, stale).table) IN r.ok <=> r.table = Empty

Joiners(s) == {[s EXCEPT !.custom = MergeSpecs(s.custom, c), !.tmp = @ \/ t, !.display = @ \/ d] :
                 c \in Customs, t, d \in BOOLEAN}
Above(s, t) == \E b \in Range(Pending(s, t)), i \in DOMAIN t : IsStrictPrefix(b.dst, t[i].at)

\* What a later session adds hides nothing the container has, replaces nothing, and goes in
\* one pass with the rest, as long as it asks for no path above one that is mounted.
ASSUME JoinAdds == \A s \in {b \in Starts : ~b.max} :
    LET t == FirstSession(s, Empty).table IN
    \A other \in Joiners(s) : ~Above(other, t) =>
        LET u == JoinSession(other, t) IN
        /\ SubSeq(u, 1, Len(t)) = t
        /\ \A i \in DOMAIN t : Visible(t, i) => Visible(u, i)
        /\ UnmountOnce(u) = Empty

\* Otherwise a live mount is covered, and outlives the pass that should have removed it.
Below1 == FirstSession([Linux EXCEPT !.custom = <<Spec1(HostB, SrvX, "")>>], Empty).table
Over  == [Linux EXCEPT !.custom = <<Spec1(HostB, SrvX, ""), Spec1(HostA, Srv, "")>>]
ASSUME JoinCovers == [i \in DOMAIN UnmountOnce(JoinSession(Over, Below1)) |->
                        UnmountOnce(JoinSession(Over, Below1))[i].at] = <<SrvX>>

\* One guest path, one source: the running container's.
ASSUME LiveSpecsWin == \A live, own \in Customs : \A i \in DOMAIN own :
    LET merged == MergeSpecs(live, own) IN
    /\ IsPrefix(live, merged)
    /\ own[i] \in Range(merged) \/ own[i] \in Range(DroppedSpecs(live, own))
    /\ \A j \in DOMAIN live : own[i].dst = live[j].dst /\ own[i] \notin Range(live) =>
            own[i] \notin Range(merged)

\* The steps of a build bind nothing below /dev, which would be covered there.
ASSUME BuildStepInSight == \A s \in {b \in Starts : b.minimal /\ b.holder} :
    LET r == BuildStep(s, Empty) IN
    r.ok /\ \A b \in Range(GetBindings(s)) : \E e \in VisibleAt(r.table, b.dst) : e.src = b.src

\* A working directory of the host leads to where the innermost bind has it.
ASSUME TranslationLands == \A s \in Sessions :
    LET binds == GetBindings(s) IN
    \A b \in Range(binds) : \E c \in Range(binds) :
        c.src = b.src /\ Translated(binds, Append(b.src, "f")) = Append(c.dst, "f")
=============================================================================
