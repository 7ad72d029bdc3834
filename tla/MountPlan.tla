------------------------------ MODULE MountPlan ------------------------------
(***************************************************************************)
(* The mounts of a session: which host paths it binds and in which order   *)
(* (commands/login/bindings.py), how the list is carried out and what      *)
(* happens when an entry fails (helpers/isolation.py,                      *)
(* helpers/mount_manager.py, helpers/mount_targets.py), what a session     *)
(* adds that joins a running container (commands/login), and what one pass *)
(* of unmounting leaves.                                                   *)
(*                                                                         *)
(* Everything here is a function of the session `s`, a record of what was  *)
(* asked for and of where it runs, and of a mount table: the mounts below  *)
(* the rootfs in the order they were made, as /proc/mounts lists them.     *)
(* Paths are sequences of names, of the host or below the rootfs.          *)
(***************************************************************************)
EXTENDS Naturals, FiniteSets, Sequences, SequencesExt, TLC

Dev == <<"dev">>     Pts    == <<"dev", "pts">>   Shm  == <<"dev", "shm">>
Sys == <<"sys">>     Proc   == <<"proc">>         Usb  == <<"dev", "bus", "usb">>
Tmp == <<"tmp">>     X11    == <<"tmp", "X11">>   Run  == <<"run">>
Data == <<"data">>   Prefix == <<"data", "usr">>  TermuxHome == <<"data", "home">>
Binfmt == <<"proc", "sys", "fs", "binfmt_misc">>
Binder == <<"dev", "binderfs">>                   Wsl == <<"usr", "lib", "wsl">>

\* Paths of Android in the order of bindings.py, some of many.
ArtCaches  == <<<<"data", "app">>, <<"data", "dalvik">>>>
AppDirs    == <<<<"data", "apps">>, <<"data", "cache">>>>
Storage    == <<"storage">>
Shared     == <<"storage", "emulated", "0">>
SystemDirs == <<<<"apex">>, <<"odm">>, <<"product">>, <<"system">>, <<"vendor">>>>

Bind(src, dst) == [src |-> src, dst |-> dst]
Same(p) == Bind(p, p)
AllOf(seq, Op(_)) == [i \in DOMAIN seq |-> Op(seq[i])]
When(c, seq) == IF c THEN seq ELSE <<>>

\* Where a guest path leads: s.links sends the links of the image to their targets.
Resolved(s, p) ==
    LET on == {l \in DOMAIN s.links : IsPrefix(l, p)}
        deepest == CHOOSE l \in on : \A m \in on : Len(m) <= Len(l)
    IN  IF on = {} THEN p ELSE s.links[deepest] \o SubSeq(p, Len(deepest) + 1, Len(p))

-----------------------------------------------------------------------------
(* Bind specifications: [src, dst, opts], opts = "" when there are none. *)

\* merge_bind_specs(): what the running container has comes first and wins.
HeldBy(live, spec) == {i \in DOMAIN live : live[i].dst = spec.dst}
MergeSpecs(live, own) ==
    live \o SelectSeq(own, LAMBDA spec : HeldBy(live, spec) = {})
DroppedSpecs(live, own) ==
    LET differs(spec) == HeldBy(live, spec) # {} /\ spec \notin Range(live)
    IN  SelectSeq(own, differs)

\* parse_bind_options(): the options of a destination are the last ones given for it.
OptionsFor(s, dst) ==
    LET given == {i \in DOMAIN s.custom :
                    Resolved(s, s.custom[i].dst) = dst /\ s.custom[i].opts # ""}
    IN  IF given = {} THEN "" ELSE s.custom[CHOOSE i \in given : \A j \in given : j <= i].opts

-----------------------------------------------------------------------------
(* The binds of a session. *)

Exists(s, p) == p \in s.has
IfExists(s, b) == When(Exists(s, b.src), <<b>>)

\* The same path on both sides, by its real name.
RealBinds(s, paths) ==
    AllOf(SelectSeq(paths, LAMBDA p : Exists(s, p)), LAMBDA p : Same(s.real[p]))

StorageBinds(s) ==
    IF Exists(s, Storage)
    THEN <<Same(Storage)>> \o
         When(Exists(s, Shared), <<Bind(Shared, <<"sdcard">>), Bind(Shared, <<"mnt", "sdcard">>)>>)
    ELSE When(Exists(s, Shared),
              <<Bind(Shared, <<"mnt", "sdcard">>), Bind(Shared, <<"sdcard">>), Same(Shared),
                Bind(Shared, <<"storage", "self", "primary">>)>>)

AppBinds(s) == AllOf(SelectSeq(AppDirs, LAMBDA p : Exists(s, p)), Same)

BestEffort(s) ==
    IF ~s.termux THEN {}
    ELSE {b.src : b \in Range(RealBinds(s, ArtCaches) \o StorageBinds(s) \o
                              RealBinds(s, SystemDirs) \o AppBinds(s))}

AndroidBinds(s) ==
    LET normal == s.dist # "termux" IN
    When(s.termux /\ ~s.isolated,
         When(normal, IfExists(s, Same(Data)) \o IfExists(s, Same(Prefix)))
         \o IfExists(s, Same(Binder))
         \o RealBinds(s, ArtCaches) \o StorageBinds(s) \o RealBinds(s, SystemDirs)
         \o When(normal, AppBinds(s)))

HomeBinds(s) ==
    When(s.home, IfExists(s, Bind(IF s.termux THEN TermuxHome ELSE s.hostHome, s.loginHome)))

TmpBinds(s) ==
    LET allowed == ~(s.termux /\ s.dist = "termux")
        host    == IF s.termux THEN Prefix \o Tmp ELSE Tmp
        x11     == IF s.termux THEN Prefix \o X11 ELSE X11
    IN  When(allowed /\ s.tmp, IfExists(s, Bind(host, Tmp)))
        \o When(allowed /\ s.display, IfExists(s, Bind(x11, X11)))

\* Runtime sockets, then X authority files: nothing whose source is bound already.
Unbound(s, paths, binds) ==
    LET sources == {b.src : b \in Range(binds)}
        isNew(i) == /\ Exists(s, paths[i]) /\ paths[i] \notin sources
                    /\ \A j \in 1..(i - 1) : paths[j] # paths[i]
    IN  AllOf(SelectSeq([i \in DOMAIN paths |-> i], isNew), LAMBDA i : Same(paths[i]))

WithDisplay(s, binds) ==
    IF s.termux \/ ~s.display THEN binds
    ELSE LET sockets == binds \o Unbound(s, s.sockets, binds)
         IN  sockets \o Unbound(s, s.auths, sockets)

DefaultBinds(s) == AndroidBinds(s) \o HomeBinds(s) \o TmpBinds(s)

RslaveTargets(s) ==
    IF s.max THEN IF s.userns THEN {Resolved(s, Sys)} ELSE {}
    ELSE IF s.minimal \/ s.termux \/ ~s.display THEN {}
    ELSE {b.dst : b \in Range(Unbound(s, s.sockets, DefaultBinds(s)))}

\* Device nodes of Mesa; libraries and nodes of NVIDIA, once per destination.
WithGpu(s, binds) ==
    CASE s.gpu = "mesa"   -> binds \o s.gpuBinds
      [] s.gpu = "nvidia" ->
           LET isNew(b) == Exists(s, b.src) /\ b.dst \notin {c.dst : c \in Range(binds)}
           IN  binds \o SelectSeq(s.gpuBinds, isNew)
      [] OTHER -> binds

\* Individual nodes below /dev are allowed, nothing below /proc and /sys is.
SystemPath(dst) == dst = Dev \/ IsPrefix(Proc, dst) \/ IsPrefix(Sys, dst)

\* A custom bind replaces what is bound on its destination and below.
AddCustom(s, binds, c) ==
    IF ~Exists(s, c.src) \/ SystemPath(c.dst) THEN binds
    ELSE SelectSeq(binds, LAMBDA b : ~IsPrefix(c.dst, b.dst)) \o <<Bind(c.src, c.dst)>>

\* get_bindings()
GetBindings(s) ==
    LET system == WithGpu(s, WithDisplay(s, DefaultBinds(s)))
        all    == FoldLeft(LAMBDA bs, c : AddCustom(s, bs, c), system, s.custom)
    IN  IF s.max THEN When(s.userns, <<Same(Sys)>>)
        ELSE IF s.minimal THEN <<>>
        ELSE AllOf(all, LAMBDA b : Bind(b.src, Resolved(s, b.dst)))

\* _translate_host_path_to_guest(): the bind with the longest source that has the path.
Translated(binds, p) ==
    LET on   == {i \in DOMAIN binds : IsPrefix(binds[i].src, p)}
        best == CHOOSE i \in on : \A j \in on :
                  \/ Len(binds[j].src) < Len(binds[i].src)
                  \/ Len(binds[j].src) = Len(binds[i].src) /\ i <= j
    IN  IF on = {} THEN p
        ELSE binds[best].dst \o SubSeq(p, Len(binds[best].src) + 1, Len(p))

-----------------------------------------------------------------------------
(* Mount tables.  An entry has the path it is mounted at, the source of a  *)
(* bind, the type the kernel shows, whether it propagates nothing back,    *)
(* whether it is read-only, and whether umount(2) refuses it (MNT_LOCKED). *)

Entry(at, src, fs) ==
    [at |-> at, src |-> src, fs |-> fs, slave |-> FALSE, ro |-> FALSE, locked |-> FALSE]

NoSource == <<"(none)">>
Ok(t)   == [ok |-> TRUE,  table |-> t]
Fail(t) == [ok |-> FALSE, table |-> t]
AndThen(r, Op(_)) == IF r.ok THEN Op(r.table) ELSE r

\* An entry is hidden by a later one on its path or above it.
Visible(t, i)   == \A j \in (i + 1)..Len(t) : ~IsPrefix(t[j].at, t[i].at)
MountedAt(t, p) == \E i \in DOMAIN t : t[i].at = p
Tops(t, p)      == {i \in DOMAIN t : t[i].at = p /\ Visible(t, i)}
Shows(t, p)     == {i \in DOMAIN t : IsPrefix(t[i].at, p) /\ \A j \in (i + 1)..Len(t) : ~IsPrefix(t[j].at, p)}

Indices(t) == [i \in DOMAIN t |-> i]
Keep(t, K) == AllOf(SelectSeq(Indices(t), LAMBDA i : i \in K), LAMBDA i : t[i])

\* umount(2), lazily when it is busy: the mount and all that is mounted in it.
Umount(t, p) ==
    LET tops == {i \in Tops(t, p) : ~t[i].locked}
        gone(i) == {i} \union {j \in (i + 1)..Len(t) : IsStrictPrefix(p, t[j].at)}
    IN  IF tops = {} THEN t ELSE Keep(t, DOMAIN t \ UNION {gone(i) : i \in tops})

\* get_active_mounts(): deepest first; a mount at the rootfs itself is not one of them.
ActiveMounts(t) ==
    LET deeper(i, j) == Len(t[i].at) > Len(t[j].at) \/ (Len(t[i].at) = Len(t[j].at) /\ i < j)
        below == SelectSeq(Indices(t), LAMBDA i : t[i].at # <<>>)
    IN  AllOf(SortSeq(below, deeper), LAMBDA i : t[i].at)

\* unmount_all(): one pass.
UnmountOnce(t) == FoldLeft(Umount, t, ActiveMounts(t))

\* ensure_no_mounts(): may the tree be deleted?
EnsureNoMounts(t) ==
    LET left == IF ActiveMounts(t) = <<>> THEN t ELSE UnmountOnce(t)
    IN  IF ActiveMounts(left) = <<>> THEN Ok(left) ELSE Fail(left)

\* make_rslave()
MakeRslave(t, p) == [i \in DOMAIN t |-> IF i \in Tops(t, p) THEN [t[i] EXCEPT !.slave = TRUE] ELSE t[i]]
MakeReadOnly(t, p) == [i \in DOMAIN t |-> IF i \in Tops(t, p) THEN [t[i] EXCEPT !.ro = TRUE] ELSE t[i]]

-----------------------------------------------------------------------------
(* Carrying binds out. *)

\* resolve_mount_target(): no component may be a link of the image.
WalkRefused(s, t, p) ==
    \E l \in DOMAIN s.links : IsPrefix(l, p) /\ Shows(t, l) = {}

\* bind_is_recursive()
Recursive(s, b) ==
    \/ IsPrefix(Resolved(s, Run), b.dst)
    \/ b.src = Wsl
    \/ s.termux /\ b.src \in Range(SystemDirs)
    \/ s.userns /\ b.src \in {Sys, Dev, Data, Prefix}

\* A user namespace may not split a tree off its submounts.
KernelRefuses(s, b, recursive) ==
    \/ <<"bind", b.dst>> \in s.refuses
    \/ s.userns /\ ~recursive /\ b.src \in s.submounts

\* The type /proc/mounts shows for a bind of a host path.
HostFs(s, p) ==
    CASE p = Sys -> "sysfs" [] p = Pts -> "devpts"
      [] p = Dev -> IF s.termux THEN "tmpfs" ELSE "devtmpfs" [] OTHER -> "disk"

HasPtmx(t, p) == (\E i \in Tops(t, p) : t[i].src = Dev) \/ Tops(t, Append(p, "pts")) # {}

\* remount_bind() says nothing when it is refused and the mount has no locked flags.
\* safe_mount(): a target that is mounted already is taken as it is, unless it lacks ptmx.
SafeMount(s, t, b, recursive, needsPtmx) ==
    LET trusted == MountedAt(t, b.dst) /\ (~needsPtmx \/ s.holder \/ HasPtmx(t, b.dst))
        entry   == [Entry(b.dst, b.src, HostFs(s, b.src))
                      EXCEPT !.ro = /\ OptionsFor(s, b.dst) = "ro"
                                    /\ <<"remount", b.dst>> \notin s.refuses]
    IN  IF ~Exists(s, b.src) THEN Fail(t)
        ELSE IF b.src \in s.empty \/ trusted THEN Ok(t)
        ELSE IF WalkRefused(s, t, b.dst) \/ KernelRefuses(s, b, recursive) THEN Fail(t)
        ELSE Ok(Append(t, entry))

\* split_dev_binds()
IsDevBind(s, b)  == IsPrefix(Resolved(s, Dev), b.dst)
DevBinds(s, bs)  == SelectSeq(bs, LAMBDA b : IsDevBind(s, b))
RestBinds(s, bs) == SelectSeq(bs, LAMBDA b : ~IsDevBind(s, b))

\* apply_bind_mounts(): a failure ends it, but for the best-effort sources.
ApplyBinds(s, t, bs) ==
    LET slaves == {Resolved(s, Dev), Resolved(s, Sys)}
        one(r, b) ==
          IF ~r.ok THEN r
          ELSE LET made == SafeMount(s, r.table, b, Recursive(s, b), b.dst = Resolved(s, Dev))
               IN  IF ~made.ok THEN (IF b.src \in BestEffort(s) THEN Ok(made.table) ELSE made)
                   ELSE IF ~s.holder /\ b.dst \in slaves THEN Ok(MakeRslave(made.table, b.dst))
                   ELSE made
    IN  FoldLeft(one, Ok(t), bs)

-----------------------------------------------------------------------------
(* Filesystems mounted by type. *)

Special(fs, at, optional) == [fs |-> fs, at |-> at, optional |-> optional]

\* get_special_mounts() with _usb_specials() and _binfmt_misc_special().
Specials(s) ==
    <<Special("tmpfs", Dev, FALSE)>>
    \o When(~s.userns, <<Special("sysfs", Sys, TRUE)>>)
    \o <<Special("proc", Proc, FALSE), Special("devpts", Pts, FALSE)>>
    \o When(~s.minimal /\ s.termux /\ "usbfs" \in s.supports, <<Special("usbfs", Usb, TRUE)>>)
    \o <<Special("tmpfs", Shm, TRUE)>>

HasBinfmt(s) == ~s.minimal /\ ~s.userns /\ "binfmt_misc" \in s.supports

\* /dev/pts is the one instance of the kernel: it is bound, where the host's can be seen.
BindHostPts(s, t, sm) ==
    IF MountedAt(t, sm.at) THEN [res |-> "done", table |-> t]
    ELSE IF s.holder THEN [res |-> "no", table |-> t]
    ELSE IF WalkRefused(s, t, sm.at) \/ <<"bind", Pts>> \in s.refuses
         THEN [res |-> IF sm.optional THEN "no" ELSE "raise", table |-> t]
    ELSE [res |-> "done", table |-> Append(t, Entry(sm.at, Pts, "devpts"))]

\* Does what is mounted there look like what would be mounted?
LooksRight(t, sm) ==
    \E i \in Tops(t, sm.at) :
      IF sm.fs = "devpts" THEN t[i].fs = "devpts" /\ t[i].src = NoSource ELSE t[i].fs = sm.fs

\* apply_special_mount(); a refusal is of every option string that is tried.
ApplySpecial(s, t, sm, forced) ==
    LET failed  == [res |-> IF sm.optional \/ forced THEN "no" ELSE "raise", table |-> t]
        trusted == IF s.holder THEN MountedAt(t, sm.at)
                   ELSE ~WalkRefused(s, t, sm.at) /\ LooksRight(t, sm)
        free    == IF s.holder THEN t ELSE MakeRslave(t, sm.at)    \* stacked on a private mount
        lonePts == /\ sm.fs = "devpts" /\ s.pts = "lone" /\ ~s.holder
                   /\ \E i \in Tops(t, sm.at) : t[i].fs = "devpts"
    IN  IF sm.fs \notin s.supports \union {"tmpfs"} \/ (sm.fs = "binfmt_misc" /\ Shows(t, Proc) = {})
        THEN [res |-> "no", table |-> t]
        ELSE IF sm.fs = "devpts" /\ s.pts = "single" THEN BindHostPts(s, t, sm)
        ELSE IF trusted THEN [res |-> "done", table |-> t]
        ELSE IF WalkRefused(s, t, sm.at) THEN failed
        ELSE IF lonePts THEN [res |-> "done", table |-> t]
        ELSE IF <<sm.fs, sm.at>> \in s.refuses THEN failed
        ELSE [res |-> "done", table |-> Append(free, Entry(sm.at, NoSource, sm.fs))]

\* create_dev_nodes(): mknod, or in a user namespace a bind of the host's node.
DevNodes == <<"null", "tty">>
MakeNodes(s, t) ==
    LET node(u, n) == IF <<"bind", Append(Dev, n)>> \in s.refuses THEN u
                      ELSE Append(u, Entry(Append(Dev, n), Append(Dev, n), "disk"))
    IN  IF s.userns THEN FoldLeft(node, t, DevNodes) ELSE t

\* _bind_host_sys()
BindHostSys(s, t) ==
    LET at == Resolved(s, Sys) IN
    AndThen(SafeMount(s, t, Bind(Sys, at), TRUE, FALSE),
            LAMBDA u : Ok(MakeReadOnly(MakeRslave(u, at), at)))

DevSpecial(s, t, sm) ==
    LET fresh == ApplySpecial(s, t, sm, TRUE) IN
    IF fresh.res = "done" \/ s.max THEN Ok(MakeNodes(s, fresh.table))
    ELSE SafeMount(s, fresh.table, Bind(Dev, Resolved(s, Dev)), s.userns, TRUE)

SysSpecial(s, t, sm) ==
    LET fresh == ApplySpecial(s, t, sm, FALSE)
    IN  IF fresh.res = "done" THEN Ok(fresh.table) ELSE BindHostSys(s, fresh.table)

PtsSpecial(s, t, sm) ==
    LET fresh == ApplySpecial(s, t, sm, FALSE)
    IN  IF fresh.res # "raise" THEN Ok(fresh.table)
        ELSE SafeMount(s, fresh.table, Bind(Pts, Resolved(s, Pts)), FALSE, FALSE)

OtherSpecial(s, t, sm) ==
    LET fresh == ApplySpecial(s, t, sm, FALSE)
    IN  IF fresh.res = "raise" THEN Fail(fresh.table) ELSE Ok(fresh.table)

OneSpecial(s, t, sm) ==
    CASE sm.at = Dev -> DevSpecial(s, t, sm)
      [] sm.at = Sys -> SysSpecial(s, t, sm)
      [] sm.at = Pts -> PtsSpecial(s, t, sm)
      [] OTHER       -> OtherSpecial(s, t, sm)

\* Some of the masked and of the read-only paths.
MaskedPaths   == <<<<"proc", "acpi">>, <<"proc", "kcore">>, <<"sys", "firmware">>>>
ReadOnlyPaths == <<<<"proc", "bus">>, <<"proc", "sys">>>>

\* What a filesystem below the rootfs carries: the paths of proc and sysfs.
Carried(t, p) == \E i \in Shows(t, p) : t[i].fs = (IF Head(p) = "proc" THEN "proc" ELSE "sysfs")

\* _apply_masked_paths(): what cannot be covered is skipped.
ApplyMasks(s, t) ==
    LET covered(u, fs, p) ==
            IF Carried(u, p) /\ <<fs, p>> \notin s.refuses THEN Append(u, Entry(p, NoSource, fs)) ELSE u
        masked == FoldLeft(LAMBDA u, p : covered(u, "mask", p), t, MaskedPaths)
    IN  FoldLeft(LAMBDA u, p : covered(u, "self", p), masked, ReadOnlyPaths)

\* apply_special_mounts(): binfmt_misc last, over the read-only /proc/sys.
ApplySpecials(s, t) ==
    LET sys    == IF s.userns /\ ~s.max THEN BindHostSys(s, t) ELSE Ok(t)
        one(r, sm) == AndThen(r, LAMBDA u : OneSpecial(s, u, sm))
        fresh  == FoldLeft(one, sys, Specials(s))
        binfmt == Special("binfmt_misc", Binfmt, TRUE)
        last(u) == IF HasBinfmt(s) THEN ApplySpecial(s, u, binfmt, FALSE).table ELSE u
    IN  AndThen(fresh, LAMBDA u : Ok(last(ApplyMasks(s, u))))

-----------------------------------------------------------------------------
(* Sessions. *)

\* The first session of a container: what a dead one left goes first; a failure takes all
\* of it down again.
FirstSession(s, t) ==
    LET binds  == GetBindings(s)
        swept  == UnmountOnce(t)
        bound  == ApplyBinds(s, swept, RestBinds(s, binds))
        slaves(u) == FoldLeft(MakeRslave, u, SetToSeq(RslaveTargets(s)))
        special == AndThen(bound, LAMBDA u : ApplySpecials(s, slaves(u)))
        all    == AndThen(special, LAMBDA u : ApplyBinds(s, u, DevBinds(s, binds)))
    IN  IF all.ok THEN all ELSE Fail(UnmountOnce(all.table))

\* On Android a maximum isolation that fails is tried once more as the plain one.
Login(s, t) ==
    LET first == FirstSession(s, t)
    IN  IF s.max /\ s.termux /\ ~first.ok THEN FirstSession([s EXCEPT !.max = FALSE], first.table)
        ELSE first

\* A session of a running container: what the container lacks, as far as it can be had.
Pending(s, t) == SelectSeq(GetBindings(s), LAMBDA b : ~MountedAt(t, b.dst))
JoinSession(s, t) ==
    LET made == ApplyBinds(s, t, Pending(s, t)).table
        slaves == {p \in RslaveTargets(s) : \E b \in Range(Pending(s, t)) : b.dst = p}
    IN  FoldLeft(MakeRslave, made, SetToSeq(slaves))

\* max_isolation_session() and namespace_session(): a RUN step of the builder.
BuildStep(s, t) ==
    LET binds == GetBindings(s)
        slaves(u) == IF s.max THEN FoldLeft(MakeRslave, u, AllOf(binds, LAMBDA b : b.dst)) ELSE u
    IN  AndThen(ApplyBinds(s, UnmountOnce(t), binds), LAMBDA u : ApplySpecials(s, slaves(u)))
=============================================================================
