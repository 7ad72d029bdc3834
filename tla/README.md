# chroot-distro: TLA+ models, checks and proofs

chroot-distro installs Linux distributions and OCI images as directory trees and runs
sessions in them with `chroot(2)`, with or without namespaces. It has no server that
owns its state: every command is a process of its own that works on a shared directory
tree, on shared flocks, on `/proc` and on the mount table, next to other commands doing
the same. What can go wrong is therefore mostly *between* commands: two of them
interleave, one dies half way and the next finds what it left. The rest is in what one
command does over a long list of small decisions: the mounts of a session, the layers of
a build, the answers of a registry. The unit tests run one command at a time, with one
list. This project is about the rest.

Source paths below are relative to `src/chroot_distro/`; `README.md:591` and the like
refer to the repository's own README.

## 1. Inventory

| Component | State it keeps | Operations | Talks to | Status |
|---|---|---|---|---|
| Lock files (`locking.py`) | one file per container, build tag, RUN cache; the flock of each open file description; the holder line; `_held_exclusive` | acquire (shared/exclusive, blocking or not, nested), release, `busy_locks` | every command | modelled |
| Sessions of a container (`commands/login`, `helpers/session.py`, `commands/kill.py`, `commands/unmount.py`, `commands/run.py`) | `sessions` count, `sessions.lock`, `mount_opts.json`, `isolation.mode`, mounts, processes in the rootfs | enter, first mount or join, run, detach, leave, sweep, teardown; `kill`; `unmount` | lock files, namespace holder, mounts, `/proc` | partly |
| Namespace holder (`helpers/namespace.py`, `syscalls/unshare.py`) | launcher and holder processes, four pipes, `<name>.pid`, `.flags`, `.maxiso` | create (handshake), record, identify, attach, release | sessions, `kill` | partly |
| Mounts of a session (`commands/login/bindings.py`, `helpers/isolation.py`, `mount_manager.py`, `mount_targets.py`) | the mount table below the rootfs | plan the binds, mount, fall back, join, mask, unmount | sessions, builds | partly |
| Process control (`syscalls/chroot.py`, `syscalls/nsenter.py`, `daemon.py`, `elevate.py`) | the child, its terminal, relayed signals; the daemon's requests and socket | wait with and without a pty, relay, escalate, capture; serve, idle out | sessions | partly |
| Session registry (`helpers/session_registry.py`, `commands/ps.py`) | `<pid>.json`, each under the flock of its session | register, hand over, probe, prune | sessions, `kill` | partly |
| Container store (`commands/install.py`, `reset`, `remove`, `rename`, `restore`, `backup`, `paths.py`) | `containers/<name>/`: rootfs, `manifest.json`, `.install-incomplete` | the seven commands | lock files, layer cache | partly |
| Build cache (`helpers/build_cache.py`, `build_cache_io.py`, `commands/clear_cache.py`) | index of recipes, layer blobs, its flock | lookup, record, merge, touch, prune, discard, sweep | builds, image manifests | partly |
| Build engine (`commands/build.py`, `helpers/build_engine/`, `helpers/dockerfile.py`) | stages, scratch trees, scopes of ARG and ENV, RUN mounts, build locks | plan, walk, RUN, COPY, ADD, WORKDIR, mounts, platforms | build cache, layers, lock files | partly |
| Layer diff and unpacking (`helpers/layer_diff.py`, `tar_extract.py`, `export_rootfs.py`) | none beyond a call | snapshot, diff, whiteouts, pack, apply, baseline | builds, install, diff | partly |
| Registry client (`helpers/docker/`, `helpers/download.py`, `helpers/oci_writer.py`) | manifest and layer caches, chunk files, the recorded split | pull, push, segmented and resumed download, retries, documents of an image | store, builds | partly |
| Copy, sync, diff (`commands/copy.py`, `sync.py`, `diff.py`) | none beyond a call | merge, mirror, prune extras, move, compare | lock files, walks | partly |
| File publication (`atomic.py`, `dirfd.py`) | open directories of a walk, temporaries | walk, copy, rename, remove | every writer | partly |
| Kernel interface (`syscalls/*`) | none | wrappers of system calls | | not modelled: pure I/O |
| Desktop integration (`helpers/display.py`, `x11.py`, `sound.py`, ...) | none | computes environment variables and sockets to bind | sessions | not modelled: no state |
| Command line and output (`cli.py`, `parser.py`, `message.py`, ...) | none | parsing and formatting | | not modelled: formatting |

What is hard, and what makes each component correct:

* **Lock files.** The name is resolved in one system call and locked in another;
  `remove` deletes the name; something else may stand under it; a process may die
  anywhere. Correct if the lock excludes, if nesting never outlives the flock, if the
  holder line is true, and if a waiter is served.
* **Sessions.** A count in a file that crashes make wrong, a repair of it from `/proc`,
  a process that shows in `/proc` only after the lock around the count is released, a
  holder that inherits the descriptors of both locks, and `kill`, which takes neither.
  Correct if nobody loses the mounts it runs on, nobody is killed by another session's
  cleanup, the last one out leaves nothing, and nobody waits for ever.
* **Namespace holder.** Three processes shake hands over pipes whose ends they inherit
  from each other, each can fail or die anywhere, pids are reused, and readers of the
  record take no lock. Correct if no holder is left that nobody knows of, no stranger is
  signalled, and nobody waits for ever with `sessions.lock` in hand.
* **Mounts.** Order decides what can be seen; any mount may be refused; what is mounted
  under a shared mount shows on the host. Correct if everything asked for is in sight,
  nothing of a session is left, and nothing of it reaches the host.
* **Process control.** A poll loop, three ways to end (child, terminal, deadline) and
  signals in between. Correct if the wait ends, and with the command's own code.
* **Store.** Seven commands over one directory, with the marker as the only record of
  what was under way. Correct if no container replaces or loses another, readers see no
  change, and an interrupted install is told from a finished one.
* **Build cache.** Read-modify-write of one document by many builds, blobs published
  before they are named, and a garbage collector. Correct if no update is lost, no
  record names a blob that is not there, and no stored image loses a layer.
* **Builds and layers.** The rootfs is changed in place and described a second time as
  layers; the two must be the same tree, and a recipe must name everything a step reads.
* **Registry client.** Threads that share an abort flag, files that outlive the process,
  requests that are lost half way. Correct if a cached name means verified bytes,
  progress is kept, retries do no harm, and everything ends.
* **Transfers.** A walk over a tree that somebody changes, and a command that may be
  killed and run again. Correct if success means carried over, if nothing with a
  counterpart and no only copy is removed, and if the quick check is never deceived.

PROJECT.json lists every hazard at the line where it bites, with the properties that
would catch it.

## 2. Modules

State machines:

| Module | What it is |
|---|---|
| `SharedLock` | what a lock promises: owners in compatible modes |
| `FlockLock`, `MCFlockLock` | the lock file, inodes, flocks and steps of `_FlockBase`; implements `SharedLock` |
| `ContainerSessions`, `MCContainerSessions` | login, run, kill and unmount of one container |
| `NamespaceHolder`, `MCNamespaceHolder` | the handshake that makes a holder, its record and its release |
| `ContainerCatalog` | what the store promises: a catalog of finished containers |
| `ContainerStore`, `MCContainerStore` | the seven commands over `containers/<name>/`; implements `ContainerCatalog` |
| `BuildCache`, `MCBuildCache` | index, blobs, manifests, builds and `clear-cache --build-cache` |
| `LayerDownload`, `MCLayerDownload` | the segmented download of a file or a layer |
| `FileTrees`, `LayerTrees` | file trees; layers, their packing and unpacking as operators on trees |
| `BuildStage`, `MCBuildStage` | the instructions of one stage over a rootfs and the layers they record |
| `TreeTransfer`, `MCTreeTransfer` | sync, copy and move of a directory |

Operators, for what a command decides without anybody else, evaluated by TLC over every
small input (the `ASSUME`s of the `MC` modules):

| Module | What it is | Evaluated with |
|---|---|---|
| `MountPlan`, `MCMountPlan` | the mounts of a session | every `Sessions...` run |
| `ForegroundWait`, `MCForegroundWait` | the wait for a command; the daemon | every `Sessions...` run |
| `SessionRegistry`, `MCSessionRegistry` | the record of a session and its readers | every `Sessions...` run |
| `BuildPlan`, `MCBuildPlan` | what a Dockerfile means | `BuildLayers` |
| `RunMounts`, `MCRunMounts` | `RUN --mount` | `BuildLayers` |
| `ImageRegistry`, `MCImageRegistry` | push, pull, caches and documents of an image | `DownloadResumes` |

Proofs: `FlockLockProofs`, `ContainerSessionsProofs` (types and locks, then mounts and
counts), `NamespaceHolderProofs`, `ContainerStoreProofs`, `BuildCacheProofs`,
`LayerDownloadProofs`, `BuildStageProofs`, `TreeTransferProofs`.

The composition is by contract. `FlockLock` is shown to implement `SharedLock`, and the
other modules use a lock as `SharedLock` has it (a holder per name in a mode, compatible
holders, gone with the process), each in the form its component needs. They do not carry
the lock file's inodes along. In the same way `ContainerSessions` has a holder that is
there or not, and mounts that are there or not: `NamespaceHolder` and `MountPlan` say how
they come about, `ForegroundWait` what happens between `Chroot` and `Exits`, and
`SessionRegistry` what `kill` and `ps` are told. `BuildStage` has the layers `BuildCache`
only names, and `BuildPlan` the instructions `BuildStage` carries out. `LayerDownload`
fetches the layers `ImageRegistry` and `ContainerStore` take from the cache.

### FlockLock

One lock. `entry` is what the name refers to, `fd[p]` and `mode[p]` are the descriptor
of `p` and the flock on it, `line[i]` the holder line of inode `i`, `pc[p]` where `p` is
in `acquire`, its command or `release`. `Open` is `_open_lock_file` with `O_CREAT`,
`Drop` and `Reopen` the treatment of a planted entry, `Grant`, `Refuse` and
`FlockUnsupported` the outcomes of `flock(2)`, `Write` the holder line, `Nest` and
`Unnest` the re-entrant path, `UnlinkAfterRelease` what `remove` does, `ProbeOpen` to
`ProbeEnd` `busy_locks`, `Crash` the death of a process and `Occupy` something foreign
turning up under a free name. A free inode number may be used again.

### ContainerSessions

One container, in all the session modes: `host` (no namespaces), `plain` (a holder that
keeps the namespaces), `maxiso` (a holder that has itself entered the rootfs). `count`,
`options` and `isolation` are the three files; `mounted` says where the rootfs has
mounts; `holder`, `creator`, `bound` and `inherited` are the holder process, who forked
it, whose `Holder` object still names it and which descriptors it has; `inside` are the
processes `/proc` shows with the rootfs as their root; `starting` are the detached
children that are not there yet. `Check`, `Increment`, `FirstHolder`, `FirstUnmount`,
`FirstMount`, `Join`, `Chroot` and `Exits`, `Decrement`, `Reap`, `Teardown`, `Leave` are
one session in the order of `_command_login_inner_once` and `_exit_teardown`, each a step
between two points where others can see the state; the `...Fails` actions are its error
paths; `Sweep` is the relay of a signal. `Features` switches what else happens: mount
failures, survivors of SIGKILL, processes left behind, `--get-chroot-cmd`, `--detach`,
signals, `kill`, `unmount` and crashes.

### NamespaceHolder

`spawn[k]` is the k-th launcher with the holder it forks and `pipe[k]` what is in its
pipes; a read gets a word or, once no process has the other end open, the end of file,
and who has it open follows from where everybody is (`AnswersOpen` and its like).
`owner` gives a pid to nobody, to a stranger or to a holder, and the lowest free number
is used again. `record`, `flags` and `maxiso` are the three files, of which the first can
be read torn. `me[c]` is where a login (or `kill`, which takes no lock) is: its
handshake, the writing of the record, its mounts, its session, the release. Every step
of the handshake may fail or find its peer dead; `MaxDeaths` processes may be killed from
outside anywhere.

### MountPlan

`GetBindings(s)` is `get_bindings()`: the binds of a session `s` in their order, with the
groups Android, Termux and the desktop ask for shortened to one or two paths each.
`FirstSession`, `JoinSession`, `BuildStep` carry a list out on a mount table, with a set
of mounts the kernel refuses, including the fallbacks of `isolation.py` and the masks;
`UnmountOnce` is the pass of `unmount_tree`. A table is a sequence, as `/proc/mounts`
has it, so that what is covered is known.

### ForegroundWait

A wait is a function of a schedule of rounds, each the set of events since the last
poll: `PlainWait` is the loop without a terminal, `PtyWait` the relay of a pty with its
inner copy loop, `Captured` the run with a deadline, `Escalated` the watch over what
ignored a signal, `ClosedAbove` the closing of inherited descriptors, `Served` and
`Idles` the daemon.

### SessionRegistry

A registration is the list of its calls (lock the temporary, write, publish), a reader's
look the list of its three (read, probe, list or remove). `Orders` has all the ways two
lists interleave; `After` is what they leave. `Untracked` is the part of `ps` that
looks for processes nobody has recorded.

### ContainerStore

`tree[n]` is the directory of container `n` (marker, manifest, rootfs), `held[p][n]` the
container locks, `job[p]` the command with its arguments. A rename locks the smaller of
its two names first. `content[n]` is a history variable: the finished container under
the name, which the code does not store and which the properties are about. Extraction,
removal of a tree and the writing of a manifest in place take several steps and can stop
after each of them; `Piecemeal = FALSE` makes a removal one step.

### BuildCache

`blobs` are the files of the layer cache, `index` the recipes' entries, `images` the
layers each stored manifest names. A build holds its tag (`BuildLock`), looks a recipe
up without a lock, applies the hit or executes, publishes the blob, and records it under
the index flock in two steps, `Load` and the save. `touch` and `prune` end it. A sweep
asks for builds, computes what to keep, drops or prunes the index, lists the directory
and removes file after file. Which entries a prune evicts (least recently used, by size)
is left open, as are the contents of layers: `Execute` may give any layer, so two steps
may give the same one.

### LayerDownload

`chunk[i]` is the content of the chunk file of segment `i` as a sequence of units,
`split` the recorded split, `dest` what the final name refers to; all of it outlives the
process. `pc[p]` is the loader, `worker[p][i]` the thread of a segment with how many
units it believes to have (`got`), whether its file is open to append, its attempts and
its reconnects. A server may send a wrong unit, end early, drop the connection, refuse a
range or answer with an error; `Interrupt` is Ctrl+C, `Crash` the death of the process.
The threads a failed loader leaves behind go on until they see the abort event.

### FileTrees, LayerTrees, BuildStage

A tree maps paths to entries. `Resolve` follows links within the tree as
`safe_resolve_parts` does: `Passes` are the places a path comes by, and as long as one of
them is a link its target takes the place of what led there (`Followed`), 40 times at
most. `Apply` unpacks a layer member by member (`Unpack`), whiteouts and
opaque markers included; `Snapshot`, `Modified` and `PackDiff` are the
comparison of a RUN and the layer it becomes, `Materialise` and `PackFiles` the two passes
of COPY and ADD, `Baseline` what `diff` takes layers for. `BuildStage` runs instructions
over a rootfs: each changes
`rootfs` and appends a layer, and `image` is what all the layers unpack to. A RUN is any
sequence of edits, and may leave a process that goes on editing until it is stopped.
`drift` records six reasons for which the code lets rootfs and layers differ, and ends
the behaviour; a seventh (`archive`) is for `diff` alone. Section 6 lists them.

### TreeTransfer

`stack` are the open directories of the walk, `doing` the file it is at with what it has
read of it, `seen`, `skipped` and `failed` the lists the passes hand on, `targets` what
is left to prune. The owner of the source edits it between any two steps; a write can
fail, a directory can be unreadable, the command can be killed and another one started.
`was`, `stable` and `ever` are history: what the source was when the command began, what
of it nobody has touched, and what paths it has had.

### BuildPlan, RunMounts, ImageRegistry

`BuildPlan` walks a list of parsed instructions as the engine does: scopes of ARG and
ENV, stages and their bases, ONBUILD triggers, the config that results, the platforms,
and `Recipe` (what a RUN is cached under), beside the layer itself, which is what it was
made from.
`RunMounts` has the parsing of `--mount`, the session that mounts and cleans up, and the
locks of RUN caches. `ImageRegistry` runs a command against a registry, a cache and a
list of what happens to the requests to come.

## 3. What TLC checks

Twelve runs, all passing. Deadlock is checked in all of them: somebody can always go on,
or the machine says in an action of its own that nothing is left to do.

| Run | Instance | Shows |
|---|---|---|
| `FlockKept` | 3 processes, 2 inodes, exclusive and shared commands, nesting to depth 2, probes, refusing filesystem, crashes | `TypeOK`, `MutualExclusion`, `NestingSound`, and that the protocol implements `SharedLock` |
| `FlockForeign` | 2 processes, 3 inodes, `remove` and a blocking RUN cache lock, anything foreign under the name; fair | `HolderNamed`, `WaiterServed` |
| `SessionsIsolated` | 3 maximum-isolation sessions, mount failures, processes left behind, `--get-chroot-cmd` | `LiveSessionMounted`, `LastOutTearsDown`, `SweepSparesOthers` |
| `SessionsPlain` | 2 processes, namespace mode, every feature, crashes included | `TypeOK`, `LastLeaverTearsDown`, `UnmountClean` |
| `SessionsProgress` | 2 processes, host mode, failures, `kill`, `unmount`, crashes; fair | `EveryoneGetsOut` |
| `HolderRecords` | 2 logins and a `kill`, 3 pids, kernels with and without PID and user namespaces, two kinds of holder, one process killed, one stranger; fair | `TypeOK`, `StrangersSpared`, `HoldersOnRecord`, `LockComesFree` |
| `StoreCommands` | 2 processes, 2 names, 3 containers, all commands, failures, crashes, removal entry by entry | `TypeOK`, `ReadersUndisturbed`, and that the commands implement `ContainerCatalog` |
| `StoreLeftovers` | the same without restore, removal at once | `MarkerTells`, `NothingLost` |
| `CacheBuilds` | 2 processes, 2 recipes, 3 layers, 2 tags, builds of up to 2 steps, both forms of the sweep, crashes | `TypeOK`, `ImagesComplete`, `RecordedBacked`, `NoUpdateLost` |
| `DownloadResumes` | 1 process that downloads twice, 2 segments of 2 units, 1 retry, 1 reconnect, 1 wrong unit, everything that can happen to a connection, interrupts and crashes; fair | `TypeOK`, `CachedMeansVerified`, `SegmentsInPlace`, `ProgressKept`, `DownloadEnds` |
| `BuildLayers` | 2 base images, stages of 2 instructions with 2 edits each, contexts with links, 2 archives, strays | `TypeOK`, `ImageIsRootfs`, `FreshInstallDiffersNowhere` |
| `TransferTrees` | 2 commands of 6 kinds one after the other, 1 edit of the source, 1 failed write, unreadable directories, kills anywhere | `TypeOK`, `SuccessCarries`, `QuickCheckSound`, `SuccessPrunes`, `MoveLosesNothing`, `SparesCounterparts` |

What the properties mean is said above each of them in its module.

### The operators

With the runs TLC evaluates the assumptions below over every input of the sets in the
`MC` modules. Those that say what the code does *not* do (marked with a star, and listed
in section 6) are stated as what happens, so that a repair of the code shows in the
model.

| Module | Inputs | Assumptions |
|---|---|---|
| `MCMountPlan` | all combinations of the switches of a session on a small host, and each mount refused | `ParentsFirst`, `CustomBound`, `AllInSight`, `SweptClean`, `StartedOrGone`, `LittleOfTheHost`, `DevAndSysKeepToThemselves`, `StaleDevCovered`, `NeverOverMounts`, `JoinAdds`, `LiveSpecsWin`, `BuildStepInSight`, `TranslationLands`; *`LinkedParentLast`, *`FallbackDevPropagates`, *`NestedBindPropagates`, *`JoinCovers` |
| `MCForegroundWait` | schedules of 3 rounds with events and 7 quiet ones, for leaders and followers, deaf processes and orphans | `PlainReportsTheCode`, `SomePtyReports`, `SignalsEndTheWait`, `LeadersAreSignalled`, `OrphansDoNotHold`, `OnlyHangupRaises`, `DeadlinesEndTheWait`, `FallbackRunsOnce`, `DelegatedCode`, `LeavesWhenIdle`, `PersistsIfAsked`; *`PtyLosesTheCode`, *`OthersHoldTheWait`, *`SignalsAreDropped`, *`NoiseHolds`, *`HangupRaises`, *`CapturesCanBlock`, *`ClosesTheRest`, *`HangupIgnored`, *`OldTakesNew` |
| `MCSessionRegistry` | every interleaving of two sessions' calls with a reader's | `LiveIsListed`, `OthersDoNotDisturb`, `FailuresLeaveNothing`, `OrphansAreUntracked`, `UntrackedAreShown`; *`OldIsListed`, *`NewIsPruned`, *`DetachedIsHidden` |
| `MCBuildPlan` | every Dockerfile of a few lines over small sets of instructions, base images with triggers, platforms | `HistoryCountsLayers`, `TriggersFireOnce`, `TriggersMakeLayers`, `LoaderIsTheAuthors`, `EnvIsRecorded`, `NumbersName`, `ArgPrecedence`, `GlobalsAreHidden`, `StageInheritsPlatform`, `EmulatorsForeseen`, `TargetEndsTheBuild`, `AllPlatformsOrNone`, `BuildsDoNotBlock`, `RecipeTellsSteps`; *`SameLineArg`, *`TriggersNotForeseen`, *`ScratchTakesThePlatform`, *`RecipeForgetsUser`, *`RecipeForgetsTree` |
| `MCRunMounts` | lists of up to 2 mounts of every type, over rootfs trees that have the targets or not, each mount failing | `OnlyTheStepIsLeft`, `HolderSparesTheImage`, `ParsedSaysAll`, `InputsTellTrees`; *`HiddenPathRemoved`, *`CachesCanBlock` |
| `MCImageRegistry` | registries that have all, some or none of an image, strict ones and lenient ones, and every short list of things that happen to the requests | `PushedIsWhole`, `RepushCompletes`, `PushOutlastsDrops`, `SpoiltIsRefused`, `PulledIsTheImage`, `PullCanBeRepeated`, `PickedFits`, `EntriesKeepApart`, `SweepKnows`, `PlainOnlyIfAllowed`, `ArchiveIsClosed`, `BuiltGoesRound`; *`BrokenChunkFails`, *`ConfigLostForGood`, *`SingleIsNotChecked` |

### Bounds, and why they are enough

* *Processes.* Two show every pairwise race. Three are used where a property takes a
  third: shared owners next to an exclusive one (`FlockKept`), and a session that leaves
  while another enters and a third runs (`SessionsIsolated`). `FlockForeign` has two, as
  its liveness check cannot use symmetry; its safety properties are proved for any
  number.
* *Inodes.* One more than processes that can hold one open lets the name move on while
  both old files are held; numbers are used again, as the kernel does.
* *`MaxCount = 3`* bounds the sessions counted at once. It exceeds the number of
  processes wherever a crash can leave a count behind, so that a stale count is reached.
* *`MaxDepth`* bounds nesting; two distinguishes the innermost release from the others.
* *Holder.* Two launchers (`MaxSpawns`) let one be made after, or next to, one that
  failed; three pids let the lowest free number come round to a holder, a stranger and a
  holder again. One death (`MaxDeaths`) at any point of either handshake, one stranger
  (`MaxStrangers`) and two commands (`MaxCommands`) are what the run can take; a second
  death mostly meets a handshake that has failed already.
* *Store.* Two names are what rename takes; three containers let one be made while two
  exist. An identity is used again once no name has it.
* *Cache.* Two recipes and three layers let two builds record different recipes, record
  the same one twice, and leave a layer nobody names. `MaxSteps = 2` lets a build hit
  after another has recorded, and import before it executes.
* *Download.* Two segments let one fail while the other goes on, two units let a chunk
  file be torn in the middle. Two runs (`MaxRuns`) are what resuming takes. `MaxRetries`
  and `MaxReconnects` of one tell the last attempt from the others. The safety properties
  are proved for all values; that two processes may write the same chunk files is in the
  module (`overlap`) and in the proof, and TLC looks at one process.
* *Builds.* Two instructions are what one needs to change what another has made; two
  edits make a change of kind (a directory for a file) and a change below it. Two names,
  one with an entry below, are what whiteouts, opaque directories and links through a
  merged directory take; `MaxDepth` keeps the maps to that. One archive has a file below
  a link of its own and one has a link below a directory. The safety properties are
  proved for all values.
* *Transfers.* The second command runs over what the first one left (`MaxRuns`). One
  edit anywhere in the source (`MaxEdits`) and one failed write (`MaxFaults`) can each
  hit any step of either.
* *Waits.* `Grace` and `IdlePolls` are the rounds of a delay. Three rounds with any
  events put two things in one poll, one after the other, and on both sides of the delay.

### What the passing runs leave out

Each passing run has the settings in which the code is right. What was left out was left
out because the property fails with it, and section 6 names the setting:
`FlockKept` has no `remove`; `SessionsIsolated` has no crashes, signals and `kill`, which
between them break one or another of its three properties (section 4 has for each what it
really takes: `LiveSessionMounted` stands against all of them but `kill`);
`SessionsPlain` has one mode; `StoreLeftovers` has no restore and no removal that stops
half way; `CacheBuilds` has no build that begins under a sweep (`LateStart = FALSE`).
`DownloadResumes` says of a download that overlaps another only that it publishes
nothing unverified and ends. `ImageIsRootfs` holds until one of the reasons in `drift`
occurs, and `HoldersOnRecord` until one of those in `astray` does: each reason is a
decision of the code that section 6 describes, and the state where it happens is the
state where it is recorded.

### Fairness

Fairness is assumed only where a liveness property is checked.

* `WF` of a process's own steps: the scheduler runs it. Its start, its death, what the
  guest does, and whether anybody ever runs `kill` or `unmount` are under no fairness.
* `SF` of taking a lock in a blocking `flock(2)` (`Grant`; `Increment`, `Decrement`,
  `KillReset`, `UnmountReset`): the kernel queues waiters and wakes them when the lock
  is dropped, so a waiter that could be served again and again is served.
* `SF` of `Release` in `FlockLock`: a command enters nested sections finitely often.
* `WF` of the loader and of every thread in `LayerDownload`: a read answers or times out
  after `_SOCKET_TIMEOUT`. That the server ever answers well is not assumed.
* `WF` of launchers, holders and sessions in `NamespaceHolder`, each process on its own.

A command that never returns from the guest never leaves, and nothing is claimed of it:
`EveryoneGetsOut` begins at `exit` and at `killProcs`. `LockComesFree` claims nothing of
kernels without PID namespaces, where the code waits for ever (section 6).

## 4. What is proved

TLAPS checks these for every value of the constants that satisfies the `ASSUME` of the
module (which says that the model values are distinct, the switches are what they are
for, and the bounds are numbers).

| Theorem | Statement | Assumes |
|---|---|---|
| `FlockLockProofs!TypeCorrect` | `Spec => []TypeOK` | |
| `FlockLockProofs!HolderAlwaysNamed` | `[]HolderNamed` | |
| `FlockLockProofs!NestingAlwaysSound` | `[]NestingSound` | |
| `FlockLockProofs!MutualExclusionWhereNameKept` | `[]MutualExclusion` | `NameKept` |
| `FlockLockProofs!Refinement` | `Spec => SharedLock!Spec` | `NameKept` |
| `ContainerSessionsProofs!TypeCorrect` | `[]TypeOK` | |
| `ContainerSessionsProofs!SessionsAreSerial` | `[]SessionsSerial` | |
| `ContainerSessionsProofs!UnmountIsAlone` | `[]UnmountAlone` | |
| `ContainerSessionsProofs!RunningStayMounted` | `[]LiveSessionMounted` | maximum isolation, no `kill` |
| `ContainerSessionsProofs!SweepsSpareOthers` | `SweepSparesOthers` | maximum isolation, no `kill`, no signal sweep |
| `ContainerSessionsProofs!LastOutClears` | `[]LastOutTearsDown` | maximum isolation, no `kill`, crash, detached session or survivor |
| `ContainerSessionsProofs!UnmountsAll` | `UnmountClean` | host sessions alone, or none |
| `ContainerSessionsProofs!LastLeaverClears` | `LastLeaverTearsDown` | no maximum isolation |
| `NamespaceHolderProofs!TypeCorrect` | `[]TypeOK` | |
| `NamespaceHolderProofs!StrangersAlwaysSpared` | `[]StrangersSpared` | |
| `NamespaceHolderProofs!HoldersAlwaysOnRecord` | `[]HoldersOnRecord` | |
| `BuildCacheProofs!TypeCorrect` | `[]TypeOK` | |
| `BuildCacheProofs!NoUpdateEverLost` | `NoUpdateLost` | |
| `BuildCacheProofs!ImagesStayComplete` | `[]ImagesComplete` | `~ LateStart` |
| `BuildCacheProofs!RecordedAlwaysBacked` | `RecordedBacked` | `~ LateStart` |
| `ContainerStoreProofs!TypeCorrect` | `[]TypeOK` | |
| `ContainerStoreProofs!ReadersKept` | `ReadersUndisturbed` | |
| `ContainerStoreProofs!KeepsCatalog` | `Spec => ContainerCatalog!Spec` | |
| `ContainerStoreProofs!MarkerTrusted` | `[]MarkerTells` | `~ Piecemeal`, no `restore` |
| `ContainerStoreProofs!FinishedKept` | `NothingLost` | `~ Piecemeal`, no `restore` |
| `LayerDownloadProofs!TypeCorrect` | `[]TypeOK` | |
| `LayerDownloadProofs!VerifiedCached` | `[]CachedMeansVerified` | |
| `LayerDownloadProofs!ChunksInPlace` | `[]SegmentsInPlace` | |
| `LayerDownloadProofs!SplitsKeepProgress` | `ProgressKept` | |
| `BuildStageProofs!TypeCorrect` | `[]TypeOK` | |
| `BuildStageProofs!DiffPacked`, `MapPacked` | what RUN, COPY and WORKDIR pack, unpacked over the tree before, is the tree after | the kinds of paths agree, see below |
| `BuildStageProofs!ImageFollowsRootfs` | `[](idle, no reason recorded => image = rootfs)` | |
| `BuildStageProofs!ImagesAreRootfs` | `[]ImageIsRootfs` | plain archives |
| `BuildStageProofs!FreshInstallsDifferNowhere` | `[]FreshInstallDiffersNowhere` | the base images are read right |
| `TreeTransferProofs!TypeCorrect` | `[]TypeOK` | |
| `TreeTransferProofs!QuickChecksSound` | `[]QuickCheckSound` | times tell versions apart |
| `TreeTransferProofs!SuccessfulTransfersCarry` | `[]SuccessCarries` | times tell versions apart |
| `TreeTransferProofs!SuccessfulSyncsPrune` | `[]SuccessPrunes` | |
| `TreeTransferProofs!MovesLoseNothing` | `[]MoveLosesNothing` | times tell versions apart |
| `TreeTransferProofs!CounterpartsAreSpared` | `SparesCounterparts` | |

`NameKept` says that no command deletes the lock file and that nothing foreign turns up
under its name. Build locks and RUN cache locks are so; container locks are not, as
`remove` deletes theirs, and section 6 says what follows. `SessionsSerial` and
`UnmountAlone` are proved and checked by no run of their own: the runs about mounts rest
on them.

`BuildAssumption` says that names are told apart, that entries, trees and layers have
their types, and that the base images unpack without an error. `ImageFollowsRootfs` needs
no more: it speaks of states where no reason is recorded. `ImageIsRootfs` says as much
for states where only an archive with something below a link (or a file) of its own has
come up. There the two can part (section 6), so the theorem assumes `PlainArchives`: none
has that. The run has an archive with a file below its own link and shows that this much
is right; with the other archive alone it meets the assumption. `BasesAgree` says that
`diff` takes the base images for what they unpack to, which is not so for every image
(links on the way of a layer, dotfiles: section 6); TLC finds it so in the run, in whose
initial states the property holds. The theorem is about what building on them adds.

`TransferAssumption` is about the trees a transfer meets. The owner has no names that
end like the temporaries of the code (`.~cd_copy`, `.~cd_sync`, `dirfd.py:53`), and only
sync has `--delete`. "Times tell versions apart" is its other half: two versions of a
file do not share a time, and a file of the destination that has the time of its
counterpart when a command begins has its content. The quick check is wrong without that,
as the help for `--checksum` has it ("Slower but more precise", `README.md:256`). All six theorems come from one
invariant, so the assumption is made for all six; the table names it where the claim needs it.

The arguments:

* **The lock.** Mutual exclusion is not inductive: it speaks of what commands asked for,
  while a step of the kernel depends on what is held on an inode. `FlockInv` adds that a
  process has a descriptor and a flock exactly in the steps that have one
  (`DescriptorInv`), that flocks on one inode are compatible (`InodeInv`), and the two
  properties about the holder line and nesting, which need each other: the line is
  written only by somebody who excludes all others on that inode. From it `HolderNamed`
  and `NestingSound` follow whatever happens to the name. `NameInv` adds, where the name
  is kept, that all descriptors are open on the one inode `entry` refers to; the two
  together give mutual exclusion, and with it each `Grant` maps to an `Acquire` of
  `SharedLock`, each release, probe end or death to a `Release`, and the rest to
  stuttering.
* **Sessions.** The invariant is about the two locks: a process in a critical step holds
  `sessions.lock`, one that is in a session holds the container lock shared, one that
  unmounts holds it exclusively, and holders are compatible. Crashes are what makes it
  more than the shape of the code: a holder inherits the lock of the session that forked
  it, so the lock may belong to nobody's step.
* **The mounts of sessions.** `LiveSessionMounted` depends on the count: who believes it
  is the last unmounts. `MountInv` says that the count is never smaller than the number of
  sessions between `increment` and `decrement` (`Sized`; crashes and detached sessions
  make it larger), that a session which opens the container is the only one counted and
  one that tears it down has nobody counted beside it (`Alone`), and that a settled
  session has a live holder with mounts (`Housed`). The three need each other: `increment`
  and `decrement` throw the count away when `/proc` has nobody, which is right because a
  chrooted holder shows there as long as anybody is settled; and that holder is released
  only at a count of zero. This is where maximum isolation is needed: another holder does
  not show, and a session between its mounts and its chroot is overlooked. For
  `LastOutTearsDown` the count must be exact (`Exact`, which is why crashes and detached
  sessions are left out), and `Tidy` says that a container nobody uses is cleared, and that
  whoever joins found somebody settled, who cannot leave before it is done. The theorems
  hold for more than `SessionsIsolated` runs: each names the features it takes, and with
  those TLC checked the invariants (two or three processes) before they were proved.
  `UnmountClean` needs `Viewed`, that the mounts are all in one view and that a holder's
  live and die with it; where host and isolated sessions mix it fails (section 6).
* **The holder.** That every holder is on record says nothing of one that is being made
  or released. `IInv` has each launcher and holder at its place in the handshake with
  what is in its pipes (`Spawned`), the session that makes them at its own place (`Shaken`),
  and says of every holder that is not astray (`Found`) that it is `OnRecord` (the record
  names its pid and start time, with its flags), is `Doomed` (dead, never forked, or
  waiting for a word on a pipe that nobody will write to), or is in the hands of a session
  on its way through the handshake and the three files. A session that has looked and
  found no holder is `Certain` that all others are doomed, which `sessions.lock`
  (`LockInv`) keeps true until it has recorded its own: so there is never a second one.
  `kill` takes no lock; what it breaks, like what a killed maker leaves, goes to `astray`. Strangers
  are spared since a pid is its holder's until that is reaped (`Owned`), and whoever is
  about to signal has compared the start time with a pid that is in use (`Spares`).
  The kernel's steps and the clients' are proved apart: a launcher or holder changes only
  its own row and pipes (`Framed`, `Evolved`), and a client only what its place lets it.
* **The store.** `IInv` says what a command under way knows of the directories it has
  locked (`Knows`): that it holds them exclusively whenever it writes, that the name is
  free from the moment it was found so until the container is finished, that the rootfs
  is there when an install finishes. It also says that a finished container has a rootfs
  (`Rooted`), without which a free name and a taken one could not be told apart by
  looking. Others cannot spoil what a command knows, as a step changes only what its
  process holds (`Framed`, `OthersKnow`), so each lemma about a command looks at one
  process. Readers and the refinement follow. `MInv` adds that the marker is there from
  `Mark` to `Finish` and that what is being wiped was never finished. It gives more than
  `MarkerTells` asks: the marker is right even while somebody is at work. The two
  assumptions are what section 6 says of removals that die half way and of `restore`.
* **The cache.** `IndexInv` says that whoever is about to save holds the index lock and
  that what it loaded is what the index is, *or that the index is empty*, since
  `discard_index` takes no lock. From it every save keeps the entries of the others.
  `AloneInv` says that no sweep is under way while a build is, which `LateStart = FALSE`
  and the question `busy_locks` asks give. `BlobInv` relates three sets that no single
  line of code relates: what images name is among the blobs, what a build has made is
  too, and what a sweep keeps (and later, has listed) covers (and later, avoids) every
  image.
* **The download.** That a chunk file has its bytes in place says nothing of the thread
  that will append the next one. `LoneInv` adds that a thread's count (`got`) is the
  length of its chunk file from the moment it has looked at it, through every wait and
  reconnect, that the file exists whenever a thread reads into it, and that a file that
  does not exist counts as empty. This in turn needs that the loader and its threads
  never touch chunk files at the same time (`StageInv`), which is not obvious as a failed
  loader leaves its threads running, and that no other process is at work, which
  `~overlap` says. `WorkerMoves` is the one lemma about the ten steps of a thread: each
  is a `Move` that leaves thread and file in step. `SegmentsInPlace` and `ProgressKept`
  both follow. `TypeOK` needs `WaitInv`: an attempt is left whenever a thread waits for
  the next one.
* **Layers.** Between instructions the claim is simple, and inductive but for the middle
  of an instruction. `LayersInv` says for each place there what the layers make: the
  rootfs while nothing has changed (`idle`, `enumerated`), the snapshot, without the
  script, while a RUN edits (`Start`), and once the difference or the map is settled, that the
  layer it *will* pack, unpacked over the image, gives the rootfs (`ThisDiff`). So every step
  that packs is immediate, and the work is in the two steps that settle. `DiffPacked`
  says that members sorted by path, each at the place it names, add up to the tree:
  a member goes where it says if every level above it is a directory and nothing of another
  kind is in its place (`Fits`), which holds for each in turn where no path changed its
  kind, as the members above it are there by then; whiteouts come last, and what stays is
  not below one. `MapPacked` has the same for the levels and entries of a file
  map, and `MapOnDisk` says that the pass over the rootfs writes exactly that
  (`Written`), although it resolves links, as on a `Straight` way there is none.
  `Resolve` and the folds over members are recursive functions; that they are defined at
  every argument, and what they give on a way without links, is proved by induction on the
  budget and on the length (`Recursion`, `Iterates`).
  `TypeInv` adds that an image is `Clean`, has no special file and the owner's bits on
  each directory, so that unpacking it again changes nothing (which FROM a stage needs), and that
  the script is in the snapshot it is taken out of. `BaseInv` is the same story for the
  baseline, which has no modes (`Coarse`), and leans on `LayersInv`.
  TLC checked the three in all states of `BuildLayers`, with and without plain archives.
* **Transfers.** That a success has carried everything says nothing of a walk half way.
  `Shape` makes source and destination trees, and the stack of open directories a way
  down from the root, so that "before the walk" has a meaning: an entry is `Ahead` if some
  directory of the stack has yet to come to it. `Carries` then says that, as long as
  success is in reach (no failure counted, and the command not dead), every entry nobody
  has touched is `Kept` in the destination or is ahead. For a step this is a matter of one
  entry that stops being ahead, but it leans on three things no line of the code says.
  `QuickInv`: an edit gives a time of its own, a file half written has none, and what has
  been read is the content that goes with the time `lstat` gave, as long as the file still
  has that time; so a file the quick check passes over is right. `Steady`: what nobody touched is
  what it was, with every directory above it still open on the walk's way, and what is
  passed over uncounted is a special file. And for `--delete`, where a second pass trusts
  what the first noted: the untouched is seen or passed over (`Noticed`), so none of it is
  at or below a target (`Spared`); what is seen the source has had (`Recorded`), so what it
  never had is a target, or next to something passed over (`Pruned`).
  `MoveLosesNothing` follows as the source is cleared only after a copy without failure.
  TLC checked these invariants in all states of `TransferTrees` before the proof;
  `Begins` and `Continues` are the two halves of it.

Only checked by TLC: everything about liveness and fairness (`EveryoneGetsOut`,
`WaiterServed`, `LockComesFree`, `DownloadEnds`), which is out of the prover's reach.
Every safety property of a run is a theorem, some of them under the assumptions of the
table. That layers and rootfs agree for an archive with a file below a link of its own is
checked and not proved. The operator modules (`MountPlan` to `ImageRegistry`) fold over
lists; what they compute is compared with reference definitions on bounded inputs.

## 5. What is not modelled

Within the modelled components:

* mounts that cannot be unmounted, the deep clean on Termux (the sweep of the mounts of
  other namespaces), and the fallback of a holder's unmount to the caller's namespaces;
* a failing `/dev/null` in `_run_detached`, and a failing removal of the marker at the
  end of an install, which the code treats as best effort;
* the probes of what the kernel supports, and idmapped mounts themselves;
* restore from archives without a directory as rootfs, and `data/<name>` in rename;
* the plain `clear-cache`, which removes everything; the export of a cache; the index on
  filesystems without flock, where the code says the last writer wins; an index or
  manifest that cannot be parsed;
* paths and permissions on the way to a file outside `LayerTrees` and `TreeTransfer`:
  descents by descriptor are taken as one step with the outcomes opened, missing, refused;
* the syntax of a Dockerfile, of options and of image references; ignore rules; the
  resolution of users; downloads of ADD; tokens, redirects and the rate limit;
* owners, extended attributes and hard links in layers, and the bytes of archives;
* copies and syncs of single files, `--chown`, and how the two paths are resolved;
* how `atomic.py` stages a file: every module takes the publication of a small file as
  one step, which the rename is, and a death before it as nothing but a temporary left;
* the order in which a child gives up its privileges, and how a command is run again
  with sudo or su.

Not modelled at all: the kernel interface (wrappers of one system call each), desktop
integration (variables and paths computed from the environment) and the command line
and its output (parsing and formatting). None of them keeps a state that a step of
another component reads.

## 6. Where code and claims part

What follows is what the code does and the repository says otherwise, or says nothing of
and a user would not expect. None of it has a run of its own: a passing run keeps to the
settings without it, an assumption with a star in section 3 states it as it is, and the
state machines have it among their steps.

TLC shows these with the settings given (a `.cfg` like that of the run, changed so):

| Base run | Change | Violated | Why |
|---|---|---|---|
| `FlockKept` | two processes, three inodes, `Commands <- ContainerCommands`, `Probed`, `FsRefuses = FALSE`, `MaxDepth = 0` | `MutualExclusion` | `remove` unlinks the lock file after it has released the flock (`commands/remove.py:223`): a command that opened the file before and one that creates it anew both hold the lock, where `locking.py:3` has the lock exclude |
| the same | `Commands <- KeptNameCommands`, `Foreign <- AnyForeign` | `MutualExclusion` | `_drop_planted` (`locking.py:129`) unlinks a name it has looked at earlier; of two commands that found something planted the second deletes the first one's lock file |
| `SessionsIsolated` | two processes, `Modes = {"host"}`, `Features = {}` | `LiveSessionMounted` | a session is counted under `sessions.lock` but in `/proc` only later (`helpers/session.py:145`); a login in between takes the count for a crashed session's, becomes a first session too and remounts under the other |
| `SessionsIsolated` | `Features = {"sweep"}` | `SweepSparesOthers` | `_sweep_if_last_session` (`commands/login/__init__.py:201`) reads the count under the lock and kills without it |
| `SessionsIsolated` | `Features = {"kill"}` | `SweepSparesOthers` | `kill` (`commands/kill.py:200`) zeroes the count of a session that has logged in since; the next one to leave takes itself for the last |
| `SessionsPlain` | `Modes = {"maxiso"}`, `Features = {"crash"}` | `LastLeaverTearsDown` | the parked holder is itself a process in the rootfs, so a crashed session's count is never corrected (`helpers/session.py:145`) |
| `SessionsPlain` | `Modes = {"host", "plain"}`, `Features = {}`, `INVARIANT LastOutTearsDown` | `LastOutTearsDown` | the isolation conflict is checked before `sessions.lock` is taken (`commands/login/__init__.py:1118`). With `Features = {"crash", "unmount"}` `UnmountClean` goes too: `unmount` looks in one view only |
| `SessionsProgress` | `Modes = {"plain"}`, `Features = {"crash", "kill"}` | `EveryoneGetsOut` | a holder inherits the `sessions.lock` of a login that is killed; `kill` waits for it before it kills the holder (`helpers/session.py:240`) |
| `StoreLeftovers` | `Piecemeal = TRUE` | `MarkerTells` | `rmtree` removes marker and rootfs in directory order, so a wipe that is interrupted can leave a rootfs without the marker (`commands/install.py:258`) |
| `StoreLeftovers` | `Commands = {"install", "restore"}`, `Features = {"crash"}` | `NothingLost` | restore into a directory that an install left with its marker never removes the marker (`commands/restore.py:495`, against `paths.py:92-94`); the next install wipes the restored container as a leftover |
| `CacheBuilds` | `LateStart = TRUE` | `ImagesComplete` | `busy_locks` is asked once (`commands/clear_cache.py:127`): a build that begins after that stores an image whose layers the sweep has listed |
| `CacheBuilds` | `Forms = {"prune"}`, two layers, `INVARIANT KeptStayWarm` | `KeptStayWarm` | with `--keep`, the layers of entries that stay are deleted unless a stored image names them (`commands/clear_cache.py:145`), where README.md:591 says they "stay warm for the next build" |
| `BuildLayers` | `INVARIANT CopyBehindLinkAgrees` | `CopyBehindLinkAgrees` | COPY to a path behind a link writes where the link leads and packs the path as written (`helpers/layer_diff.py:700`, against `copy_step.py:5-9`) |
| `DownloadResumes` | `INVARIANT InterruptIsUsers` | `InterruptIsUsers` | the failure of a segment sets the abort event that the single connection looks at next (`helpers/docker/layers.py:235-251`), so the fallback its docstring promises (19-22) ends as if the user had pressed Ctrl+C |

**Sessions and their processes**

| Where | What the code does |
|---|---|
| `syscalls/chroot.py:636-650`, 598-604 | The copy loop of a pty reaps the child and drops its status; `_pty_relay` turns the ChildProcessError that follows into 0, against its docstring "Returns the child's exit code". A command whose pty is open when it ends reports 0: `PtyLosesTheCode` |
| `syscalls/chroot.py` (copy loop) | `fds.remove(0)` raises when the terminal hangs up in the poll that finds the child dead: `HangupRaises`. Noisy orphans keep the relay, and the escalation is not asked once the child is dead: `NoiseHolds`. A second Ctrl-Z only stops the relay, as its handler is not installed again |
| `syscalls/chroot.py` (signal relay) | Without a terminal the child leads no group, so `killpg` on its pid does nothing, against "relay each signal to the child's process group"; `_signal_child`, written for this, has no caller. Only the sweep ends the command (`SignalsAreDropped`), and beside other sessions there is none (`OthersHoldTheWait`) |
| `syscalls/chroot.py` (capture) | Standard error beyond a pipe's room blocks before the timeout is looked at: `CapturesCanBlock`. On a pty the timeout is ignored |
| `syscalls/chroot.py` (`_close_fds_above`) | With two descriptors to keep, those between them stay open, against "Close every descriptor above 2 except those in *keep*": `ClosesTheRest` |
| `daemon.py:383-386` | A daemon that ends removes the socket of the one that has replaced it: `OldTakesNew`. A command that ignores SIGHUP keeps its handler after the client has left: `HangupIgnored` |
| `helpers/session_registry.py:169` | With a pid that is used again, a dead session's record is listed for a live one (`OldIsListed`) or a live one's is removed (`NewIsPruned`) |
| `helpers/session_registry.py`, `--detach` | A detached session is recorded under the pid of the command that started it, which exits; a later session with that pid hides it: `DetachedIsHidden` |
| `syscalls/unshare.py:519-521` | Without PID namespaces the holder writes `K` into the pipe of the pid; `int("K")` fails and `_reap_child` waits for a holder that is parked, with `sessions.lock` held: `Blocks`, and the condition in `LockComesFree` |
| `helpers/namespace.py:500-507`, 914 | A reader without the lock that meets a record just truncated removes it while it is written: an unrecorded holder (`Overtakes`). `release_holder` removes a newer record in its `finally`. A record without start time, or with a custom one, accepts any process with its pid |
| `commands/login/__init__.py:1075-1076` | The foreground holder inherits the write end of the pipe it waits on, so that it "reads the closed pipe as the parent having given up" never happens. A launcher killed between `K` and the pid, or a creator killed in the handshake, leaves a parked holder |

**Mounts**

| Where | What the code does |
|---|---|
| `helpers/isolation.py:388-400` | The host's `/dev` that stands in for a refused tmpfs is never made a slave, so the session's devpts is mounted on the host, against 31-32: `FallbackDevPropagates`. So are nested binds other than those below `/dev` and `/sys`: `NestedBindPropagates` |
| `helpers/isolation.py:19` | Under maximum isolation a refused sysfs or devpts is replaced by the host's (`LittleOfTheHost` says of what) |
| `commands/login/bindings.py:12-14` | Parents come first, except where a path of the host is a link to one that is listed after: `LinkedParentLast` |
| `commands/login/__init__.py:1348-1353` | A joining session whose bind lies above a live mount covers it, and the one pass of unmounting leaves it: `JoinCovers` |
| `syscalls/mount.py:312-344` | A refused remount without locked flags returns as if it had succeeded: a `:ro` bind stays writable |
| `commands/login/bindings.py:711-716`, 100-116 | A later custom bind above earlier ones drops it silently; options are kept per destination |
| `helpers/build_engine/run_mounts.py` | Without a holder the teardown of `--mount` removes a path of the image that an outer mount hides: `HiddenPathRemoved` |
| `helpers/build_engine/run_mounts.py:339-342` | RUN cache locks are taken in the order of the mounts, not sorted as `commands/build.py:288-295` sorts the build locks: two builds can wait for each other (`CachesCanBlock`) |

**Builds**

| Where | What the code does |
|---|---|
| `helpers/build_cache.py:450-480`, `run_step.py:133` | A recipe chains the digest of the last layer only, and layers of COPY and WORKDIR are named by their content (`copy_step.py:501`, `handlers.py:298`). After a changed RUN or COPY followed by an unchanged COPY or WORKDIR the next RUN is served a stale layer, against `build_cache.py:18-19` ("An input left out of that string is a stale layer served as a fresh one, silently"): `RecipeForgetsTree`. USER, SHELL and the WORKDIR of an existing directory are left out too: `RecipeForgetsUser` |
| `helpers/layer_diff.py:378` | A directory that became a file cannot be unpacked (`retyped`); after a directory became a link, the whiteouts at the end resolve through the link |
| `copy_step.py` | A missing or existing level that is not 0755 is packed as 0755 (`leveled`); a directory over a file is left out silently; a context file that changes between the passes has two contents (`source`); ADD of an archive drops hard links |
| `copy_step.py:1229-1251`, `layer_diff.py:346-376` | ADD of an archive that has something below a link of its own: rootfs and layer have it where the link leads, `diff` where it is named (`archive`). Where the archive has a directory there and the rootfs a file, the file stays and the layer cannot be unpacked: what is "both materialised on disk and packed into the layer" (`copy_step.py:7`) parts. `BuildLayers` has no such archive, and `PlainArchives` rules it out |
| `handlers.py:166-177`, 281-285 | WORKDIR on an existing directory changes its mode and owner without a layer (`stamped`) |
| `run_step.py:655-658` | A stray that forks just before the last SIGKILL survives (`stray`). A change of owner alone is not captured |
| `helpers/layer_diff.py` (`baseline_from_layers`) | `lstrip("./")` eats the dot of dotfiles and whiteouts, an opaque marker at the top is ignored, children of replaced directories stay, links are not followed: `diff` then reports a fresh install as changed |
| `helpers/build_engine/` | `ARG A=1 B=$A` means one thing before FROM and another in a stage (`SameLineArg`); `FROM scratch` beside a stage of that name takes its platform (`ScratchTakesThePlatform`); triggers ask for emulators nobody needs, and need some nobody asked for (`TriggersNotForeseen`) |
| `helpers/dockerfile.py` (`_HEREDOC_RE`) | `<<<word` and `$((1<<N))` are read as the openers of here-documents |

**Registry and downloads**

| Where | What the code does |
|---|---|
| `helpers/docker/push.py` | A chunk that broke off is sent again from where it began, although the docs say "a dropped connection costs one chunk and not the layer" and "continues from the acknowledged offset": a strict registry answers 416, which is not retried (`BrokenChunkFails`). So it is with a lost answer to the final PUT |
| `helpers/docker/pull.py` | A pull whose config could not be fetched caches the empty one for good; its push is refused as corrupted (`ConfigLostForGood`). The one image of a tag is taken for any platform and its entry never found again (`SingleIsNotChecked`) |
| `helpers/download.py:208` | `CD_DOWNLOAD_MAX_RETRIES=0` makes no attempt at all |
| `helpers/docker/layers.py:272-286` | A digest that does not match leaves complete chunk files and the split, so every later run fails the same way |
| `helpers/download.py` | Two processes share the `.chunkN.tmp` files; `_download_single_loop` publishes what a server cut short (36-37); `_LiveResponses.close_all` (475) takes a lock its signal handler may interrupt |

**Store and transfers**

| Where | What the code does |
|---|---|
| `commands/reset.py` | A reset whose download fails ends in the cleanup of install, which deletes the manifest its docstring says is not touched; a reset that could not delete everything is refused by the install it calls, which the docstring says installs over the rest |
| `dirfd.py:834-835` | A link in the source replaces a regular file of the destination that the docstring says is refused |
| `paths.py:550`, `commands/copy.py:56` | `copy --move` out of a container removes under a shared lock |
| `commands/copy.py:234` | What is created in the source between the copy and the removal of a move across devices is lost |
| `commands/sync.py:413` | Without `--delete` the temporary of a killed sync stays |

## 7. Where to go on

1. An abstract specification of a session (mounted while anyone is in), and a proof that
   `ContainerSessions` implements it, from `MountInv` and `Tidy`.
2. The staging of `atomic.py` with crashes, as the primitive that single-step writes
   rest on.
3. `ForegroundWait` as a state machine next to `ContainerSessions`, so that the relay of
   a signal, the sweep and the exit of the child interleave with other sessions.
4. When the code changes: the assumptions with a star, and the settings in section 6,
   say which statements to turn round.

## 8. Running

`tlc -config <Run>.cfg <MC module>.tla` for a run, `tlapm <Module>.tla` for the proofs.
The longest runs (`HolderRecords` and `DownloadResumes`) take about two and a half
minutes each with two workers, the proofs about half an hour in all.
