---------------------------- MODULE NamespaceHolder ----------------------------
(***************************************************************************)
(* The namespace holder of one container (helpers/namespace.py,            *)
(* syscalls/unshare.py): how it is made, recorded, found and released.     *)
(*                                                                         *)
(* A session that is the first one forks a launcher, which unshares and    *)
(* forks the holder.  The three shake hands over pipes, and each of them   *)
(* can fail or be killed at any point: whoever reads a pipe gets what is   *)
(* in it or, once nobody has its other end, the end of file.  Then the     *)
(* session writes down who the holder is, in three files, for sessions     *)
(* that come later and for `kill`, which takes no lock.  Pids are reused:  *)
(* `owner` says whose a pid is.                                            *)
(***************************************************************************)
EXTENDS Naturals, FiniteSets, Sequences

CONSTANTS
    Sessions, Killers,  \* processes of login and run; of kill
    Pids,               \* the host's numbers for holders; the lowest free one is taken
    Modes,              \* records [chroot, idmap, foreground]
    Kernels,            \* records [pid, user]: what namespaces there are
    MaxSpawns,          \* bound: launchers
    MaxDeaths,          \* bound: processes that are killed from outside
    MaxStrangers,       \* bound: pids that go to other programs
    MaxCommands         \* bound: commands

ASSUME HolderAssumption ==
    /\ Sessions \intersect Killers = {}
    /\ "nobody" \notin Sessions \union Killers
    /\ Modes \subseteq [chroot : BOOLEAN, idmap : BOOLEAN, foreground : BOOLEAN]
    /\ Kernels \subseteq [pid : BOOLEAN, user : BOOLEAN]
    /\ MaxSpawns \in Nat

VARIABLES
    has,        \* the kernel, for good
    spawn,      \* the launchers and holders made so far
    pipe,       \* what is in the pipes of each
    owner,      \* of a pid: Free, Stranger or a number of `spawn`
    record,     \* <name>.pid
    flags,      \* <name>.flags is there, and whole
    maxiso,     \* <name>.maxiso is there
    lock,       \* who holds sessions.lock
    me,         \* of a client: where it is, and what it remembers
    deaths, strangers, commands,
    astray,     \* history: holders nobody has written down, and why it is no wonder
    struck      \* history: a stranger was signalled

files  == <<record, flags, maxiso>>
kernel == <<spawn, pipe, owner>>
past   == <<astray, struck>>
bounds == <<deaths, strangers, commands>>
vars   == <<has, kernel, files, lock, me, bounds, past>>

Clients == Sessions \union Killers
Spawns  == 1..Len(spawn)
Nobody  == "nobody"
Free    == 0
Stranger == MaxSpawns + 1
Absent  == [kind |-> "absent"]
Empty   == [kind |-> "empty"]
NoStart == Free
Naming(p, start, custom) == [kind |-> "whole", pid |-> p, start |-> start, custom |-> custom]
Parked  == [chroot |-> FALSE, idmap |-> FALSE, foreground |-> FALSE]
Away    == [at |-> "out", mode |-> Parked, spawn |-> 0, pid |-> 0, start |-> NoStart,
            todo |-> <<>>, then |-> "out"]

LauncherAt == {"born", "maps", "fork", "sync", "self", "wait", "gone"}
HolderAt   == {"none", "born", "stack", "chroot", "go", "parked", "runs", "zombie", "gone"}
Settled    == {"go", "parked", "runs"}
Up(k)      == spawn[k].holder \notin {"none", "zombie", "gone"}
Alive(p)   == owner[p] # Free

Handshake == {"map", "idmap", "pid", "reap"}
Recording == {"alive", "open", "write", "flags", "maxiso"}
Releasing == {"read", "term", "poll", "kill"}
Places == {"out", "check", "lock", "look", "spawn", "mounts", "in", "unlock", "clean", "seek"}
          \union Handshake \union Recording \union Releasing

TypeOK ==
    /\ Len(spawn) <= MaxSpawns
    /\ \A k \in Spawns : spawn[k].launcher \in LauncherAt /\ spawn[k].holder \in HolderAt
    /\ \A k \in Spawns : Up(k) => owner[spawn[k].pid] = k
    /\ \A c \in Clients : me[c].at \in Places
    /\ \A c \in Clients : me[c].at \in Handshake \union Recording \union {"look", "spawn", "mounts"} => lock = c
    /\ record.kind \in {"absent", "empty", "whole"}
    /\ lock \in Sessions \union {Nobody}

Init ==
    /\ has \in Kernels
    /\ spawn = <<>> /\ pipe = <<>>
    /\ owner = [p \in Pids |-> Free]
    /\ record = Absent /\ flags = FALSE /\ maxiso = FALSE
    /\ lock = Nobody
    /\ me = [c \in Clients |-> Away]
    /\ deaths = 0 /\ strangers = 0 /\ commands = 0
    /\ astray = {} /\ struck = FALSE

Goes(c, place)  == me' = [me EXCEPT ![c].at = place]
Arrived(c, place) == IF place = "out" THEN me' = [me EXCEPT ![c] = Away] ELSE Goes(c, place)
At(c, place)    == me[c].at = place
My(c)           == me[c].spawn
Same            == UNCHANGED <<has, bounds, past>>

-----------------------------------------------------------------------------
(* Pipes.  An end is closed when the last process that has it closes it. *)

NoWords == [pid |-> <<>>, map |-> <<>>, idmap |-> <<>>, sync |-> <<>>, go |-> <<>>]

Parents(k, places) == {c \in Sessions : My(c) = k /\ me[c].at \in places}
LauncherIn(k, places) == spawn[k].launcher \in places
HolderIn(k, places)   == spawn[k].holder \in places

\* Mutant: the launcher keeps its copy of the end that the holder answers on.
AnswersOpenKept(k) == HolderIn(k, {"born", "stack", "chroot"}) \/ LauncherIn(k, {"sync"})

\* The holder's byte goes to the launcher, which closes its own copy of the end,
\* or, without a launcher in between, to the session.
AnswersOpen(k) == HolderIn(k, {"born", "stack", "chroot"})

\* Who can still write to a pipe: whoever was forked while the end was open and
\* has not closed it.  The holder closes the pid pipe as its first step.
HasWriter(k, p) ==
    CASE p = "pid"   -> \/ LauncherIn(k, {"born", "maps", "fork", "sync"}) \/ HolderIn(k, {"born"})
                        \/ (LauncherIn(k, {"self"}) /\ AnswersOpen(k))
      [] p = "map"   -> LauncherIn(k, {"born"}) \/ Parents(k, {"map"}) # {}
      [] p = "idmap" -> LauncherIn(k, {"born"}) \/ Parents(k, {"map", "idmap"}) # {}
      [] p = "sync"  -> AnswersOpen(k)

Hears(k, p, word) == pipe[k][p] # <<>> /\ Head(pipe[k][p]) = word
EndOfFile(k, p)   == pipe[k][p] = <<>> /\ ~HasWriter(k, p)
Told(k, p, word)  == [pipe EXCEPT ![k][p] = Append(@, word)]
Took(k, p)        == [pipe EXCEPT ![k][p] = Tail(@)]

-----------------------------------------------------------------------------
(* The launcher. *)

LauncherGoes(k, place) == spawn' = [spawn EXCEPT ![k].launcher = place]
Local == UNCHANGED <<files, lock, me>> /\ Same

\* unshare(), a second time without CLONE_NEWUSER if need be; MAP: to a parent
\* that is gone is an error.
Unshares(k) ==
    /\ LauncherIn(k, {"born"})
    /\ \/ /\ spawn[k].userns /\ Parents(k, {"map"}) # {}
          /\ LauncherGoes(k, "maps") /\ pipe' = Told(k, "pid", "MAP")
       \/ /\ spawn' = [spawn EXCEPT ![k].launcher = "fork", ![k].userns = FALSE, ![k].mode.idmap = FALSE]
          /\ UNCHANGED pipe
       \/ LauncherGoes(k, "gone") /\ UNCHANGED pipe
    /\ UNCHANGED owner /\ Local

AwaitsMaps(k) ==
    /\ LauncherIn(k, {"maps"})
    /\ \/ Hears(k, "map", "M") /\ LauncherGoes(k, "fork") /\ pipe' = Took(k, "map")
       \/ EndOfFile(k, "map") /\ LauncherGoes(k, "gone") /\ UNCHANGED pipe
    /\ UNCHANGED owner /\ Local

\* Without PID namespaces the launcher goes on as the holder itself.
Forks(k) ==
    /\ LauncherIn(k, {"fork"})
    /\ \E p \in Pids :
         /\ owner[p] = Free /\ (\A q \in Pids : owner[q] = Free => p <= q)
         /\ owner' = [owner EXCEPT ![p] = k]
         /\ spawn' = [spawn EXCEPT ![k].launcher = IF has.pid THEN "sync" ELSE "self",
                                  ![k].holder = "born", ![k].pid = p]
    /\ UNCHANGED pipe /\ Local

PassesOn(k) ==
    /\ LauncherIn(k, {"sync"})
    /\ \/ Hears(k, "sync", "K") /\ pipe' = [pipe EXCEPT ![k].sync = <<>>, ![k].pid = Append(@, "pid")]
       \/ EndOfFile(k, "sync") /\ UNCHANGED pipe
    /\ LauncherGoes(k, "wait")
    /\ UNCHANGED owner /\ Local

\* waitpid(); init does it for a launcher that is gone.
Reaps(k) ==
    /\ HolderIn(k, {"zombie"}) /\ LauncherIn(k, {"wait", "self", "gone"})
    /\ spawn' = [spawn EXCEPT ![k].launcher = "gone", ![k].holder = "gone"]
    /\ owner' = [owner EXCEPT ![spawn[k].pid] = Free]
    /\ UNCHANGED pipe /\ Local

-----------------------------------------------------------------------------
(* The holder. *)

HolderGoes(k, place) == spawn' = [spawn EXCEPT ![k].holder = place]

Begins(k) ==
    /\ HolderIn(k, {"born"})
    /\ HolderGoes(k, IF spawn[k].mode.idmap THEN "stack" ELSE "chroot")
    /\ UNCHANGED <<pipe, owner>> /\ Local

\* _stack_idmapped_rootfs()
Stacks(k) ==
    /\ HolderIn(k, {"stack"})
    /\ \/ Hears(k, "idmap", "I") /\ pipe' = Took(k, "idmap") /\ HolderGoes(k, "chroot")
       \/ Hears(k, "idmap", "I") /\ pipe' = Took(k, "idmap") /\ HolderGoes(k, "zombie")
       \/ EndOfFile(k, "idmap") /\ UNCHANGED pipe /\ HolderGoes(k, "zombie")
    /\ UNCHANGED owner /\ Local

\* _run_holder(): the one byte, to whoever made it, if they are still there.
Answers(k) ==
    LET listens == IF LauncherIn(k, {"self"}) THEN Parents(k, {"map", "idmap", "pid"}) # {}
                   ELSE LauncherIn(k, {"sync"})
        p       == IF LauncherIn(k, {"self"}) THEN "pid" ELSE "sync"
    IN  /\ HolderIn(k, {"chroot"})
        /\ \/ /\ listens /\ pipe' = Told(k, p, "K")
              /\ HolderGoes(k, IF spawn[k].mode.foreground THEN "go" ELSE "parked")
           \/ /\ ~listens \/ spawn[k].mode.chroot
              /\ HolderGoes(k, "zombie") /\ UNCHANGED pipe
        /\ UNCHANGED owner /\ Local

\* _exec_foreground().  The holder and its launcher have inherited the end of
\* the pipe that the session writes to: there is no end of file.
Executes(k) ==
    /\ HolderIn(k, {"go"}) /\ Hears(k, "go", "go")
    /\ pipe' = Took(k, "go") /\ HolderGoes(k, "runs")
    /\ UNCHANGED owner /\ Local

CommandEnds(k) ==
    /\ HolderIn(k, {"runs"}) /\ HolderGoes(k, "zombie")
    /\ UNCHANGED <<pipe, owner>> /\ Local

\* Killed from outside.  A launcher that takes the byte with it leaves a holder
\* that nobody will hear of.
Killed(k) ==
    /\ deaths < MaxDeaths /\ deaths' = deaths + 1
    /\ \/ Up(k) /\ HolderGoes(k, "zombie") /\ UNCHANGED astray
       \/ /\ LauncherIn(k, {"born", "maps", "fork", "sync", "wait"}) /\ LauncherGoes(k, "gone")
          /\ astray' = IF LauncherIn(k, {"sync"}) THEN astray \union {k} ELSE astray
    /\ UNCHANGED <<has, pipe, owner, files, lock, me, strangers, commands, struck>>

-----------------------------------------------------------------------------
(* The pids.  One does not change hands in the moment between its being read *)
(* and its being signalled, nor while a session records it.  Other programs  *)
(* matter when they get the pid of a holder.                                 *)

InHand(p) == \E c \in Clients : me[c].at \in Recording \union Releasing /\ me[c].pid = p

StrangerComes(p) ==
    /\ owner[p] = Free /\ ~InHand(p) /\ (\E k \in Spawns : spawn[k].pid = p)
    /\ strangers < MaxStrangers /\ strangers' = strangers + 1
    /\ owner' = [owner EXCEPT ![p] = Stranger]
    /\ UNCHANGED <<has, spawn, pipe, files, lock, me, deaths, commands, past>>

-----------------------------------------------------------------------------
(* Finding the holder: _read_holder_pid(), get_live_holder(). *)

\* What /proc says: no two processes with one pid have started at the same time.
StartTime(p) == owner[p]

\* Mutant: a pid that is alive is the holder.
SoundUnverified(r) == r.kind = "whole" /\ Alive(r.pid)

\* A record without a start time counts if the holder chroots.
Sound(r) ==
    /\ r.kind = "whole" /\ Alive(r.pid)
    /\ IF r.start = NoStart THEN r.custom ELSE StartTime(r.pid) = r.start

\* A zombie has no namespaces to enter.
Enterable(p) == owner[p] = Stranger \/ (owner[p] \in Spawns /\ Up(owner[p]))

AllFiles == <<"pid", "flags", "maxiso">>
Cleans(c, place) == me' = [me EXCEPT ![c].at = "clean", ![c].todo = AllFiles, ![c].then = place]

First(c)   == \A d \in Sessions \ {c} : ~At(d, "in")
Hit(c)     == CASE At(c, "check") -> "lock"
                [] At(c, "look")  -> "mounts"
                [] At(c, "seek")  -> "read"
Missed(c)  == CASE At(c, "check") -> "lock"
                [] At(c, "look")  -> IF First(c) THEN "spawn" ELSE "unlock"
                [] At(c, "seek")  -> "out"

\* _create_holder() removes what there is of the state once more.
Looks(c) ==
    /\ me[c].at \in {"check", "look", "seek"}
    /\ \/ Sound(record) /\ Enterable(record.pid) /\ Goes(c, Hit(c))
       \/ /\ record.kind = "absent" /\ Missed(c) # "spawn"
          /\ Arrived(c, Missed(c))
       \/ /\ ~(Sound(record) /\ Enterable(record.pid))
          /\ record.kind # "absent" \/ Missed(c) = "spawn"
          /\ Cleans(c, Missed(c))
    /\ UNCHANGED <<kernel, files, lock>> /\ Same

\* _remove_holder_state().  Without the lock it may take away what a session is
\* writing, or has written since this client looked.
Recorded(k)  == record.kind = "whole" /\ record.start = k
Overtakes(c) == IF lock = c THEN {}
                ELSE {k \in Spawns : Up(k) /\ (Parents(k, Recording) # {} \/ Recorded(k))}

Removes(c) ==
    /\ At(c, "clean")
    /\ LET f == Head(me[c].todo) IN
         /\ record' = IF f = "pid" THEN Absent ELSE record
         /\ flags' = (flags /\ f # "flags")
         /\ maxiso' = (maxiso /\ f # "maxiso")
    /\ IF Len(me[c].todo) = 1 THEN Arrived(c, me[c].then)
       ELSE me' = [me EXCEPT ![c].todo = Tail(@)]
    /\ astray' = astray \union Overtakes(c)
    /\ UNCHANGED <<has, kernel, lock, bounds, struck>>

-----------------------------------------------------------------------------
(* A session: command_login(), acquire_holder(), create_holder_process(). *)

Arrives(c) ==
    /\ At(c, "out") /\ commands < MaxCommands /\ commands' = commands + 1
    /\ IF c \in Killers THEN Goes(c, "seek")
       ELSE \E m \in Modes : me' = [me EXCEPT ![c].at = "check", ![c].mode = m]
    /\ UNCHANGED <<has, kernel, files, lock, deaths, strangers, past>>

\* Mutant: the lock is opened and not taken.
LocksNot(c) ==
    /\ At(c, "lock") /\ lock' = c
    /\ Goes(c, "look")
    /\ UNCHANGED <<kernel, files>> /\ Same

Locks(c) ==
    /\ At(c, "lock") /\ lock = Nobody /\ lock' = c
    /\ Goes(c, "look")
    /\ UNCHANGED <<kernel, files>> /\ Same

NewSpawn(c) == [launcher |-> "born", holder |-> "none", pid |-> 0, mode |-> me[c].mode, userns |-> has.user]

\* _spawn_holder(); fork() may fail.
Spawning(c) ==
    /\ At(c, "spawn")
    /\ \/ /\ Len(spawn) < MaxSpawns
          /\ spawn' = Append(spawn, NewSpawn(c)) /\ pipe' = Append(pipe, NoWords)
          /\ me' = [me EXCEPT ![c].at = IF has.user THEN "map" ELSE "pid", ![c].spawn = Len(spawn) + 1]
       \/ Goes(c, "unlock") /\ UNCHANGED <<spawn, pipe>>
    /\ UNCHANGED <<owner, files, lock>> /\ Same

\* The first message: a request for maps, or the pid of a holder without a
\* user namespace.
WritesMaps(c) ==
    /\ At(c, "map")
    /\ \/ /\ Hears(My(c), "pid", "MAP")
          /\ pipe' = [pipe EXCEPT ![My(c)].pid = Tail(@), ![My(c)].map = <<"M">>]
          /\ Goes(c, IF me[c].mode.idmap THEN "idmap" ELSE "pid")
       \/ /\ ~Hears(My(c), "pid", "MAP")
          /\ pipe[My(c)].pid # <<>> \/ EndOfFile(My(c), "pid")
          /\ Goes(c, "pid") /\ UNCHANGED pipe
    /\ UNCHANGED <<spawn, owner, files, lock>> /\ Same

\* Mutant: the holder is told before it is known that the mapping is refused.
IdmapsTold(c) ==
    /\ At(c, "idmap") /\ pipe' = Told(My(c), "idmap", "I")
    /\ \/ Goes(c, "pid")
       \/ me' = [me EXCEPT ![c].at = "spawn", ![c].mode.idmap = FALSE]
    /\ UNCHANGED <<spawn, owner, files, lock>> /\ Same

\* _apply_idmap_to_clone(), or HolderIdmapError and another holder without it.
Idmaps(c) ==
    /\ At(c, "idmap")
    /\ \/ pipe' = Told(My(c), "idmap", "I") /\ Goes(c, "pid")
       \/ me' = [me EXCEPT ![c].at = "spawn", ![c].mode.idmap = FALSE] /\ UNCHANGED pipe
    /\ UNCHANGED <<spawn, owner, files, lock>> /\ Same

\* Anything but a pid is an error, and the launcher is waited for.
HearsPid(c) ==
    /\ At(c, "pid")
    /\ \/ /\ Hears(My(c), "pid", "pid") /\ pipe' = Took(My(c), "pid")
          /\ me' = [me EXCEPT ![c].at = "alive", ![c].pid = spawn[My(c)].pid]
       \/ Hears(My(c), "pid", "K") /\ pipe' = Took(My(c), "pid") /\ Goes(c, "reap")
       \/ EndOfFile(My(c), "pid") /\ UNCHANGED pipe /\ Goes(c, "reap")
    /\ UNCHANGED <<spawn, owner, files, lock>> /\ Same

ReapsLauncher(c) ==
    /\ At(c, "reap") /\ LauncherIn(My(c), {"gone"})
    /\ Goes(c, "unlock")
    /\ UNCHANGED <<kernel, files, lock>> /\ Same

\* Is it alive, and in a mount namespace?
Verifies(c) ==
    /\ At(c, "alive")
    /\ IF Up(My(c)) THEN Goes(c, "open") ELSE Cleans(c, "unlock")
    /\ UNCHANGED <<kernel, files, lock>> /\ Same

\* The start time is asked for, and the file opened, which empties it.
Opens(c) ==
    /\ At(c, "open") /\ record' = Empty
    /\ me' = [me EXCEPT ![c].at = "write", ![c].start = StartTime(me[c].pid)]
    /\ UNCHANGED <<kernel, flags, maxiso, lock>> /\ Same

\* Through the descriptor: in vain if the file has been unlinked.
Writes(c) ==
    /\ At(c, "write")
    /\ record' = IF record = Empty
                   THEN Naming(me[c].pid, me[c].start, me[c].mode.chroot \/ me[c].mode.foreground)
                   ELSE record
    /\ Goes(c, "flags")
    /\ UNCHANGED <<kernel, flags, maxiso, lock>> /\ Same

WritesFlags(c) ==
    /\ At(c, "flags") /\ flags' = TRUE
    /\ Goes(c, IF me[c].mode.chroot THEN "maxiso" ELSE "mounts")
    /\ UNCHANGED <<kernel, record, maxiso, lock>> /\ Same

WritesMaxiso(c) ==
    /\ At(c, "maxiso") /\ maxiso' = TRUE /\ Goes(c, "mounts")
    /\ UNCHANGED <<kernel, record, flags, lock>> /\ Same

Own(c) == My(c) # 0 /\ me[c].mode.foreground

\* A session that is not the first one goes on without what it cannot mount.
Mounts(c) ==
    /\ At(c, "mounts")
    /\ \/ /\ lock' = Nobody /\ Goes(c, "in")
          /\ pipe' = IF Own(c) THEN Told(My(c), "go", "go") ELSE pipe
       \/ /\ First(c) /\ me' = [me EXCEPT ![c].at = "read", ![c].then = "unlock"]
          /\ UNCHANGED <<lock, pipe>>
    /\ UNCHANGED <<spawn, owner, files>> /\ Same

\* A session ends, a foreground one with its launcher: _exit_teardown().
Leaves(c) ==
    /\ At(c, "in") /\ (Own(c) => LauncherIn(My(c), {"gone"}))
    /\ lock = Nobody /\ lock' = c
    /\ IF First(c) THEN me' = [me EXCEPT ![c].at = "read", ![c].then = "unlock"]
       ELSE Goes(c, "unlock")
    /\ UNCHANGED <<kernel, files>> /\ Same

Unlocks(c) ==
    /\ At(c, "unlock") /\ lock' = Nobody
    /\ me' = [me EXCEPT ![c] = Away]
    /\ UNCHANGED <<kernel, files>> /\ Same

-----------------------------------------------------------------------------
(* release_holder(), of a session that is the last one, and of `kill`. *)

Reads(c) ==
    /\ At(c, "read")
    /\ IF Sound(record) THEN me' = [me EXCEPT ![c].at = "term", ![c].pid = record.pid, ![c].start = record.start]
       ELSE Cleans(c, me[c].then)
    /\ UNCHANGED <<kernel, files, lock>> /\ Same

\* PID 1 of a namespace only notices the signals it has asked for.
HeedsTerm(k) == HolderIn(k, {"parked"}) \/ LauncherIn(k, {"self"})
MayHeedTerm(k) == HeedsTerm(k) \/ HolderIn(k, {"runs"})

Strikes(c) == owner[me[c].pid] = Stranger /\ me[c].start # NoStart
Signals(c) ==
    /\ struck' = (struck \/ Strikes(c))
    /\ UNCHANGED <<has, pipe, owner, files, lock, bounds, astray>>

Terminates(c) ==
    /\ At(c, "term") /\ Goes(c, "poll")
    /\ LET k == owner[me[c].pid] IN
       \/ k \in Spawns /\ Up(k) /\ MayHeedTerm(k) /\ HolderGoes(k, "zombie")
       \/ ~(k \in Spawns /\ Up(k) /\ HeedsTerm(k)) /\ UNCHANGED spawn
    /\ Signals(c)

\* Ten times 50 ms.
Polls(c) ==
    /\ At(c, "poll")
    /\ IF Alive(me[c].pid) THEN Goes(c, "kill") ELSE Cleans(c, me[c].then)
    /\ UNCHANGED <<kernel, files, lock>> /\ Same

Kills(c) ==
    /\ At(c, "kill") /\ Cleans(c, me[c].then)
    /\ LET k == owner[me[c].pid] IN
       IF k \in Spawns /\ Up(k) THEN HolderGoes(k, "zombie") ELSE UNCHANGED spawn
    /\ Signals(c)

-----------------------------------------------------------------------------

\* A session is killed: nobody writes down the holder it was making.
Crashes(c) ==
    /\ ~At(c, "out") /\ deaths < MaxDeaths /\ deaths' = deaths + 1
    /\ me' = [me EXCEPT ![c] = Away]
    /\ lock' = IF lock = c THEN Nobody ELSE lock
    /\ astray' = IF me[c].at \in Handshake \union Recording THEN astray \union {My(c)} ELSE astray
    /\ UNCHANGED <<has, kernel, files, strangers, commands, struck>>

Over == commands = MaxCommands /\ (\A c \in Clients : At(c, "out")) /\ UNCHANGED vars

\* Reading a pipe and waiting for the launcher take as long as they take: forever
\* without PID namespaces, where the session has heard "K", which is no pid, and
\* waits for its launcher to end, which has parked as the holder.
Blocks(c) == me[c].at \in {"map", "pid", "reap"} /\ UNCHANGED vars

Launches(k) == Unshares(k) \/ AwaitsMaps(k) \/ Forks(k) \/ PassesOn(k) \/ Reaps(k)
Holds(k)    == Begins(k) \/ Stacks(k) \/ Answers(k) \/ Executes(k)
Creates(c)  == Spawning(c) \/ WritesMaps(c) \/ Idmaps(c) \/ HearsPid(c) \/ ReapsLauncher(c) \/ Verifies(c)
Records(c)  == Opens(c) \/ Writes(c) \/ WritesFlags(c) \/ WritesMaxiso(c)
Releases(c) == Reads(c) \/ Terminates(c) \/ Polls(c) \/ Kills(c) \/ Removes(c)
Works(c)    == Looks(c) \/ Locks(c) \/ Creates(c) \/ Records(c) \/ Mounts(c) \/ Unlocks(c) \/ Releases(c)

Next ==
    \/ \E k \in Spawns : Launches(k) \/ Holds(k) \/ CommandEnds(k) \/ Killed(k)
    \/ \E p \in Pids : StrangerComes(p)
    \/ \E c \in Clients : Works(c) \/ Arrives(c) \/ Crashes(c)
    \/ \E c \in Sessions : Leaves(c) \/ Blocks(c)
    \/ Over

\* The processes are scheduled; commands need not end, nor users log out, and
\* `kill` takes no lock.
Fairness ==
    /\ \A k \in 1..MaxSpawns : WF_vars(k \in Spawns /\ (Launches(k) \/ Holds(k)))
    /\ \A c \in Sessions : WF_vars(Works(c))

Spec == Init /\ [][Next]_vars /\ Fairness

-----------------------------------------------------------------------------
(* Properties *)

\* A record outlives its holder and the pid goes to another program: no signal
\* that is meant for a holder ever reaches one, however old the record, unless
\* the record was made without a start time.
StrangersSpared == ~struck

\* While nobody is making or releasing a holder, every holder there is is the
\* one on record, with all of its namespaces: no failure of a handshake leaves
\* one behind, and no session makes a second one.  Those that are astray are not
\* accounted for: their session or launcher was killed before they were
\* recorded, or a client without the lock removed the record.
HoldersOnRecord ==
    (\A c \in Clients : me[c].at \in {"out", "check", "lock", "in"}) =>
        \A k \in Spawns \ astray :
            spawn[k].holder \in Settled =>
                /\ record.kind = "whole" /\ record.pid = spawn[k].pid
                /\ flags /\ (spawn[k].mode.chroot => maxiso)

\* Whoever takes sessions.lock lets go of it: no end of a pipe that is left open
\* makes the three processes wait for each other, whichever of them fails or is
\* killed.  It takes a kernel with PID namespaces.
LockComesFree == has.pid /\ lock # Nobody ~> lock = Nobody
=============================================================================
