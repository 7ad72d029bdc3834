---------------------------- MODULE SessionRegistry ----------------------------
(***************************************************************************)
(* The record of each live session and who reads it                        *)
(* (helpers/session_registry.py, commands/ps.py).                          *)
(*                                                                         *)
(* A session registers and later ends, a reader looks at the record of a   *)
(* pid; each is a list of steps, one per call that others can see, and     *)
(* what they do together is a function of the order of their steps.        *)
(***************************************************************************)
EXTENDS Naturals, FiniteSets, Sequences, SequencesExt, FiniteSetsExt

Nothing == "nothing"      \* no file under a name, no record in a file

\* A file is known by the session that makes it.  `name` maps a pid to the file under it.
Registry(pids, sessions) ==
    [name |-> [p \in pids |-> Nothing], written |-> {}, locked |-> {}, read |-> Nothing,
     alive |-> FALSE, listed |-> {}]

\* register_session(): a temporary file, locked before it is written and written before it
\* gets its name.  A call that fails takes the file away.
Does(who, pid, what) == [who |-> who, pid |-> pid, does |-> what]
Registers(who, pid) == <<Does(who, pid, "lock"), Does(who, pid, "write"), Does(who, pid, "publish")>>
Fails(who, pid, calls) == SubSeq(Registers(who, pid), 1, calls) \o <<Does(who, pid, "end")>>

\* The lock goes with the last descriptor: with the process, or with the detached command that
\* inherited it.
Ends(who, pid) == <<Does(who, pid, "end")>>

\* active_sessions(), for the file of one pid: it is read, probed, and listed or removed.
Reads(pid) == <<Does("ps", pid, "read"), Does("ps", pid, "probe"), Does("ps", pid, "judge")>>

Done(r, step) ==
    LET file == r.name[step.pid]
    IN  CASE step.does = "lock"    -> [r EXCEPT !.locked = @ \union {step.who}]
          [] step.does = "write"   -> [r EXCEPT !.written = @ \union {step.who}]
          [] step.does = "publish" -> [r EXCEPT !.name[step.pid] = step.who]
          [] step.does = "end"     -> [r EXCEPT !.locked = @ \ {step.who}]
          [] step.does = "read"    -> [r EXCEPT !.read = IF file \in r.written THEN file ELSE Nothing]
          [] step.does = "probe"   -> [r EXCEPT !.alive = file \in r.locked]
          [] step.does = "judge"   -> IF ~r.alive THEN [r EXCEPT !.name[step.pid] = Nothing]
                                      ELSE [r EXCEPT !.listed = @ \union ({r.read} \ {Nothing})]

After(r, steps) == FoldLeft(Done, r, steps)

\* Every order of the steps of two actors that keeps the order of each.
Merged(a, b, places) ==
    LET before(i) == Cardinality({k \in places : k <= i})
    IN  [i \in 1..(Len(a) + Len(b)) |-> IF i \in places THEN a[before(i)] ELSE b[i - before(i)]]
Orders(a, b) == {Merged(a, b, places) : places \in kSubset(Len(a), 1..(Len(a) + Len(b)))}

\* command_ps(): the processes found in rootfs trees that belong to nobody listed.  `parent` is
\* what /proc says of the parents.
Ancestors(p, parent) ==
    LET up[n \in 0..Cardinality(DOMAIN parent)] ==
            IF n = 0 THEN {p} ELSE up[n - 1] \union {parent[q] : q \in up[n - 1] \intersect DOMAIN parent}
    IN  up[Cardinality(DOMAIN parent)]
Untracked(sessions, found, parent) ==
    {p \in DOMAIN found :
        /\ found[p] \notin {s.container : s \in sessions}
        /\ Ancestors(p, parent) \intersect {s.pid : s \in sessions} = {}}
=============================================================================
