----------------------------- MODULE ForegroundWait -----------------------------
(***************************************************************************)
(* How a command waits for the process it started (syscalls/chroot.py) and *)
(* how the root daemon runs one for somebody else (daemon.py): loops that  *)
(* poll, and do with what has happened since the last poll what the        *)
(* signals, the terminal and the exit of the child ask for.                *)
(*                                                                         *)
(* A loop is a function of a schedule: a sequence of rounds, each the set  *)
(* of events that came before the poll.  "exit" is the exit of the child,  *)
(* "signal" a signal relayed to it, "type" input on the terminal, "hangup" *)
(* its end, "output" something written to the pty, "close" the pty closed  *)
(* by the child.                                                           *)
(***************************************************************************)
EXTENDS Naturals, FiniteSets, Sequences, SequencesExt, FiniteSetsExt

Grace     == 2        \* bound: rounds of _ESCALATE_GRACE_SECS
IdlePolls == 2        \* bound: polls of IDLE_TIMEOUT_SECONDS

Status   == 3         \* what the child exits with
Killed   == 128 + 15  \* _decode_status() of a death by a relayed signal,
Swept    == 128 + 9   \* and by the sweep or the deadline
NoSignal == 99        \* no signal has come

-----------------------------------------------------------------------------
(* The process, before the loop looks.  `leads` tells whether it is a      *)
(* session leader, `ignores` whether its group lives through a signal,     *)
(* `orphan` what one of its descendants does with the pty: "none" holds    *)
(* it, a "quiet" one does, a "noisy" one writes to it.                     *)

Ended(s, code) == IF s.child = "up" THEN [s EXCEPT !.child = "zombie", !.code = code] ELSE s

\* _relay_sig() and _relay(): killpg() on the pid of the child.
Relayed(s) ==
    LET timed == [s EXCEPT !.since = IF @ = NoSignal THEN 0 ELSE @]
    IN  IF s.leads /\ ~s.ignores THEN [Ended(timed, Killed) EXCEPT !.orphan = "none"] ELSE timed

Happened(s, round) ==
    LET aged == [s EXCEPT !.since = IF @ = NoSignal THEN @ ELSE @ + 1,
                          !.hung = @ \/ "hangup" \in round,
                          !.closed = @ \/ "close" \in round, !.age = @ + 1]
        left == IF "exit" \in round THEN Ended(aged, Status) ELSE aged
    IN  IF "signal" \in round THEN Relayed(left) ELSE left

\* _StuckSignalEscalation.check(), and the sweep of a session that is the last one.
Escalated(s) ==
    IF ~s.escalates \/ s.swept \/ s.since = NoSignal \/ s.since < Grace THEN s
    ELSE IF s.alone THEN [Ended([s EXCEPT !.swept = TRUE], Swept) EXCEPT !.orphan = "none"]
    ELSE [s EXCEPT !.swept = TRUE]

-----------------------------------------------------------------------------
(* The loops. *)

\* _wait_for_child(): one poll.
WaitRound(s, round) ==
    LET now == Happened(s, round)
        out == Escalated(now)
    IN  CASE s.child = "reaped"   -> [s EXCEPT !.at = "done", !.answer = 0]
          [] now.child = "zombie" -> [now EXCEPT !.at = "done", !.child = "reaped", !.answer = now.code]
          [] s.limit > 0 /\ now.age >= s.limit ->
                [Ended(out, Swept) EXCEPT !.at = "done", !.child = "reaped", !.answer = Ended(out, Swept).code]
          [] OTHER -> out

\* _pty_copy_loop(): what select() returns was asked for before the child is looked at.
Written(s, round) == s.orphan = "noisy" \/ "output" \in round
PtyOver(s) == s.orphan = "none" /\ (s.closed \/ s.child # "up")
Readable(s, round) ==
    {f \in {"stdin", "master"} :
        \/ f = "stdin" /\ s.stdin /\ (s.hung \/ "type" \in round)
        \/ f = "master" /\ (Written(s, round) \/ PtyOver(s))}
Reap(s) ==
    IF s.child = "up" THEN s
    ELSE [s EXCEPT !.child = "reaped", !.dead = TRUE, !.stdin = FALSE]
ReadInput(s, ready) ==
    IF "stdin" \notin ready \/ ~s.hung THEN s
    ELSE IF s.stdin THEN [s EXCEPT !.stdin = FALSE] ELSE [s EXCEPT !.at = "raised"]
ReadPty(s, over) == IF s.at = "copy" /\ over THEN [s EXCEPT !.at = "wait"] ELSE s
CopyRound(s, round) ==
    LET now   == Happened(s, round)
        ready == Readable(now, round)
        seen  == IF now.dead THEN now ELSE Escalated(Reap(now))
    IN  IF now.dead /\ ready = {} THEN [now EXCEPT !.at = "wait"]
        ELSE ReadPty(ReadInput(seen, ready), PtyOver(now) /\ ~Written(now, round))

Round(s, round) ==
    CASE s.at = "copy" -> CopyRound(s, round)
      [] s.at = "wait" -> WaitRound(s, round)
      [] OTHER -> s

\* _pty_relay() and _wait_for_child_with_signals(), by what the standard input is.
Started(pty, p) ==
    [at |-> IF pty THEN "copy" ELSE "wait", child |-> "up", code |-> 0, answer |-> 0, dead |-> FALSE,
     stdin |-> pty, hung |-> FALSE, closed |-> FALSE, since |-> NoSignal, age |-> 0, swept |-> FALSE,
     leads |-> pty \/ p.leads, ignores |-> p.ignores, orphan |-> p.orphan,
     escalates |-> p.escalates, alone |-> p.alone, limit |-> IF pty THEN 0 ELSE p.limit]
ForegroundWait(pty, p, schedule) == FoldLeft(Round, Started(pty, p), schedule)

\* chroot_and_run() that captures: standard output is read to its end, then standard error.
\* `writes` is what the child writes to which, `room` what a pipe takes.
Capture(writes, room) ==
    LET unread == Cardinality({i \in DOMAIN writes : writes[i] = "stderr"})
    IN  IF unread > room THEN "blocked" ELSE "drained"

\* _close_fds_above(): what is closed of the descriptors up to `top`.
ClosedAbove(keep, top, hasRange) ==
    LET kept == {d \in keep : d > 2}
    IN  IF kept = {} THEN 3..top
        ELSE IF hasRange THEN 3..(Min(kept) - 1) \union (Max(kept) + 1)..top
        ELSE 3..top \ kept

-----------------------------------------------------------------------------
(* The daemon: a handler runs the command and relays; the client asks.     *)

\* _wait_and_relay(): one poll, with what the client sent or that it has gone.
ServerRound(s, round) ==
    LET left == IF "exit" \in round THEN Ended(s, Status) ELSE s
        told == IF "signal" \in round /\ ~s.ignores THEN Ended(left, Killed) ELSE left
    IN  CASE s.at = "relay" /\ left.child = "zombie" ->
                [left EXCEPT !.at = "done", !.child = "reaped", !.answer = left.code]
          [] s.at = "relay" /\ "gone" \in round ->
                [(IF s.ignores THEN left ELSE Ended(left, 128 + 1)) EXCEPT !.at = "hangup"]
          [] s.at = "relay" -> told
          [] s.at = "hangup" /\ left.child = "zombie" ->
                [left EXCEPT !.at = "done", !.child = "reaped", !.answer = left.code]
          [] OTHER -> left

\* _handle_connection(): who is refused has nothing run.
Handle(asked, ignores, schedule) ==
    LET begin == [at |-> "relay", child |-> "up", code |-> 0, answer |-> 0, ignores |-> ignores]
        end   == FoldLeft(ServerRound, begin, schedule)
    IN  IF ~asked.allowed \/ ~asked.header THEN [ran |-> FALSE, reply |-> <<"error">>]
        ELSE [ran |-> TRUE, child |-> end.child,
              reply |-> IF end.at = "done" THEN <<"exit", end.answer>> ELSE <<"nothing">>]

\* run_client(): None lets elevate_or_die() go on to sudo.
None == <<"none">>
RunClient(reach, handled) ==
    CASE reach # "connected" \/ handled.reply = <<"error">> -> None
      [] handled.reply = <<"nothing">> -> <<"exit", 1>>      \* the daemon is gone
      [] OTHER -> handled.reply

\* The accept loop of serve(), poll by poll: a connection, a poll with a handler at work, or neither.
ServeRound(s, poll) ==
    CASE s.at = "gone"      -> s
      [] poll = "accepted"  -> [s EXCEPT !.idle = 0]
      [] poll = "handling"  -> [s EXCEPT !.idle = 0]
      [] ~s.persist /\ s.idle + 1 > IdlePolls -> [s EXCEPT !.at = "gone"]
      [] OTHER              -> [s EXCEPT !.idle = @ + 1]
Serve(persist, polls) == FoldLeft(ServeRound, [at |-> "serving", idle |-> 0, persist |-> persist], polls)

\* The name of the socket: _bind_socket() takes it over, the end of serve() takes it away.
Bound(path, step) ==
    CASE step.does = "bind" -> step.by
      [] step.does = "end" /\ ~step.activated -> "nobody"
      [] OTHER -> path
SocketPath(steps) == FoldLeft(Bound, "nobody", steps)
=============================================================================
