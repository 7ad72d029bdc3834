---------------------------- MODULE MCForegroundWait ----------------------------
\* What ForegroundWait promises, over every schedule of three rounds followed by quiet ones,
\* and what it does not.
EXTENDS Naturals, FiniteSets, Sequences, FiniteSetsExt, TLC

W == INSTANCE ForegroundWait

Quiet == [k \in 1..7 |-> {}]
Rounds(events) == {r \in SUBSET events : Cardinality(r) <= 2}
Schedules(events) == {s \o Quiet : s \in [1..3 -> Rounds(events)]}

Processes == [leads : BOOLEAN, ignores : BOOLEAN, orphan : {"none", "quiet"},
              escalates : BOOLEAN, alone : {TRUE}, limit : {0}]
Shell == [leads |-> FALSE, ignores |-> FALSE, orphan |-> "none", escalates |-> TRUE, alone |-> TRUE, limit |-> 0]

\* Without a terminal the code of the command is what the command ended with.
ASSUME PlainReportsTheCode == \A p \in Processes, s \in Schedules({"exit", "signal"}) :
    LET end == W!ForegroundWait(FALSE, p, s)
    IN  end.at = "done" => end.answer = end.code /\ end.code # 0

\* On a pty it is reported only if the pty ended before the child did: else the copy loop reaps
\* the child and drops the code ("Returns the child's exit code").
ASSUME PtyLosesTheCode == \A s \in Schedules({"exit", "type", "output", "close"}) :
    LET end    == W!ForegroundWait(TRUE, Shell, s)
        before == \E i \in 1..2 : /\ "close" \in s[i]
                                  /\ \A k \in 1..i : "exit" \notin s[k]
    IN  end.at = "done" => end.code = W!Status /\ (end.answer = W!Status => before)
ASSUME SomePtyReports == \E s \in Schedules({"exit", "close"}) :
    W!ForegroundWait(TRUE, Shell, s).answer = W!Status

\* A signal ends the wait of a session that may sweep, whatever the process does with it and
\* whoever holds the pty ("so the wait always ends").
ASSUME SignalsEndTheWait == \A pty \in BOOLEAN, p \in Processes, s \in Schedules({"exit", "signal", "output"}) :
    LET end == W!ForegroundWait(pty, p, s)
    IN  p.escalates /\ (\E i \in 1..3 : "signal" \in s[i]) => end.at = "done" /\ end.child = "reaped"

\* It takes the sweep, and one that is allowed: not so beside another session.
ASSUME OthersHoldTheWait == \E s \in Schedules({"signal"}) :
    LET end == W!ForegroundWait(FALSE, [Shell EXCEPT !.ignores = TRUE, !.alone = FALSE], s)
    IN  end.swept /\ end.at = "wait"

\* A process that leads no session never sees the signal ("relay each signal to the child's
\* process group"): only the sweep ends it.
ASSUME SignalsAreDropped == \A s \in Schedules({"signal"}) :
    LET end == W!ForegroundWait(FALSE, Shell, s)
    IN  end.at = "done" => end.code = W!Swept
ASSUME LeadersAreSignalled == \A pty \in BOOLEAN, s \in Schedules({"signal"}) :
    LET end == W!ForegroundWait(pty, [Shell EXCEPT !.leads = TRUE], s)
    IN  end.child # "up" => end.code = W!Killed

\* Quiet orphans do not keep a session whose shell is gone.
ASSUME OrphansDoNotHold == \A s \in Schedules({"exit", "output", "type"}) :
    LET end == W!ForegroundWait(TRUE, [Shell EXCEPT !.orphan = "quiet"], s)
    IN  end.code = W!Status => end.at = "done"

\* Noisy ones do, and the escalation is not asked once the child is dead.
ASSUME NoiseHolds == \E s \in Schedules({"exit", "signal"}) :
    LET end == W!ForegroundWait(TRUE, [Shell EXCEPT !.orphan = "noisy", !.ignores = TRUE], s)
    IN  end.dead /\ end.at = "copy" /\ ~end.swept /\ end.since > 2

\* The end of the terminal in the poll that finds the child dead ends the relay with an error.
ASSUME HangupRaises == \E s \in Schedules({"exit", "hangup"}) :
    W!ForegroundWait(TRUE, Shell, s).at = "raised"
ASSUME OnlyHangupRaises == \A p \in Processes, s \in Schedules({"exit", "signal", "type", "output"}) :
    W!ForegroundWait(TRUE, p, s).at # "raised"

\* A deadline ends the wait without a pty, but a capture is read before it is looked at.
ASSUME DeadlinesEndTheWait == \A p \in Processes, s \in Schedules({"exit", "signal"}) :
    W!ForegroundWait(FALSE, [p EXCEPT !.limit = 4], s).at = "done"
ASSUME CapturesCanBlock == \E w \in [1..3 -> {"stdout", "stderr"}] : W!Capture(w, 2) = "blocked"

\* One descriptor kept is the only one kept; with two, what lies between them stays open too.
ASSUME ClosesTheRest == \A keep \in SUBSET (3..8), range \in BOOLEAN :
    (W!ClosedAbove(keep, 8, range) = 3..8 \ keep)
      <=> (~range \/ keep = {} \/ keep = Min(keep)..Max(keep))

-----------------------------------------------------------------------------
Requests == [allowed : BOOLEAN, header : BOOLEAN]
Connections == {"no socket", "refused", "not sent", "connected"}
Delegations == Schedules({"exit", "signal", "gone"})

\* The client turns to sudo only if the daemon has run nothing.
ASSUME FallbackRunsOnce == \A c \in Connections, q \in Requests, ignores \in BOOLEAN, s \in Delegations :
    LET handled == W!Handle(q, ignores, s)
        ran     == c = "connected" /\ handled.ran
    IN  W!RunClient(c, handled) = W!None => ~ran

\* The client reports what the command ended with, and what a client left behind is hung up.
ASSUME DelegatedCode == \A s \in Delegations :
    LET handled == W!Handle([allowed |-> TRUE, header |-> TRUE], FALSE, s)
        gone    == \E i \in 1..3 : "gone" \in s[i]
    IN  /\ (\E i \in 1..3 : s[i] # {}) => handled.child = "reaped"
        /\ handled.reply \in {<<"nothing">>} \union {<<"exit", c>> : c \in {W!Status, W!Killed}}
                               \union (IF gone THEN {<<"exit", 129>>} ELSE {})

\* A command that ignores the hangup stays, and its handler with it.
ASSUME HangupIgnored == \E s \in Delegations :
    W!Handle([allowed |-> TRUE, header |-> TRUE], TRUE, s).child = "up"

\* The daemon leaves no handler at work, and not before its time.
ASSUME LeavesWhenIdle == \A polls \in [1..5 -> {"accepted", "handling", "quiet"}] :
    (W!Serve(FALSE, polls).at = "gone") <=> \E i \in 1..3 : \A k \in 0..2 : polls[i + k] = "quiet"
ASSUME PersistsIfAsked == \A polls \in [1..5 -> {"accepted", "handling", "quiet"}] :
    W!Serve(TRUE, polls).at = "serving"

\* A daemon that ends takes the name of the socket from the one that has replaced it.
Step(who, what) == [by |-> who, does |-> what, activated |-> FALSE]
ASSUME OldTakesNew ==
    W!SocketPath(<<Step("old", "bind"), Step("new", "bind"), Step("old", "end")>>) = "nobody"
=============================================================================
