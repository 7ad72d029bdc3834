----------------------------- MODULE LayerDownload -----------------------------
(***************************************************************************)
(* One file fetched over HTTP: the segmented downloader of                 *)
(* helpers/download.py and its two callers, download_file() for a plain    *)
(* URL and helpers/docker/layers.download_blob() for a layer of the cache. *)
(* A loader splits the file, one worker thread per segment appends to a    *)
(* .chunkN.tmp file and retries, reconnects and resumes on its own, and    *)
(* the loader assembles what the workers left, verifies it (a blob) and    *)
(* publishes it by a rename.  Whatever the segments cannot do, a single    *)
(* connection does.  The chunk files and the recorded split outlive the    *)
(* process and are found by name by the next one, or by another one.       *)
(*                                                                         *)
(* A segment is SegLen units long; a chunk file is the sequence of the     *)
(* units in it: k for the segment's k-th unit, Junk for anything else.     *)
(***************************************************************************)
EXTENDS Naturals, Sequences, FiniteSets

CONSTANTS
    Procs,          \* processes that download this file
    Segments,       \* the segments _compute_segments() makes of it
    SegLen,         \* units in a segment
    Kinds,          \* subset of {"blob", "file"}
    Features,       \* subset of {"crash", "sigint", "range", "http", "short"}
    MaxRetries,     \* CD_DOWNLOAD_MAX_RETRIES
    MaxReconnects,  \* _MAX_RECONNECTIONS
    MaxJunk,        \* bound: wrong units the servers send
    MaxRuns         \* bound: downloads started

ASSUME DownloadAssumption ==
    /\ Segments # {} /\ IsFiniteSet(Segments)
    /\ SegLen \in Nat \ {0}
    /\ Kinds \subseteq {"blob", "file"}
    /\ MaxRetries \in Nat \ {0}   \* with 0, retry_http() returns without an attempt
    /\ {MaxReconnects, MaxJunk, MaxRuns} \subseteq Nat

Junk == 0

VARIABLES
    kind,       \* what is fetched: a verified blob or a plain file
    chunk,      \* chunk[i]: the content of the .chunkN.tmp file of segment i
    there,      \* the segments whose .chunkN.tmp file exists
    split,      \* whether .chunks.json records the split
    dest,       \* what the destination name refers to: "none", "whole", "broken"
    pc,         \* pc[p]: where p is in download_blob() / download_file()
    tries,      \* tries[p]: attempts of the single connection
    worker,     \* worker[p][i]: the thread of segment i
    abort,      \* abort[p]: the abort event
    sigint,     \* sigint[p]: the user pressed Ctrl+C during this run
    junk,       \* wrong units sent so far
    runs,       \* downloads started so far
    overlap     \* two downloads of the file have run at the same time

disk == <<chunk, there, split, dest>>
vars == <<kind, chunk, there, split, dest, pc, tries, worker, abort, sigint, junk, runs, overlap>>

Outcomes == {"done", "failed", "interrupted"}
LoaderSteps == {"idle", "probe", "split", "sweep", "await", "assemble", "clean", "single"}
                   \union Outcomes
Ended == {"none", "done", "norange", "failed", "interrupted"}
WorkerSteps == {"start", "connect", "read", "check", "wait"} \union Ended

NoWorker == [at |-> "none", got |-> 0, append |-> FALSE, attempt |-> 0, reconnects |-> 0]

\* What an intact chunk file of n units holds.
Intact(n) == [k \in 1..n |-> k]

TypeOK ==
    /\ kind \in Kinds
    /\ chunk \in [Segments -> Seq(0..SegLen)]
    /\ there \subseteq Segments
    /\ split \in BOOLEAN
    /\ dest \in {"none", "whole", "broken"}
    /\ pc \in [Procs -> LoaderSteps]
    /\ tries \in [Procs -> 0..MaxRetries]
    /\ worker \in [Procs -> [Segments -> [at : WorkerSteps, got : Nat, append : BOOLEAN,
                       attempt : 0..MaxRetries, reconnects : 0..MaxReconnects]]]
    /\ abort \in [Procs -> BOOLEAN]
    /\ sigint \in [Procs -> BOOLEAN]
    /\ junk \in 0..MaxJunk
    /\ runs \in 0..MaxRuns
    /\ overlap \in BOOLEAN

Init ==
    /\ kind \in Kinds
    /\ chunk = [i \in Segments |-> <<>>]
    /\ there = {}
    /\ split = FALSE
    /\ dest = "none"
    /\ pc = [p \in Procs |-> "idle"]
    /\ tries = [p \in Procs |-> 0]
    /\ worker = [p \in Procs |-> [i \in Segments |-> NoWorker]]
    /\ abort = [p \in Procs |-> FALSE]
    /\ sigint = [p \in Procs |-> FALSE]
    /\ junk = 0
    /\ runs = 0
    /\ overlap = FALSE

Alive(p, i) == worker[p][i].at \notin Ended

\* The process is still there: its loader, or a thread the pool left behind.
Up(p) == pc[p] \notin {"idle"} \union Outcomes \/ \E i \in Segments : Alive(p, i)

Goto(p, step) == pc' = [pc EXCEPT ![p] = step]

(***************************************************************************)
(* The loader                                                              *)
(***************************************************************************)

\* download_blob() returns at once for a cached layer; a plain file is fetched anew.
\* Without a second connection to spare nothing is probed.
Begin(p) ==
    /\ ~Up(p)
    /\ runs < MaxRuns
    /\ runs' = runs + 1
    /\ abort' = [abort EXCEPT ![p] = FALSE]
    /\ sigint' = [sigint EXCEPT ![p] = FALSE]
    /\ tries' = [tries EXCEPT ![p] = 0]
    /\ worker' = [worker EXCEPT ![p] = [i \in Segments |-> NoWorker]]
    /\ overlap' = (overlap \/ \E q \in Procs : Up(q))
    /\ IF kind = "blob" /\ dest # "none"
         THEN Goto(p, "done")
         ELSE \E step \in {"probe", "single"} : Goto(p, step)
    /\ UNCHANGED <<kind, disk, junk>>

\* HEAD, then a one-byte Range request: a server without ranges, of unknown length or
\* out of reach sends the download down the single connection.
Probe(p) ==
    /\ pc[p] = "probe"
    /\ \E step \in {"split", "single"} : Goto(p, step)
    /\ UNCHANGED <<kind, disk, tries, worker, abort, sigint, junk, runs, overlap>>

Started == [i \in Segments |-> [NoWorker EXCEPT !.at = "start"]]

\* A recorded split of the same length is taken over with the chunk files it names.
TakeSplit(p) ==
    /\ pc[p] = "split"
    /\ split
    /\ Goto(p, "await")
    /\ worker' = [worker EXCEPT ![p] = Started]
    /\ UNCHANGED <<kind, disk, tries, abort, sigint, junk, runs, overlap>>

\* Without one, whatever chunk files an earlier split left are deleted.
Sweep(p) ==
    /\ pc[p] = "split"
    /\ ~split
    /\ chunk' = [i \in Segments |-> <<>>]
    /\ there' = {}
    /\ Goto(p, IF Cardinality(Segments) = 1 THEN "single" ELSE "sweep")
    /\ UNCHANGED <<kind, split, dest, tries, worker, abort, sigint, junk, runs, overlap>>

\* The new split is recorded; a failure to is only logged.
RecordSplit(p) ==
    /\ pc[p] = "sweep"
    /\ split' \in {TRUE, split}
    /\ Goto(p, "await")
    /\ worker' = [worker EXCEPT ![p] = Started]
    /\ UNCHANGED <<kind, chunk, there, dest, tries, abort, sigint, junk, runs, overlap>>

\* as_completed() until every future has a result.
AllDone(p) ==
    /\ pc[p] = "await"
    /\ \A i \in Segments : worker[p][i].at = "done"
    /\ Goto(p, "assemble")
    /\ UNCHANGED <<kind, disk, tries, worker, abort, sigint, junk, runs, overlap>>

\* A future raised: the others are told to stop and left behind.  A plain file goes to a
\* single connection if a server refused a range, and has failed otherwise; a blob goes
\* to a single connection either way, with the abort event the worker's failure set.
WorkerRaised(p) ==
    /\ pc[p] = "await"
    /\ \E i \in Segments :
         /\ worker[p][i].at \in {"norange", "failed", "interrupted"}
         /\ LET why == worker[p][i].at IN
            Goto(p, CASE why = "interrupted" -> "interrupted"
                      [] why = "failed" /\ kind = "file" -> "failed"
                      [] OTHER -> "single")
    /\ abort' = [abort EXCEPT ![p] = TRUE]
    /\ UNCHANGED <<kind, disk, tries, worker, sigint, junk, runs, overlap>>

\* Mutant: the blob published before it is hashed.
AssembleUnverified(p) ==
    /\ pc[p] = "assemble"
    /\ dest' = IF \A i \in Segments : chunk[i] = Intact(SegLen) THEN "whole" ELSE "broken"
    /\ Goto(p, "clean")
    /\ UNCHANGED <<kind, chunk, there, split, tries, worker, abort, sigint, junk, runs, overlap>>

\* The chunk files in order, in a temporary beside the destination: a blob is hashed and
\* published only under its digest, a file as it is.  A missing chunk file fails.
Assemble(p) ==
    /\ pc[p] = "assemble"
    /\ LET whole == \A i \in Segments : chunk[i] = Intact(SegLen) IN
       IF there # Segments \/ (kind = "blob" /\ ~whole)
         THEN Goto(p, "failed") /\ UNCHANGED dest
         ELSE /\ dest' = IF whole THEN "whole" ELSE "broken"
              /\ Goto(p, "clean")
    /\ UNCHANGED <<kind, chunk, there, split, tries, worker, abort, sigint, junk, runs, overlap>>

\* Only a published download removes its chunk files and the record of the split.
Clean(p) ==
    /\ pc[p] = "clean"
    /\ chunk' = [i \in Segments |-> <<>>]
    /\ there' = {}
    /\ split' = FALSE
    /\ Goto(p, "done")
    /\ UNCHANGED <<kind, dest, tries, worker, abort, sigint, junk, runs, overlap>>

(***************************************************************************)
(* The single connection                                                   *)
(***************************************************************************)

\* retry_http() makes MaxRetries attempts at a blob, _download_single_loop() one more
\* than that at a file.
Attempts == IF kind = "blob" THEN MaxRetries ELSE MaxRetries + 1

\* A blob looks at the abort event before each attempt; a file has an event of its own,
\* which only Ctrl+C sets.
CalledOff(p) == kind = "blob" /\ abort[p]

SingleAborts(p) ==
    /\ pc[p] = "single"
    /\ CalledOff(p)
    /\ Goto(p, "interrupted")
    /\ UNCHANGED <<kind, disk, tries, worker, abort, sigint, junk, runs, overlap>>

\* The body arrived, whole, with a wrong unit, or cut short by a server that closes: the
\* digest tells for a blob, and a mismatch is not tried again; nothing does for a file.
SingleArrives(p) ==
    /\ pc[p] = "single"
    /\ ~CalledOff(p)
    /\ \/ dest' = "whole" /\ Goto(p, "done") /\ UNCHANGED junk
       \/ /\ \/ "short" \in Features /\ UNCHANGED junk
             \/ junk < MaxJunk /\ junk' = junk + 1
          /\ IF kind = "blob"
               THEN Goto(p, "failed") /\ UNCHANGED dest
               ELSE Goto(p, "done") /\ dest' = "broken"
    /\ UNCHANGED <<kind, chunk, there, split, tries, worker, abort, sigint, runs, overlap>>

\* A failure a repeat could fix is repeated after a delay, until the attempts are spent;
\* any other is raised at once.
SingleFails(p) ==
    /\ pc[p] = "single"
    /\ ~CalledOff(p)
    /\ \/ /\ tries[p] + 1 < Attempts
          /\ tries' = [tries EXCEPT ![p] = @ + 1]
          /\ UNCHANGED pc
       \/ /\ tries[p] + 1 = Attempts \/ "http" \in Features
          /\ Goto(p, "failed")
          /\ UNCHANGED tries
    /\ UNCHANGED <<kind, disk, worker, abort, sigint, junk, runs, overlap>>

(***************************************************************************)
(* The thread of one segment: _download_segment()                          *)
(***************************************************************************)

\* A thread that has ended keeps its outcome only.
Rest(w) == IF w.at \in Ended THEN [NoWorker EXCEPT !.at = w.at] ELSE w

Becomes(p, i, w) == worker' = [worker EXCEPT ![p][i] = Rest(w)]

Unworked == <<kind, split, dest, pc, tries, abort, sigint, runs, overlap>>

\* Mutant: the chunk files of an earlier run not looked at.
OnDiskForgotten(i, otherwise) == otherwise

\* What os.path.getsize() reports, or the count so far when there is no such file.
OnDisk(i, otherwise) == IF i \in there THEN Len(chunk[i]) ELSE otherwise

\* What is on disk counts: a segment already there is not requested.
WorkerStarts(p, i) ==
    /\ worker[p][i].at = "start"
    /\ LET size == OnDisk(i, 0) IN
       Becomes(p, i, [worker[p][i] EXCEPT
           !.at = IF size >= SegLen THEN "done" ELSE "connect", !.got = size])
    /\ UNCHANGED <<chunk, there, junk, Unworked>>

\* The event is looked at before a connection is opened, after it is, before each read
\* and while waiting for the next attempt.
WorkerAborts(p, i) ==
    /\ worker[p][i].at \in {"connect", "read", "wait"}
    /\ abort[p]
    /\ Becomes(p, i, [worker[p][i] EXCEPT !.at = "interrupted"])
    /\ UNCHANGED <<chunk, there, junk, Unworked>>

\* The response is there and the chunk file open, to append to what it holds or afresh.
Opens(p, i, at) ==
    LET more == worker[p][i].got > 0 IN
    /\ Becomes(p, i, [worker[p][i] EXCEPT !.at = at, !.append = more])
    /\ chunk' = [chunk EXCEPT ![i] = IF more THEN @ ELSE <<>>]
    /\ there' = there \union {i}

\* Mutant: the whole segment requested although the chunk file is opened to append.
ConnectsAgain(p, i) ==
    /\ worker[p][i].at = "connect"
    /\ ~abort[p]
    /\ Becomes(p, i, [worker[p][i] EXCEPT !.at = "read", !.append = TRUE, !.got = 0])
    /\ there' = there \union {i}
    /\ UNCHANGED <<chunk, junk, Unworked>>

\* 206 Partial Content.
Connects(p, i) ==
    /\ worker[p][i].at = "connect"
    /\ ~abort[p]
    /\ Opens(p, i, "read")
    /\ UNCHANGED <<junk, Unworked>>

\* 416, an HTTPError, or 200 for the whole file, seen when the chunk file is open.
RangeRefused(p, i) ==
    /\ worker[p][i].at = "connect"
    /\ ~abort[p]
    /\ "range" \in Features
    /\ \/ Becomes(p, i, [worker[p][i] EXCEPT !.at = "norange"]) /\ UNCHANGED <<chunk, there>>
       \/ Opens(p, i, "norange")
    /\ UNCHANGED <<junk, Unworked>>

\* Another HTTP error: 5xx, 408 and 429 are worth an attempt, the rest are final.
HttpError(p, i) ==
    /\ worker[p][i].at = "connect"
    /\ ~abort[p]
    /\ "http" \in Features
    /\ \E again \in BOOLEAN :
         Becomes(p, i, [worker[p][i] EXCEPT
             !.at = IF again /\ worker[p][i].attempt < MaxRetries THEN "wait" ELSE "failed"])
    /\ UNCHANGED <<chunk, there, junk, Unworked>>

\* A write at the end of the file, or where the file was opened afresh and has grown to:
\* between the two there may be what another process put there, or a hole.
Written(i, w, unit) ==
    LET old == chunk[i]
        pos == w.got + 1
    IN IF w.append \/ pos = Len(old) + 1 THEN Append(old, unit)
       ELSE IF pos <= Len(old) THEN [old EXCEPT ![pos] = unit]
       ELSE Append(old \o [k \in 1..(pos - 1 - Len(old)) |-> Junk], unit)

Reads(p, i) ==
    LET w == worker[p][i] IN
    /\ w.at = "read"
    /\ ~abort[p]
    /\ w.got < SegLen
    /\ \E unit \in {w.got + 1, Junk} :
         /\ junk' = IF unit = Junk THEN junk + 1 ELSE junk
         /\ junk' <= MaxJunk
         \* the file is gone from its directory and the bytes with it
         /\ chunk' = IF i \in there THEN [chunk EXCEPT ![i] = Written(i, w, unit)] ELSE chunk
    /\ Becomes(p, i, [w EXCEPT !.got = @ + 1])
    /\ UNCHANGED <<there, Unworked>>

\* The response ends, where it should or before.
Ends(p, i) ==
    /\ worker[p][i].at = "read"
    /\ ~abort[p]
    /\ worker[p][i].got = SegLen \/ "short" \in Features
    /\ Becomes(p, i, [worker[p][i] EXCEPT !.at = "check"])
    /\ UNCHANGED <<chunk, there, junk, Unworked>>

\* Mutant: connections not counted.
ReconnectedForever(i, w) ==
    LET size == OnDisk(i, w.got) IN
    [w EXCEPT !.at = IF size >= SegLen THEN "done" ELSE "connect", !.got = size, !.attempt = 0]

\* No attempt is left, or the failure is none a repeat fixes: another connection resumes
\* from what is on disk, unless that is all there is to get or connections are spent too.
Reconnected(i, w) ==
    LET size == OnDisk(i, w.got) IN
    CASE size >= SegLen -> [w EXCEPT !.at = "done", !.got = size]
      [] size < SegLen /\ w.reconnects < MaxReconnects ->
            [w EXCEPT !.at = "connect", !.got = size, !.attempt = 0, !.reconnects = @ + 1]
      [] OTHER -> [w EXCEPT !.at = "failed"]

\* The size of the chunk file decides whether the segment is complete.
Checks(p, i) ==
    /\ worker[p][i].at = "check"
    /\ IF i \in there /\ Len(chunk[i]) = SegLen
         THEN Becomes(p, i, [worker[p][i] EXCEPT !.at = "done"])
         ELSE Becomes(p, i, IF abort[p] THEN [worker[p][i] EXCEPT !.at = "interrupted"]
                                        ELSE Reconnected(i, worker[p][i]))
    /\ UNCHANGED <<chunk, there, junk, Unworked>>

\* Mutant: one retry more than there are delays for.
DropsOnceMore(p, i) ==
    /\ worker[p][i].at \in {"connect", "read"}
    /\ LET w == worker[p][i] IN
       Becomes(p, i, CASE abort[p] -> [w EXCEPT !.at = "interrupted"]
                       [] ~abort[p] /\ w.attempt <= MaxRetries -> [w EXCEPT !.at = "wait"]
                       [] OTHER -> Reconnected(i, w))
    /\ UNCHANGED <<chunk, there, junk, Unworked>>

\* The connection is refused, dropped or times out.
Drops(p, i) ==
    /\ worker[p][i].at \in {"connect", "read"}
    /\ LET w == worker[p][i] IN
       Becomes(p, i, CASE abort[p] -> [w EXCEPT !.at = "interrupted"]
                       [] ~abort[p] /\ w.attempt < MaxRetries -> [w EXCEPT !.at = "wait"]
                       [] OTHER -> Reconnected(i, w))
    /\ UNCHANGED <<chunk, there, junk, Unworked>>

\* The next attempt resumes from what is on disk.
Retries(p, i) ==
    /\ worker[p][i].at = "wait"
    /\ ~abort[p]
    /\ Becomes(p, i, [worker[p][i] EXCEPT !.at = "connect", !.attempt = @ + 1,
                                          !.got = OnDisk(i, @)])
    /\ UNCHANGED <<chunk, there, junk, Unworked>>

(***************************************************************************)
(* The user and the machine                                                *)
(***************************************************************************)

\* Ctrl+C: the handler sets the event, shuts the sockets down and raises in the loader.
Interrupt(p) ==
    /\ "sigint" \in Features
    /\ pc[p] \notin {"idle"} \union Outcomes
    /\ sigint' = [sigint EXCEPT ![p] = TRUE]
    /\ abort' = [abort EXCEPT ![p] = TRUE]
    /\ Goto(p, "interrupted")
    /\ UNCHANGED <<kind, disk, tries, worker, junk, runs, overlap>>

\* The process dies, its threads with it; what is on disk stays.
Crash(p) ==
    /\ "crash" \in Features
    /\ Up(p)
    /\ Goto(p, "idle")
    /\ worker' = [worker EXCEPT ![p] = [i \in Segments |-> NoWorker]]
    /\ UNCHANGED <<kind, disk, tries, abort, sigint, junk, runs, overlap>>

Loader(p) ==
    \/ Probe(p) \/ TakeSplit(p) \/ Sweep(p) \/ RecordSplit(p)
    \/ AllDone(p) \/ WorkerRaised(p) \/ Assemble(p) \/ Clean(p)
    \/ SingleAborts(p) \/ SingleArrives(p) \/ SingleFails(p)

Worker(p, i) ==
    \/ WorkerStarts(p, i) \/ WorkerAborts(p, i) \/ Connects(p, i) \/ RangeRefused(p, i)
    \/ HttpError(p, i) \/ Reads(p, i) \/ Ends(p, i) \/ Checks(p, i) \/ Drops(p, i)
    \/ Retries(p, i)

\* Nothing is left to do: the last download is over and no other will start.
Over == runs = MaxRuns /\ (\A p \in Procs : ~Up(p)) /\ UNCHANGED vars

Next ==
    \/ \E p \in Procs : Begin(p) \/ Loader(p) \/ Interrupt(p) \/ Crash(p)
    \/ \E p \in Procs, i \in Segments : Worker(p, i)
    \/ Over

Spec == Init /\ [][Next]_vars

\* Threads are scheduled, and a read answers or times out (_SOCKET_TIMEOUT).
FairSpec ==
    /\ Spec
    /\ \A p \in Procs : WF_vars(Loader(p)) /\ \A i \in Segments : WF_vars(Worker(p, i))

(***************************************************************************)
(* Properties                                                              *)
(***************************************************************************)

\* docker/layers.py: the name of a layer in the cache refers to the bytes of its digest or
\* to nothing, whatever servers send, whoever dies, and however many processes write the
\* same chunk files.
CachedMeansVerified == kind = "blob" => dest # "broken"

\* Resuming: through retries, reconnections, interrupts and crashes the bytes of a chunk
\* file are at their own offsets, as long as one process at a time downloads the file.
SegmentsInPlace ==
    ~overlap => \A i \in Segments : \A k \in DOMAIN chunk[i] : k <= SegLen /\ chunk[i][k] \in {k, Junk}

\* Only Ctrl+C reports a download as interrupted.
InterruptIsUsers == \A p \in Procs : pc[p] = "interrupted" => sigint[p]

\* A download never throws away what the recorded split holds: chunk files that the next
\* run would take over do not shrink before their content is published.
ProgressKept ==
    [][split /\ split' /\ dest' = dest /\ ~overlap' =>
         \A i \in Segments : Len(chunk'[i]) >= Len(chunk[i])]_vars

\* Every download ends, and so do the threads it leaves behind, however many servers
\* refuse, drop or cut what they send.
DownloadEnds == \A p \in Procs : Up(p) ~> ~Up(p)
================================================================================
