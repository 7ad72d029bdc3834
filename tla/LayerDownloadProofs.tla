-------------------------- MODULE LayerDownloadProofs --------------------------
(***************************************************************************)
(* What holds of LayerDownload for every number of processes, segments,    *)
(* retries and reconnections, whatever servers send and whoever dies.      *)
(***************************************************************************)
EXTENDS LayerDownload, TLAPS

LEMMA Bounds ==
  /\ SegLen \in Nat /\ SegLen > 0
  /\ MaxRetries \in Nat /\ MaxRetries > 0
  /\ MaxReconnects \in Nat /\ MaxJunk \in Nat /\ MaxRuns \in Nat
<1>1. MaxReconnects \in Nat /\ MaxJunk \in Nat /\ MaxRuns \in Nat
  BY Zenon, DownloadAssumption
<1> QED
  BY <1>1, DownloadAssumption

-----------------------------------------------------------------------------
(* The types.  An attempt is left while a worker waits for it. *)

WaitInv == \A p \in Procs, i \in Segments :
    worker[p][i].at = "wait" => worker[p][i].attempt < MaxRetries

TypeInv == TypeOK /\ WaitInv

\* The state of one thread.
Threads == [at : WorkerSteps, got : Nat, append : BOOLEAN,
            attempt : 0..MaxRetries, reconnects : 0..MaxReconnects]
Waits(w) == w.at = "wait" => w.attempt < MaxRetries

LEMMA StepNames ==
  /\ {"start", "connect", "read", "check", "wait", "none", "done", "norange", "failed", "interrupted"}
        \subseteq WorkerSteps
  /\ Ended \subseteq WorkerSteps /\ "wait" \notin Ended
  BY DEF WorkerSteps, Ended

\* A thread that has changed in these fields is a thread.
LEMMA ThreadAt ==
  ASSUME NEW w \in Threads, NEW a \in WorkerSteps
  PROVE  /\ [w EXCEPT !.at = a] \in Threads
         /\ [w EXCEPT !.at = a].at = a
         /\ [w EXCEPT !.at = a].got = w.got
  BY DEF Threads

LEMMA ThreadGot ==
  ASSUME NEW w \in Threads, NEW n \in Nat
  PROVE  /\ [w EXCEPT !.got = n] \in Threads
         /\ [w EXCEPT !.got = n].at = w.at
         /\ [w EXCEPT !.got = n].got = n
  BY DEF Threads

LEMMA ThreadAtAppend ==
  ASSUME NEW w \in Threads, NEW a \in WorkerSteps, NEW b \in BOOLEAN
  PROVE  /\ [w EXCEPT !.at = a, !.append = b] \in Threads
         /\ [w EXCEPT !.at = a, !.append = b].at = a
         /\ [w EXCEPT !.at = a, !.append = b].got = w.got
  BY DEF Threads

LEMMA NoWorkerThread == NoWorker \in Threads /\ Waits(NoWorker) /\ NoWorker.at = "none"
<1>1. "none" \in WorkerSteps
  BY StepNames
<1>2. 0 \in Nat /\ 0 \in 0..MaxRetries /\ 0 \in 0..MaxReconnects
  BY Bounds
<1> QED
  BY <1>1, <1>2 DEF NoWorker, Threads, Waits

LEMMA StartedThreads == Started \in [Segments -> Threads] /\ \A i \in Segments : Waits(Started[i])
<1>1. "start" \in WorkerSteps
  BY StepNames
<1>2. [NoWorker EXCEPT !.at = "start"] \in Threads /\ [NoWorker EXCEPT !.at = "start"].at = "start"
  BY <1>1, NoWorkerThread, ThreadAt
<1> QED
  BY <1>2 DEF Started, Waits

LEMMA RestThread ==
  ASSUME NEW w \in Threads, Waits(w)
  PROVE  Rest(w) \in Threads /\ Waits(Rest(w))
<1>1. CASE w.at \in Ended
  <2>1. w.at \in WorkerSteps /\ w.at # "wait"
    BY <1>1, StepNames
  <2>2. [NoWorker EXCEPT !.at = w.at] \in Threads /\ [NoWorker EXCEPT !.at = w.at].at = w.at
    BY <2>1, NoWorkerThread, ThreadAt
  <2>3. Rest(w) = [NoWorker EXCEPT !.at = w.at]
    BY <1>1 DEF Rest
  <2> QED
    BY <2>1, <2>2, <2>3 DEF Waits
<1>2. CASE w.at \notin Ended
  BY <1>2 DEF Rest
<1> QED
  BY <1>1, <1>2

\* The types of the threads are those of TypeInv.
LEMMA ThreadTypes ==
  TypeInv <=> /\ TypeOK
              /\ worker \in [Procs -> [Segments -> Threads]]
              /\ \A p \in Procs, i \in Segments : Waits(worker[p][i])
  BY DEF TypeInv, TypeOK, WaitInv, Threads, Waits

\* What is written to a chunk file.
LEMMA WrittenType ==
  ASSUME NEW i \in Segments, chunk \in [Segments -> Seq(0..SegLen)],
         NEW w \in Threads, w.got < SegLen, NEW unit \in 0..SegLen
  PROVE  Written(i, w, unit) \in Seq(0..SegLen)
<1> DEFINE old == chunk[i]
           pos == w.got + 1
<1>1. old \in Seq(0..SegLen) /\ pos \in Nat
  BY DEF Threads
<1>2. CASE w.append \/ pos = Len(old) + 1
  <2>1. Written(i, w, unit) = Append(old, unit)
    BY <1>2 DEF Written
  <2> HIDE DEF old
  <2> QED
    BY <1>1, <2>1
<1>3. CASE ~(w.append \/ pos = Len(old) + 1) /\ pos <= Len(old)
  <2>1. Written(i, w, unit) = [old EXCEPT ![pos] = unit]
    BY <1>3 DEF Written
  <2>2. pos \in 1..Len(old)
    BY <1>1, <1>3 DEF Threads
  <2> HIDE DEF old, pos
  <2> QED
    BY <1>1, <2>1, <2>2
<1>4. CASE ~(w.append \/ pos = Len(old) + 1) /\ ~(pos <= Len(old))
  <2> DEFINE n == pos - 1 - Len(old)
            hole == [k \in 1..n |-> Junk]
  <2>1. n \in Nat
    BY <1>1, <1>4
  <2>2. Junk \in 0..SegLen
    BY Bounds DEF Junk
  <2> HIDE DEF n
  <2>3. hole \in Seq(0..SegLen)
    BY <2>1, <2>2
  <2> HIDE DEF hole
  <2>4. old \o hole \in Seq(0..SegLen)
    BY <1>1, <2>3
  <2>5. Append(old \o hole, unit) \in Seq(0..SegLen)
    BY <2>4
  <2>6. Written(i, w, unit) = Append(old \o hole, unit)
    BY <1>4 DEF Written, n, hole
  <2> QED
    BY <2>5, <2>6
<1> QED
  BY <1>2, <1>3, <1>4

LEMMA TypeInit == Init => TypeInv
<1> SUFFICES ASSUME Init PROVE TypeInv
  OBVIOUS
<1>1. worker \in [Procs -> [Segments -> Threads]] /\ \A p \in Procs, i \in Segments : Waits(worker[p][i])
  BY NoWorkerThread DEF Init
<1>2. chunk \in [Segments -> Seq(0..SegLen)]
  <2>1. <<>> \in Seq(0..SegLen)
    OBVIOUS
  <2> QED
    BY <2>1 DEF Init
<1>3. 0 \in 0..MaxRetries /\ 0 \in 0..MaxJunk /\ 0 \in 0..MaxRuns /\ "idle" \in LoaderSteps
  BY Bounds DEF LoaderSteps
<1>4. worker \in [Procs -> [Segments -> [at : WorkerSteps, got : Nat, append : BOOLEAN,
                       attempt : 0..MaxRetries, reconnects : 0..MaxReconnects]]]
  BY <1>1 DEF Threads
<1>5. TypeOK
  BY <1>2, <1>3, <1>4 DEF Init, TypeOK
<1> QED
  BY <1>1, <1>5, ThreadTypes

\* A step of a thread that leaves it in a proper state.
LEMMA ThreadStep ==
  ASSUME TypeInv, NEW p \in Procs, NEW i \in Segments,
         NEW w \in Threads, Waits(w), Becomes(p, i, w),
         chunk' \in [Segments -> Seq(0..SegLen)], there' \subseteq Segments,
         junk' \in 0..MaxJunk, UNCHANGED Unworked
  PROVE  TypeInv'
<1>1. /\ worker' \in [Procs -> [Segments -> Threads]]
      /\ \A q \in Procs, j \in Segments : Waits(worker'[q][j])
  BY RestThread, ThreadTypes DEF Becomes
<1>2. TypeOK'
  BY <1>1 DEF TypeInv, TypeOK, Unworked, Threads
<1> QED
  BY <1>1, <1>2 DEF TypeInv, WaitInv, Waits

LEMMA LoaderTypes ==
  ASSUME TypeInv, NEW p \in Procs, Begin(p) \/ Loader(p) \/ Interrupt(p) \/ Crash(p)
  PROVE  TypeInv'
<1> DEFINE Kept == UNCHANGED worker
           Reset == \E f \in [Segments -> Threads] :
                       /\ \A i \in Segments : Waits(f[i])
                       /\ worker' = [worker EXCEPT ![p] = f]
<1>0. [i \in Segments |-> NoWorker] \in [Segments -> Threads]
      /\ \A i \in Segments : Waits([j \in Segments |-> NoWorker][i])
  BY NoWorkerThread
<1>1. Kept \/ Reset
  <2>1. CASE Begin(p)
    BY <2>1, <1>0 DEF Begin
  <2>2. CASE Crash(p)
    BY <2>2, <1>0 DEF Crash
  <2>3. CASE TakeSplit(p)
    BY <2>3, StartedThreads DEF TakeSplit
  <2>4. CASE RecordSplit(p)
    BY <2>4, StartedThreads DEF RecordSplit
  <2> QED
    BY <2>1, <2>2, <2>3, <2>4 DEF Loader, Interrupt, Probe, Sweep, AllDone, WorkerRaised, Assemble,
       Clean, SingleAborts, SingleArrives, SingleFails
<1>2. worker' \in [Procs -> [Segments -> Threads]] /\ \A q \in Procs, i \in Segments : Waits(worker'[q][i])
  BY <1>1, ThreadTypes
<1> USE Bounds DEF TypeInv, TypeOK, LoaderSteps, Outcomes, Goto, disk
<1>3. TypeOK'
  <2>0. worker' \in [Procs -> [Segments -> [at : WorkerSteps, got : Nat, append : BOOLEAN,
                       attempt : 0..MaxRetries, reconnects : 0..MaxReconnects]]]
    BY <1>2 DEF Threads
  <2>e. <<>> \in Seq(0..SegLen)
    OBVIOUS
  <2>1. CASE Begin(p)
    BY <2>0, <2>1 DEF Begin
  <2>2. CASE Interrupt(p) \/ Crash(p)
    BY <2>0, <2>2 DEF Interrupt, Crash
  <2>3. CASE Probe(p) \/ TakeSplit(p) \/ AllDone(p) \/ SingleAborts(p)
    BY <2>0, <2>3 DEF Probe, TakeSplit, AllDone, SingleAborts
  <2>4. CASE Sweep(p)
    BY <2>0, <2>e, <2>4 DEF Sweep
  <2>5. CASE RecordSplit(p)
    BY <2>0, <2>5 DEF RecordSplit
  <2>6. CASE WorkerRaised(p)
    BY <2>0, <2>6 DEF WorkerRaised
  <2>7. CASE Assemble(p)
    BY <2>0, <2>7 DEF Assemble
  <2>8. CASE Clean(p)
    BY <2>0, <2>e, <2>8 DEF Clean
  <2>9. CASE SingleArrives(p)
    <3>1. dest' \in {"none", "whole", "broken"} /\ junk' \in 0..MaxJunk
      BY <2>9 DEF SingleArrives
    <3>2. pc' \in [Procs -> LoaderSteps]
      BY <2>9 DEF SingleArrives
    <3> QED
      BY <2>0, <2>9, <3>1, <3>2 DEF SingleArrives
  <2>10. CASE SingleFails(p)
    <3>1. tries' \in [Procs -> 0..MaxRetries]
      <4>1. CASE tries' = tries
        BY <4>1
      <4>2. CASE tries[p] + 1 < Attempts /\ tries' = [tries EXCEPT ![p] = @ + 1]
        <5>1. tries[p] + 1 \in 0..MaxRetries
          BY <4>2 DEF Attempts
        <5> QED
          BY <4>2, <5>1
      <4> QED
        BY <2>10, <4>1, <4>2 DEF SingleFails
    <3>2. pc' \in [Procs -> LoaderSteps]
      BY <2>10 DEF SingleFails
    <3> QED
      BY <2>0, <2>10, <3>1, <3>2 DEF SingleFails
  <2> QED
    BY <2>1, <2>2, <2>3, <2>4, <2>5, <2>6, <2>7, <2>8, <2>9, <2>10 DEF Loader
<1> QED
  BY <1>2, <1>3 DEF WaitInv, Waits

\* A thread left by a dropped connection or by a short chunk file.
LEMMA ReconnectedThread ==
  ASSUME TypeInv, NEW i \in Segments, NEW w \in Threads
  PROVE  /\ Reconnected(i, w) \in Threads
         /\ Reconnected(i, w).at \in {"done", "connect", "failed"}
         /\ Reconnected(i, w).at = "connect" => Reconnected(i, w).got = OnDisk(i, w.got)
<1>1. OnDisk(i, w.got) \in Nat /\ SegLen \in Nat
  BY Bounds DEF OnDisk, TypeInv, TypeOK, Threads
<1>s. "done" \in WorkerSteps /\ "connect" \in WorkerSteps /\ "failed" \in WorkerSteps
  BY StepNames
<1> DEFINE size == OnDisk(i, w.got)
           more == w.reconnects + 1
           again == [w EXCEPT !.at = "connect", !.got = size, !.attempt = 0, !.reconnects = more]
<1>2. CASE size >= SegLen
  <2>1. Reconnected(i, w) = [w EXCEPT !.at = "done", !.got = size]
    BY <1>1, <1>2 DEF Reconnected
  <2>2. size \in Nat
    BY <1>1
  <2> HIDE DEF size
  <2>3. [w EXCEPT !.at = "done", !.got = size] \in Threads
        /\ [w EXCEPT !.at = "done", !.got = size].at = "done"
    BY <1>s, <2>2 DEF Threads
  <2> QED
    BY <2>1, <2>3
<1>3. CASE size < SegLen /\ w.reconnects < MaxReconnects
  <2>1. Reconnected(i, w) = again
    BY <1>1, <1>3, Bounds DEF Reconnected
  <2>2. more \in 0..MaxReconnects /\ 0 \in 0..MaxRetries /\ size \in Nat
    BY <1>1, <1>3, Bounds DEF Threads
  <2>3. again \in Threads /\ again.at = "connect" /\ again.got = size
    <3> HIDE DEF more, size
    <3> QED
      BY <1>s, <2>2 DEF Threads
  <2> HIDE DEF again
  <2> QED
    BY <2>1, <2>3
<1>4. CASE ~(size >= SegLen) /\ ~(size < SegLen /\ w.reconnects < MaxReconnects)
  <2>1. Reconnected(i, w) = [w EXCEPT !.at = "failed"]
    BY <1>4 DEF Reconnected
  <2>2. [w EXCEPT !.at = "failed"] \in Threads /\ [w EXCEPT !.at = "failed"].at = "failed"
    BY <1>s, ThreadAt
  <2> QED
    BY <2>1, <2>2
<1> QED
  BY <1>2, <1>3, <1>4

(* The move of a thread: what it is left as (v), what its chunk file is left with (c). *)

Busy == {"connect", "read", "check", "wait"}

\* A chunk file whose units are in place: what a lone download leaves.
Sound(c, i, files) ==
    /\ Len(c) <= SegLen
    /\ \A k \in 1..Len(c) : c[k] \in {k, Junk}
    /\ i \notin files => c = <<>>

\* The thread counts what is in its chunk file, and the file it writes to is there.
Tracks(w, c, i, files) ==
    /\ w.at \in Busy => w.got = Len(c)
    /\ w.at \in {"read", "check"} => i \in files

Follows(p, i, v, c) ==
    Sound(chunk[i], i, there) /\ Tracks(worker[p][i], chunk[i], i, there) =>
        Sound(c, i, there') /\ Tracks(v, c, i, there') /\ Len(c) >= Len(chunk[i])

Move(p, i, v, c) ==
    /\ Alive(p, i)
    /\ Waits(v) /\ Becomes(p, i, v)
    /\ chunk' = [chunk EXCEPT ![i] = c]
    /\ there' \in {there, there \union {i}}
    /\ junk' \in 0..MaxJunk
    /\ UNCHANGED Unworked
    /\ Follows(p, i, v, c)

LEMMA BusyNames ==
  /\ Busy \intersect Ended = {} /\ "start" \notin Ended /\ "start" \notin Busy
  /\ {"done", "norange", "failed", "interrupted"} \intersect Busy = {}
  BY DEF Busy, Ended

\* A move that writes nothing.
LEMMA DryMove ==
  ASSUME TypeInv, NEW p \in Procs, NEW i \in Segments, NEW v \in Threads,
         Alive(p, i), Waits(v), Becomes(p, i, v), UNCHANGED <<chunk, there, junk, Unworked>>,
         Sound(chunk[i], i, there) /\ Tracks(worker[p][i], chunk[i], i, there)
            => Tracks(v, chunk[i], i, there)
  PROVE  \E x \in Threads, c \in Seq(0..SegLen) : Move(p, i, x, c)
<1>1. chunk[i] \in Seq(0..SegLen) /\ chunk = [chunk EXCEPT ![i] = chunk[i]] /\ junk \in 0..MaxJunk
  BY DEF TypeInv, TypeOK
<1>2. Follows(p, i, v, chunk[i])
  BY <1>1 DEF Follows
<1> QED
  BY <1>1, <1>2 DEF Move

LEMMA WorkerMoves ==
  ASSUME TypeInv, NEW p \in Procs, NEW i \in Segments, Worker(p, i)
  PROVE  \E v \in Threads, c \in Seq(0..SegLen) : Move(p, i, v, c)
<1> DEFINE w == worker[p][i]
           Moved == \E v \in Threads, c \in Seq(0..SegLen) : Move(p, i, v, c)
           Fits == Sound(chunk[i], i, there) /\ Tracks(w, chunk[i], i, there)
           Dry == UNCHANGED <<chunk, there, junk, Unworked>>
           Goes(a) == Becomes(p, i, [w EXCEPT !.at = a])
<1> SUFFICES Moved
  OBVIOUS
<1>0. w \in Threads /\ Waits(w)
  BY ThreadTypes
<1>b. w.got \in Nat /\ w.attempt \in 0..MaxRetries /\ w.append \in BOOLEAN
  BY <1>0 DEF Threads
<1>t. chunk[i] \in Seq(0..SegLen) /\ there \subseteq Segments /\ junk \in 0..MaxJunk
  BY DEF TypeInv, TypeOK
<1>d. /\ \A n \in Nat : OnDisk(i, n) \in Nat
      /\ Fits => OnDisk(i, 0) = Len(chunk[i])
      /\ Fits /\ w.at \in Busy => OnDisk(i, w.got) = Len(chunk[i])
  BY <1>t DEF OnDisk, Sound, Tracks
<1>s. /\ "done" \in WorkerSteps /\ "connect" \in WorkerSteps /\ "interrupted" \in WorkerSteps
      /\ "read" \in WorkerSteps /\ "norange" \in WorkerSteps /\ "wait" \in WorkerSteps
      /\ "failed" \in WorkerSteps /\ "check" \in WorkerSteps
  BY StepNames
<1>1. CASE WorkerStarts(p, i)
  <2> DEFINE at == IF OnDisk(i, 0) >= SegLen THEN "done" ELSE "connect"
            size == OnDisk(i, 0)
            v  == [w EXCEPT !.at = at, !.got = size]
  <2>1. at \in {"done", "connect"} /\ at \in WorkerSteps /\ size \in Nat
    BY <1>d, <1>s
  <2>2. v \in Threads /\ v.at = at /\ v.got = size
    <3> HIDE DEF at, size, w
    <3> QED
      BY <1>0, <2>1 DEF Threads
  <2>3. Becomes(p, i, v) /\ Alive(p, i)
    BY <1>1, BusyNames DEF WorkerStarts, Alive
  <2>4. Fits => Tracks(v, chunk[i], i, there)
    BY <1>d, <2>1, <2>2 DEF Tracks
  <2> HIDE DEF v
  <2> QED
    BY <1>1, <2>1, <2>2, <2>3, <2>4, DryMove DEF WorkerStarts, Waits
<1>2. ASSUME w.at \in Busy, NEW a \in {"interrupted", "norange", "failed", "done", "check", "wait"},
             Goes(a), Dry,
             a = "check" => w.at = "read", a = "wait" => w.attempt < MaxRetries
      PROVE  Moved
  <2> DEFINE v == [w EXCEPT !.at = a]
  <2>1. v \in Threads /\ v.at = a /\ v.got = w.got
    BY <1>0, <1>s, <1>2, ThreadAt
  <2>2. Waits(v)
    BY <1>0, <1>2, <2>1 DEF Waits, Threads
  <2>3. Alive(p, i)
    BY <1>2, BusyNames DEF Alive
  <2>4. Fits => Tracks(v, chunk[i], i, there)
    BY <1>2, <2>1 DEF Tracks
  <2>5. Becomes(p, i, v)
    BY <1>2
  <2> HIDE DEF v
  <2> QED
    BY <1>2, <2>1, <2>2, <2>3, <2>4, <2>5, DryMove
<1>3. ASSUME w.at = "connect", NEW at \in {"read", "norange"}, Opens(p, i, at), UNCHANGED <<junk, Unworked>>
      PROVE  Moved
  <2> DEFINE more == w.got > 0
            v == [w EXCEPT !.at = at, !.append = more]
            c == IF more THEN chunk[i] ELSE <<>>
  <2>1. at \in WorkerSteps /\ at # "wait" /\ more \in BOOLEAN
    BY <1>s
  <2>2. v \in Threads /\ v.at = at /\ v.got = w.got
    <3> HIDE DEF w, more
    <3> QED
      BY <1>0, <2>1, ThreadAtAppend
  <2>3. Waits(v) /\ Alive(p, i)
    BY <1>3, <2>1, <2>2, BusyNames DEF Waits, Alive, Busy
  <2>4. Becomes(p, i, v) /\ chunk' = [chunk EXCEPT ![i] = c] /\ there' = there \union {i}
    BY <1>3 DEF Opens
  <2>5. c \in Seq(0..SegLen)
    <3>1. <<>> \in Seq(0..SegLen)
      OBVIOUS
    <3> QED
      BY <1>t, <3>1
  <2>6. Fits => c = chunk[i]
    BY <1>3, <1>b, <1>t DEF Tracks, Busy
  <2> HIDE DEF v, c
  <2>7. Follows(p, i, v, c)
    BY <1>3, <1>t, <2>2, <2>4, <2>6 DEF Follows, Sound, Tracks, Busy
  <2> QED
    BY <1>3, <1>t, <2>2, <2>3, <2>4, <2>5, <2>7 DEF Move
<1>4. CASE Reads(p, i)
  <2> DEFINE more == w.got + 1
            v == [w EXCEPT !.got = more]
  <2>1. more \in Nat /\ w.at = "read" /\ w.got < SegLen
    BY <1>b, <1>4 DEF Reads
  <2>2. v \in Threads /\ v.at = w.at /\ v.got = more
    <3> HIDE DEF w, more
    <3> QED
      BY <1>0, <2>1, ThreadGot
  <2>3. Waits(v) /\ Alive(p, i)
    BY <2>1, <2>2, BusyNames DEF Waits, Alive, Busy
  <2>4. Becomes(p, i, v) /\ there' = there /\ UNCHANGED Unworked
    BY <1>4 DEF Reads
  <2>5. PICK unit \in {more, Junk} :
          /\ junk' = IF unit = Junk THEN junk + 1 ELSE junk
          /\ junk' <= MaxJunk
          /\ chunk' = IF i \in there THEN [chunk EXCEPT ![i] = Written(i, w, unit)] ELSE chunk
    BY <1>4 DEF Reads
  <2>6. unit \in 0..SegLen /\ junk' \in 0..MaxJunk
    BY <1>b, <1>t, <2>1, <2>5, Bounds DEF Junk
  <2> DEFINE c == IF i \in there THEN Written(i, w, unit) ELSE chunk[i]
  <2>7. c \in Seq(0..SegLen) /\ chunk' = [chunk EXCEPT ![i] = c]
    <3>1. Written(i, w, unit) \in Seq(0..SegLen)
      BY <1>0, <2>1, <2>6, WrittenType DEF TypeInv, TypeOK
    <3> QED
      BY <1>t, <2>5, <3>1 DEF TypeInv, TypeOK
  <2>8. Fits => i \in there /\ c = Append(chunk[i], unit) /\ more = Len(chunk[i]) + 1
    BY <1>t, <2>1 DEF Tracks, Busy, Written
  <2> HIDE DEF v, c
  <2>9. Follows(p, i, v, c)
    <3> SUFFICES ASSUME Fits
                 PROVE  Sound(c, i, there') /\ Tracks(v, c, i, there') /\ Len(c) >= Len(chunk[i])
      BY DEF Follows
    <3>1. Len(c) = Len(chunk[i]) + 1 /\ Len(c) = more
      BY <1>t, <2>6, <2>8
    <3>2. \A k \in 1..Len(c) : c[k] = IF k <= Len(chunk[i]) THEN chunk[i][k] ELSE unit
      BY <1>t, <2>6, <2>8
    <3>3. \A k \in 1..Len(c) : c[k] \in {k, Junk}
      <4> SUFFICES ASSUME NEW k \in 1..Len(c) PROVE c[k] \in {k, Junk}
        OBVIOUS
      <4>1. CASE k <= Len(chunk[i])
        BY <1>t, <3>2, <4>1 DEF Sound
      <4>2. CASE k > Len(chunk[i])
        BY <1>t, <2>5, <3>1, <3>2, <4>2
      <4> QED
        BY <1>t, <4>1, <4>2
    <3> QED
      BY <1>b, <1>t, <2>1, <2>2, <2>4, <2>8, <3>1, <3>3, Bounds DEF Sound, Tracks
  <2> QED
    BY <2>2, <2>3, <2>4, <2>6, <2>7, <2>9 DEF Move
<1>5. ASSUME w.at \in Busy, Becomes(p, i, Reconnected(i, w)), Dry
      PROVE  Moved
  <2> DEFINE v == Reconnected(i, w)
  <2>1. /\ v \in Threads /\ v.at \in {"done", "connect", "failed"}
        /\ v.at = "connect" => v.got = OnDisk(i, w.got)
    <3> HIDE DEF w
    <3> QED
      BY <1>0, ReconnectedThread
  <2> HIDE DEF v
  <2>2. Waits(v) /\ Alive(p, i)
    BY <1>5, <2>1, BusyNames DEF Waits, Alive
  <2>3. Fits => Tracks(v, chunk[i], i, there)
    BY <1>5, <1>d, <2>1, BusyNames DEF Tracks
  <2>4. Becomes(p, i, v)
    BY <1>5 DEF v
  <2> QED
    BY <1>5, <2>1, <2>2, <2>3, <2>4, DryMove
<1>6. CASE Retries(p, i)
  <2> DEFINE more == w.attempt + 1
            size == OnDisk(i, w.got)
            v    == [w EXCEPT !.at = "connect", !.attempt = more, !.got = size]
  <2>1. more \in 0..MaxRetries /\ size \in Nat
    BY <1>0, <1>b, <1>d, <1>6, Bounds DEF Retries, Waits
  <2>2. v \in Threads /\ v.at = "connect" /\ v.got = size
    <3>1. w \in Threads
      BY <1>0
    <3> HIDE DEF w, more, size
    <3> QED
      BY <1>s, <2>1, <3>1 DEF Threads
  <2>3. Becomes(p, i, v) /\ w.at = "wait"
    BY <1>6 DEF Retries
  <2>4. Waits(v) /\ Alive(p, i)
    BY <2>2, <2>3, BusyNames DEF Waits, Alive, Busy
  <2>5. Fits => Tracks(v, chunk[i], i, there)
    BY <1>d, <2>2, <2>3 DEF Tracks, Busy
  <2> HIDE DEF v
  <2> QED
    BY <1>6, <2>2, <2>3, <2>4, <2>5, DryMove DEF Retries
<1>7. CASE WorkerAborts(p, i)
  <2>1. w.at \in Busy /\ Goes("interrupted") /\ Dry
    BY <1>7 DEF WorkerAborts, Busy
  <2> HIDE DEF Moved, Goes, Dry, w
  <2> QED
    BY <1>2, <2>1
<1>8. CASE Connects(p, i)
  <2>1. w.at = "connect" /\ Opens(p, i, "read") /\ UNCHANGED <<junk, Unworked>>
    BY <1>8 DEF Connects
  <2> HIDE DEF Moved, w
  <2> QED
    BY <1>3, <2>1
<1>9. CASE RangeRefused(p, i)
  <2>1. w.at = "connect" /\ w.at \in Busy
        /\ \/ Goes("norange") /\ Dry
           \/ Opens(p, i, "norange") /\ UNCHANGED <<junk, Unworked>>
    BY <1>9 DEF RangeRefused, Busy
  <2> HIDE DEF Moved, Goes, Dry, w
  <2> QED
    BY <1>2, <1>3, <2>1
<1>10. CASE HttpError(p, i)
  <2>1. /\ w.at \in Busy /\ Dry
        /\ \/ w.attempt < MaxRetries /\ Goes("wait")
           \/ Goes("failed")
    BY <1>10 DEF HttpError, Busy
  <2> HIDE DEF Moved, Goes, Dry, w
  <2> QED
    BY <1>2, <2>1
<1>11. CASE Ends(p, i)
  <2>1. w.at \in Busy /\ w.at = "read" /\ Goes("check") /\ Dry
    BY <1>11 DEF Ends, Busy
  <2> HIDE DEF Moved, Goes, Dry, w
  <2> QED
    BY <1>2, <2>1
<1>12. CASE Checks(p, i)
  <2>1. /\ w.at \in Busy /\ Dry
        /\ Goes("done") \/ Goes("interrupted") \/ Becomes(p, i, Reconnected(i, w))
    BY <1>12 DEF Checks, Busy
  <2> HIDE DEF Moved, Goes, Dry, w
  <2> QED
    BY <1>2, <1>5, <2>1
<1>13. CASE Drops(p, i)
  <2>1. /\ w.at \in Busy /\ Dry
        /\ \/ Goes("interrupted")
           \/ w.attempt < MaxRetries /\ Goes("wait")
           \/ Becomes(p, i, Reconnected(i, w))
    BY <1>13 DEF Drops, Busy
  <2> HIDE DEF Moved, Goes, Dry, w
  <2> QED
    BY <1>2, <1>5, <2>1
<1> QED
  BY <1>1, <1>4, <1>6, <1>7, <1>8, <1>9, <1>10, <1>11, <1>12, <1>13 DEF Worker

LEMMA WorkerTypes ==
  ASSUME TypeInv, NEW p \in Procs, NEW i \in Segments, Worker(p, i)
  PROVE  TypeInv'
<1>1. PICK v \in Threads, c \in Seq(0..SegLen) : Move(p, i, v, c)
  BY WorkerMoves
<1>2. chunk' \in [Segments -> Seq(0..SegLen)] /\ there' \subseteq Segments
  BY <1>1 DEF Move, TypeInv, TypeOK
<1> QED
  BY <1>1, <1>2, ThreadStep DEF Move

LEMMA TypeStep == TypeInv /\ [Next]_vars => TypeInv'
<1> SUFFICES ASSUME TypeInv, [Next]_vars PROVE TypeInv'
  OBVIOUS
<1>1. CASE UNCHANGED vars
  BY <1>1 DEF vars, TypeInv, TypeOK, WaitInv
<1> QED
  BY <1>1, LoaderTypes, WorkerTypes DEF Next, Over

\* Every variable keeps its type.
THEOREM TypeCorrect == Spec => []TypeOK
<1>1. TypeInv => TypeOK
  BY DEF TypeInv
<1> QED
  BY <1>1, TypeInit, TypeStep, PTL DEF Spec

-----------------------------------------------------------------------------
(* A cached layer.  What is fetched never changes, and for a blob no step names *)
(* anything but verified bytes.                                                 *)

THEOREM VerifiedCached == Spec => []CachedMeansVerified
<1>1. Init => CachedMeansVerified
  BY DEF Init, CachedMeansVerified
<1>2. CachedMeansVerified /\ [Next]_vars => CachedMeansVerified'
  <2> SUFFICES ASSUME CachedMeansVerified, [Next]_vars PROVE CachedMeansVerified'
    OBVIOUS
  <2> USE DEF CachedMeansVerified, disk
  <2>1. CASE UNCHANGED vars
    BY <2>1 DEF vars
  <2>2. ASSUME NEW p \in Procs, Begin(p) \/ Interrupt(p) \/ Crash(p) PROVE CachedMeansVerified'
    BY <2>2 DEF Begin, Interrupt, Crash
  <2>3. ASSUME NEW p \in Procs, Loader(p) PROVE CachedMeansVerified'
    <3>1. CASE Assemble(p)
      BY <3>1 DEF Assemble
    <3>2. CASE SingleArrives(p)
      BY <3>2 DEF SingleArrives
    <3> QED
      BY <2>3, <3>1, <3>2 DEF Loader, Probe, TakeSplit, Sweep, RecordSplit, AllDone, WorkerRaised,
         Clean, SingleAborts, SingleFails
  <2>4. ASSUME NEW p \in Procs, NEW i \in Segments, Worker(p, i) PROVE CachedMeansVerified'
    BY <2>4 DEF Worker, WorkerStarts, WorkerAborts, Connects, RangeRefused, HttpError, Reads, Ends,
       Checks, Drops, Retries, Unworked
  <2> QED
    BY <2>1, <2>2, <2>3, <2>4 DEF Next, Over
<1> QED
  BY <1>1, <1>2, PTL DEF Spec

-----------------------------------------------------------------------------
(* The chunk files of a lone download. *)

\* Where the loader is while it touches the chunk files itself, or has just left it.
Handling == {"probe", "split", "sweep", "assemble", "clean"}

\* The loader and its threads do not touch chunk files at the same time.
StageInv == \A p \in Procs : pc[p] \in Handling => \A i \in Segments : ~Alive(p, i)

\* As long as one process at a time downloads the file, chunk files are sound and threads
\* keep the right count of what is in theirs.
LoneInv ==
    /\ \A p, q \in Procs : Up(p) /\ Up(q) => p = q
    /\ \A i \in Segments : Sound(chunk[i], i, there)
    /\ \A p \in Procs, i \in Segments : Tracks(worker[p][i], chunk[i], i, there)

DownloadInv == TypeInv /\ StageInv /\ (~overlap => LoneInv)

LEMMA DownloadInit == Init => DownloadInv
<1> SUFFICES ASSUME Init PROVE DownloadInv
  OBVIOUS
<1>1. TypeInv
  BY TypeInit
<1>2. \A p \in Procs, i \in Segments : worker[p][i].at = "none" /\ ~Alive(p, i)
  BY NoWorkerThread DEF Init, Alive, Ended
<1>3. \A i \in Segments : Len(chunk[i]) = 0 /\ chunk[i] = <<>>
  BY DEF Init
<1>4. \A i \in Segments : Sound(chunk[i], i, there)
  BY <1>3, Bounds DEF Sound
<1>5. \A p \in Procs, i \in Segments : Tracks(worker[p][i], chunk[i], i, there)
  BY <1>2 DEF Tracks, Busy
<1>6. \A p \in Procs : ~Up(p)
  BY <1>2 DEF Init, Up
<1> QED
  BY <1>1, <1>2, <1>4, <1>5, <1>6 DEF DownloadInv, StageInv, LoneInv

\* A step of p leaves the state of the others alone.
LEMMA OthersKept ==
  ASSUME TypeInv, NEW p \in Procs,
         Begin(p) \/ Loader(p) \/ Interrupt(p) \/ Crash(p) \/ \E i \in Segments : Worker(p, i)
  PROVE  \A q \in Procs \ {p} : pc'[q] = pc[q] /\ worker'[q] = worker[q]
<1> USE DEF TypeInv, TypeOK, Goto
<1>1. CASE Begin(p) \/ Interrupt(p) \/ Crash(p)
  BY <1>1 DEF Begin, Interrupt, Crash
<1>2. CASE Loader(p)
  BY <1>2 DEF Loader, Probe, TakeSplit, Sweep, RecordSplit, AllDone, WorkerRaised, Assemble, Clean,
     SingleAborts, SingleArrives, SingleFails
<1>3. ASSUME NEW i \in Segments, Worker(p, i)
      PROVE  \A q \in Procs \ {p} : pc'[q] = pc[q] /\ worker'[q] = worker[q]
  <2>1. PICK v \in Threads, c \in Seq(0..SegLen) : Move(p, i, v, c)
    BY <1>3, WorkerMoves
  <2> QED
    BY <2>1 DEF Move, Becomes, Unworked
<1> QED
  BY <1>1, <1>2, <1>3

\* Only Begin(p) brings p up.
LEMMA UpBefore ==
  ASSUME TypeInv, NEW p \in Procs,
         Loader(p) \/ Interrupt(p) \/ Crash(p) \/ \E i \in Segments : Worker(p, i)
  PROVE  Up(p)
<1>1. CASE Loader(p)
  <2>1. pc[p] \in {"probe", "split", "sweep", "await", "assemble", "clean", "single"}
    BY <1>1 DEF Loader, Probe, TakeSplit, Sweep, RecordSplit, AllDone, WorkerRaised, Assemble, Clean,
       SingleAborts, SingleArrives, SingleFails
  <2> QED
    BY <2>1 DEF Up, Outcomes
<1>2. CASE Interrupt(p) \/ Crash(p)
  BY <1>2 DEF Interrupt, Crash, Up
<1>3. ASSUME NEW i \in Segments, Worker(p, i) PROVE Up(p)
  BY <1>3, WorkerMoves DEF Move, Up
<1> QED
  BY <1>1, <1>2, <1>3

\* A download that is alone stays so unless another begins.
LEMMA StaysAlone ==
  ASSUME DownloadInv, NEW p \in Procs, ~overlap',
         Begin(p) \/ Loader(p) \/ Interrupt(p) \/ Crash(p) \/ \E i \in Segments : Worker(p, i)
  PROVE  /\ ~overlap /\ LoneInv
         /\ \A q \in Procs \ {p} : ~Up(q) /\ ~Up(q)'
         /\ \A q, r \in Procs : Up(q)' /\ Up(r)' => q = r
<1>1. ~overlap /\ (Begin(p) => \A q \in Procs : ~Up(q))
  <2>1. CASE Begin(p)
    BY <2>1 DEF Begin, DownloadInv, TypeInv, TypeOK
  <2>2. CASE ~Begin(p)
    <3> SUFFICES overlap' = overlap
      BY <2>2
    <3>1. CASE Loader(p) \/ Interrupt(p) \/ Crash(p)
      BY <3>1 DEF Loader, Probe, TakeSplit, Sweep, RecordSplit, AllDone, WorkerRaised, Assemble,
         Clean, SingleAborts, SingleArrives, SingleFails, Interrupt, Crash
    <3>2. CASE \E i \in Segments : Worker(p, i)
      BY <3>2 DEF Worker, WorkerStarts, WorkerAborts, Connects, RangeRefused, HttpError, Reads,
         Ends, Checks, Drops, Retries, Unworked
    <3> QED
      BY <2>2, <3>1, <3>2
  <2> QED
    BY <2>1, <2>2
<1>2. LoneInv
  BY <1>1 DEF DownloadInv
<1>3. \A q \in Procs \ {p} : ~Up(q)
  BY <1>1, <1>2, UpBefore DEF DownloadInv, LoneInv
<1>4. \A q \in Procs \ {p} : ~Up(q)'
  BY <1>3, OthersKept DEF DownloadInv, Up, Alive
<1> QED
  BY <1>1, <1>2, <1>3, <1>4

\* What a step of the loader leaves the threads as.
LEMMA LoaderThreads ==
  ASSUME TypeInv, NEW p \in Procs, Begin(p) \/ Loader(p) \/ Interrupt(p) \/ Crash(p),
         NEW i \in Segments
  PROVE  worker'[p][i] = worker[p][i] \/ worker'[p][i].at \in {"start", "none"}
<1> USE DEF TypeInv, TypeOK
<1>0. NoWorker.at = "none" /\ Started[i].at = "start"
  BY NoWorkerThread DEF Started, NoWorker
<1>1. CASE Begin(p) \/ Crash(p)
  BY <1>0, <1>1 DEF Begin, Crash
<1>2. CASE TakeSplit(p) \/ RecordSplit(p)
  BY <1>0, <1>2 DEF TakeSplit, RecordSplit
<1> QED
  BY <1>1, <1>2 DEF Interrupt, Loader, Probe, Sweep, AllDone, WorkerRaised, Assemble, Clean,
     SingleAborts, SingleArrives, SingleFails

\* The loader empties the chunk files, in Sweep() and Clean(), or leaves them as they are.
LEMMA LoaderFiles ==
  ASSUME TypeInv, NEW p \in Procs, Begin(p) \/ Loader(p) \/ Interrupt(p) \/ Crash(p)
  PROVE  \/ UNCHANGED <<chunk, there>>
         \/ /\ pc[p] \in Handling /\ UNCHANGED worker
            /\ chunk' = [i \in Segments |-> <<>>] /\ there' = {}
            /\ split' => ~split
<1>1. CASE Sweep(p) \/ Clean(p)
  BY <1>1 DEF Sweep, Clean, Handling
<1>2. CASE Begin(p) \/ Interrupt(p) \/ Crash(p)
  BY <1>2 DEF Begin, Interrupt, Crash, disk
<1> QED
  BY <1>1, <1>2 DEF Loader, Probe, TakeSplit, RecordSplit, AllDone, WorkerRaised, Assemble,
     SingleAborts, SingleArrives, SingleFails, disk

LEMMA LoaderLone ==
  ASSUME DownloadInv, NEW p \in Procs, Begin(p) \/ Loader(p) \/ Interrupt(p) \/ Crash(p), ~overlap'
  PROVE  LoneInv'
<1>1. /\ ~overlap /\ LoneInv /\ TypeInv
      /\ \A q \in Procs \ {p} : ~Up(q)
      /\ \A q, r \in Procs : Up(q)' /\ Up(r)' => q = r
  BY StaysAlone DEF DownloadInv
<1>2. \A q \in Procs, i \in Segments :
        worker'[q][i] = worker[q][i] \/ worker'[q][i].at \in {"start", "none"}
  BY <1>1, OthersKept, LoaderThreads
<1>3. CASE UNCHANGED <<chunk, there>>
  BY <1>1, <1>2, <1>3 DEF LoneInv, Tracks, Sound, Busy
<1>4. CASE /\ pc[p] \in Handling /\ UNCHANGED worker
           /\ chunk' = [i \in Segments |-> <<>>] /\ there' = {}
  <2>1. \A q \in Procs, i \in Segments : ~Alive(q, i)
    BY <1>1, <1>4 DEF DownloadInv, StageInv, Up
  <2>2. \A q \in Procs, i \in Segments : worker'[q][i].at \notin Busy
    BY <1>4, <2>1, BusyNames DEF Alive
  <2>3. \A i \in Segments : chunk'[i] = <<>> /\ Len(chunk'[i]) = 0
    BY <1>4
  <2>4. \A i \in Segments : Sound(chunk'[i], i, there')
    BY <2>3, Bounds DEF Sound
  <2>5. \A q \in Procs, i \in Segments : Tracks(worker'[q][i], chunk'[i], i, there')
    BY <2>2 DEF Tracks, Busy
  <2> QED
    BY <1>1, <2>4, <2>5 DEF LoneInv
<1> QED
  BY <1>1, <1>3, <1>4, LoaderFiles

LEMMA RestView ==
  ASSUME NEW v \in Threads
  PROVE  Rest(v).at = v.at /\ (v.at \notin Ended => Rest(v) = v)
<1>1. CASE v.at \in Ended
  <2>1. v.at \in WorkerSteps
    BY <1>1, StepNames
  <2> QED
    BY <1>1, <2>1, NoWorkerThread, ThreadAt DEF Rest
<1> QED
  BY <1>1 DEF Rest

LEMMA WorkerLone ==
  ASSUME DownloadInv, NEW p \in Procs, NEW i \in Segments, Worker(p, i), ~overlap'
  PROVE  LoneInv' /\ \A j \in Segments : Len(chunk'[j]) >= Len(chunk[j])
<1>1. /\ ~overlap /\ LoneInv /\ TypeInv
      /\ \A q \in Procs \ {p} : ~Up(q)'
      /\ \A q, r \in Procs : Up(q)' /\ Up(r)' => q = r
  BY StaysAlone DEF DownloadInv
<1>2. PICK v \in Threads, c \in Seq(0..SegLen) : Move(p, i, v, c)
  BY <1>1, WorkerMoves
<1>3. Sound(c, i, there') /\ Tracks(v, c, i, there') /\ Len(c) >= Len(chunk[i])
  BY <1>1, <1>2 DEF Move, Follows, LoneInv
<1>4. /\ chunk'[i] = c /\ \A j \in Segments \ {i} : chunk'[j] = chunk[j]
      /\ \A j \in Segments \ {i} : j \in there' <=> j \in there
      /\ worker'[p][i] = Rest(v) /\ \A j \in Segments \ {i} : worker'[p][j] = worker[p][j]
  BY <1>1, <1>2 DEF Move, Becomes, TypeInv, TypeOK
<1>5. \A j \in Segments : Sound(chunk'[j], j, there')
  BY <1>1, <1>3, <1>4 DEF LoneInv, Sound
<1>6. \A q \in Procs, j \in Segments : Tracks(worker'[q][j], chunk'[j], j, there')
  <2>1. \A j \in Segments : Tracks(worker'[p][j], chunk'[j], j, there')
    <3>1. Tracks(Rest(v), c, i, there')
      BY <1>3, RestView, BusyNames DEF Tracks, Busy
    <3> QED
      BY <1>1, <1>4, <3>1 DEF LoneInv, Tracks
  <2>2. \A q \in Procs \ {p}, j \in Segments : worker'[q][j].at \notin Busy
    BY <1>1, BusyNames DEF Up, Alive
  <2> QED
    BY <2>1, <2>2 DEF Tracks, Busy
<1>7. chunk[i] \in Seq(0..SegLen) /\ \A j \in Segments : Len(chunk[j]) \in Nat
  BY <1>1 DEF TypeInv, TypeOK
<1> QED
  BY <1>1, <1>3, <1>4, <1>5, <1>6, <1>7 DEF LoneInv

LEMMA StageStep ==
  ASSUME DownloadInv, NEW p \in Procs,
         Begin(p) \/ Loader(p) \/ Interrupt(p) \/ Crash(p) \/ \E i \in Segments : Worker(p, i)
  PROVE  StageInv'
<1> USE DEF DownloadInv, TypeInv, TypeOK, Handling, Alive
<1>1. \A q \in Procs \ {p} : pc'[q] \in Handling => \A i \in Segments : ~Alive(q, i)'
  BY OthersKept DEF StageInv
<1>2. pc'[p] \in Handling => \A i \in Segments : ~Alive(p, i)'
  <2>1. CASE Begin(p)
    BY <2>1, NoWorkerThread DEF Begin, Ended
  <2>2. CASE Interrupt(p) \/ Crash(p)
    BY <2>2 DEF Interrupt, Crash, Goto
  <2>3. CASE Loader(p)
    <3>1. CASE Probe(p) \/ Sweep(p) \/ Assemble(p)
      BY <3>1 DEF Probe, Sweep, Assemble, StageInv
    <3>2. CASE AllDone(p)
      BY <3>2 DEF AllDone, Ended
    <3>3. CASE TakeSplit(p) \/ RecordSplit(p) \/ WorkerRaised(p) \/ Clean(p) \/ SingleAborts(p)
      BY <3>3 DEF TakeSplit, RecordSplit, WorkerRaised, Clean, SingleAborts, Goto
    <3>4. CASE SingleArrives(p) \/ SingleFails(p)
      BY <3>4 DEF SingleArrives, SingleFails, Goto
    <3> QED
      BY <2>3, <3>1, <3>2, <3>3, <3>4 DEF Loader
  <2>4. ASSUME NEW i \in Segments, Worker(p, i) PROVE pc'[p] \notin Handling
    BY <2>4, WorkerMoves DEF Move, Unworked, StageInv
  <2> QED
    BY <2>1, <2>2, <2>3, <2>4
<1> QED
  BY <1>1, <1>2 DEF StageInv

LEMMA DownloadStep == DownloadInv /\ [Next]_vars => DownloadInv'
<1> SUFFICES ASSUME DownloadInv, [Next]_vars PROVE DownloadInv'
  OBVIOUS
<1>1. TypeInv'
  BY TypeStep DEF DownloadInv
<1>2. CASE UNCHANGED vars
  BY <1>1, <1>2 DEF vars, DownloadInv, StageInv, LoneInv, Alive, Up, Sound, Tracks
<1>3. ASSUME NEW p \in Procs, Begin(p) \/ Loader(p) \/ Interrupt(p) \/ Crash(p) PROVE DownloadInv'
  BY <1>1, <1>3, StageStep, LoaderLone DEF DownloadInv
<1>4. ASSUME NEW p \in Procs, NEW i \in Segments, Worker(p, i) PROVE DownloadInv'
  BY <1>1, <1>4, StageStep, WorkerLone DEF DownloadInv
<1> QED
  BY <1>2, <1>3, <1>4 DEF Next, Over

LEMMA DownloadInvariant == Spec => []DownloadInv
  BY DownloadInit, DownloadStep, PTL DEF Spec

\* The bytes of a chunk file are at their own offsets while one process at a time
\* downloads the file, through every retry, reconnection, interrupt and crash.
THEOREM ChunksInPlace == Spec => []SegmentsInPlace
<1>1. DownloadInv => SegmentsInPlace
  <2> SUFFICES ASSUME DownloadInv, ~overlap, NEW i \in Segments, NEW k \in DOMAIN chunk[i]
               PROVE  k <= SegLen /\ chunk[i][k] \in {k, Junk}
    BY DEF SegmentsInPlace
  <2>1. Sound(chunk[i], i, there) /\ chunk[i] \in Seq(0..SegLen)
    BY DEF DownloadInv, LoneInv, TypeInv, TypeOK
  <2> QED
    BY <2>1, Bounds DEF Sound
<1> QED
  BY <1>1, DownloadInvariant, PTL

\* What a recorded split holds is never thrown away before it is published.
THEOREM SplitsKeepProgress == Spec => ProgressKept
<1> DEFINE Keeps == split /\ split' /\ dest' = dest /\ ~overlap' =>
                      \A i \in Segments : Len(chunk'[i]) >= Len(chunk[i])
<1>1. DownloadInv /\ [Next]_vars => [Keeps]_vars
  <2> SUFFICES ASSUME DownloadInv, [Next]_vars, split, split', ~overlap', NEW i \in Segments
               PROVE  Len(chunk'[i]) >= Len(chunk[i])
    OBVIOUS
  <2>0. Len(chunk[i]) \in Nat
    BY DEF DownloadInv, TypeInv, TypeOK
  <2>1. CASE UNCHANGED chunk
    BY <2>0, <2>1
  <2>2. ASSUME NEW p \in Procs, Begin(p) \/ Loader(p) \/ Interrupt(p) \/ Crash(p) PROVE UNCHANGED chunk
    BY <2>2, LoaderFiles DEF DownloadInv
  <2>3. ASSUME NEW p \in Procs, NEW j \in Segments, Worker(p, j)
        PROVE  Len(chunk'[i]) >= Len(chunk[i])
    BY <2>3, WorkerLone
  <2> QED
    BY <2>1, <2>2, <2>3 DEF Next, Over, vars
<1> QED
  BY <1>1, DownloadInvariant, PTL DEF Spec, ProgressKept
=============================================================================
