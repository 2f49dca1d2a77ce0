------------------------------ MODULE LogStream ------------------------------
(***************************************************************************)
(* The output of one job and those who watch it: src/internal/jobs/        *)
(* logsink.go, the end of execute in queue.go, and the WebSocket handler   *)
(* Logs in src/internal/proxy/logs.go.                                     *)
(*                                                                         *)
(* One step is one hold of the sink's or the queue's mutex, one operation  *)
(* on a channel, one message to a client or one access to the database.    *)
(* Lines are the numbers 1, 2, ... of the order in which the job completes *)
(* them.  A Write of several lines is several Writes of one: that is one   *)
(* of the things the job may do, and a viewer may receive between them.    *)
(***************************************************************************)
EXTENDS Naturals, Sequences

CONSTANTS
    Viewers,        \* WebSocket clients; each attaches at most once
    Ring,           \* maxBufferedLines
    ChanCap,        \* capacity of a subscriber's channel: 256
    MaxLines        \* bound: lines that the job writes

ASSUME BoundsAssumption == Ring \in Nat \ {0} /\ ChanCap \in Nat \ {0} /\ MaxLines \in Nat

Line == 1 .. MaxLines

(***************************************************************************)
(* subscribe: q.sinks had the sink; fallback: it had not.  history, stream:*)
(* the loops of Logs.  done: the client has been told "job complete";      *)
(* left: it went away, or did not read for ten seconds.                    *)
(*                                                                         *)
(* by, sent and lost are history: where its lines come from (the live      *)
(* sink, the column of a job that has ended, a job that had yet to begin,  *)
(* or a row that could not be read), the lines it was sent, and those that *)
(* were dropped because its channel was full.                              *)
(***************************************************************************)
ViewerPc == {"idle", "subscribe", "history", "stream", "fallback", "done", "left"}
Origin == {"none", "live", "column", "early", "unread"}
Viewer == [pc : ViewerPc, by : Origin, hist : Seq(Line), chan : Seq(Line),
           open : BOOLEAN, sent : Seq(Line), lost : SUBSET Line, gone : BOOLEAN]
NoViewer == [pc |-> "idle", by |-> "none", hist |-> <<>>, chan |-> <<>>, open |-> FALSE,
             sent |-> <<>>, lost |-> {}, gone |-> FALSE]

VARIABLES
    phase,      \* execute: pending, running, closed, stored, retired (not in q.sinks)
    count,      \* lines completed
    partial,    \* bytes since the last newline
    lines,      \* the ring
    subs,       \* viewers whose channels are in l.subs
    output,     \* the column output of the job
    unstored,   \* history: markTerminal has failed
    viewer      \* viewers, see above

sink == <<count, partial, lines, subs>>
column == <<output, unstored>>
vars == <<phase, sink, column, viewer>>

Init ==
    /\ phase = "pending"
    /\ count = 0 /\ partial = FALSE /\ lines = <<>> /\ subs = {}
    /\ output = <<>> /\ unstored = FALSE
    /\ viewer = [v \in Viewers |-> NoViewer]

-----------------------------------------------------------------------------
(* The job                                                                 *)

JobStarts ==
    /\ phase = "pending" /\ phase' = "running"
    /\ UNCHANGED <<sink, column, viewer>>

\* Bytes without a newline.
WritePiece ==
    /\ phase = "running" /\ ~partial /\ count < MaxLines
    /\ partial' = TRUE
    /\ UNCHANGED <<phase, count, lines, subs, column, viewer>>

\* What viewers have in their channels once line k is fanned out: one whose channel
\* is full loses it.
FanOut(k) ==
    [v \in Viewers |->
       IF v \notin subs THEN viewer[v]
       ELSE IF Len(viewer[v].chan) < ChanCap
            THEN [viewer[v] EXCEPT !.chan = Append(@, k)]
            ELSE [viewer[v] EXCEPT !.lost = @ \cup {k}]]

\* appendLine.
InRing(k) ==
    IF Len(lines) < Ring THEN Append(lines, k) ELSE Tail(Append(lines, k))

\* Bytes with a newline: the line is complete.
WriteLine ==
    /\ phase = "running" /\ count < MaxLines
    /\ count' = count + 1 /\ partial' = FALSE
    /\ lines' = InRing(count + 1)
    /\ viewer' = FanOut(count + 1)
    /\ UNCHANGED <<phase, subs, column>>

\* Mutant: the channels stay open.
CloseQuietly ==
    /\ phase = "running" /\ phase' = "closed"
    /\ partial' = FALSE /\ subs' = {}
    /\ IF partial
       THEN count' = count + 1 /\ lines' = InRing(count + 1) /\ viewer' = FanOut(count + 1)
       ELSE UNCHANGED <<count, lines, viewer>>
    /\ UNCHANGED column

\* Mutant: what is left is flushed even when it is nothing.
CloseFlushing ==
    /\ phase = "running" /\ phase' = "closed"
    /\ partial' = FALSE /\ subs' = {}
    /\ count' = count + 1 /\ lines' = InRing(count + 1)
    /\ viewer' = [v \in Viewers |-> [FanOut(count + 1)[v] EXCEPT !.open = FALSE]]
    /\ UNCHANGED column

\* The job has returned: Close flushes the partial line, then closes the channels.
CloseSink ==
    /\ phase = "running" /\ phase' = "closed"
    /\ partial' = FALSE /\ subs' = {}
    /\ LET last == IF partial THEN FanOut(count + 1) ELSE viewer IN
       viewer' = [v \in Viewers |-> [last[v] EXCEPT !.open = FALSE]]
    /\ IF partial THEN count' = count + 1 /\ lines' = InRing(count + 1)
                  ELSE UNCHANGED <<count, lines>>
    /\ UNCHANGED column

\* markTerminal, with the Snapshot.
Store ==
    /\ phase = "closed" /\ phase' = "stored"
    /\ output' = lines
    /\ UNCHANGED <<sink, unstored, viewer>>

\* It fails: that is logged, and execute goes on.
StoreFails ==
    /\ phase = "closed" /\ phase' = "stored"
    /\ unstored' = TRUE
    /\ UNCHANGED <<sink, output, viewer>>

\* Mutant: the sink leaves q.sinks before the output is stored.
RetireFirst ==
    /\ phase = "closed" /\ phase' = "retired"
    /\ UNCHANGED <<sink, column, viewer>>

Retire ==
    /\ phase = "stored" /\ phase' = "retired"
    /\ UNCHANGED <<sink, column, viewer>>

-----------------------------------------------------------------------------
(* A viewer                                                                *)

Becomes(v, r) == viewer' = [viewer EXCEPT ![v] = r]

HasSink == phase \in {"running", "closed", "stored"}

\* Queue.Subscribe looks the sink up.
Attach(v) ==
    /\ viewer[v].pc = "idle"
    /\ Becomes(v, [viewer[v] EXCEPT !.pc = IF HasSink THEN "subscribe" ELSE "fallback",
                                    !.by = IF HasSink THEN "live"
                                           ELSE IF phase = "pending" THEN "early" ELSE "column"])
    /\ UNCHANGED <<phase, sink, column>>

\* The sink may have been closed since, or retired: it still has its lines.
Subscribe(v) ==
    /\ viewer[v].pc = "subscribe"
    /\ Becomes(v, [viewer[v] EXCEPT !.pc = "history", !.hist = lines, !.open = phase = "running"])
    /\ subs' = IF phase = "running" THEN subs \cup {v} ELSE subs
    /\ UNCHANGED <<phase, count, partial, lines, column>>

SendHistory(v) ==
    /\ viewer[v].pc = "history" /\ viewer[v].hist # <<>>
    /\ Becomes(v, [viewer[v] EXCEPT !.hist = Tail(@), !.sent = Append(@, Head(viewer[v].hist))])
    /\ UNCHANGED <<phase, sink, column>>

HistorySent(v) ==
    /\ viewer[v].pc = "history" /\ viewer[v].hist = <<>>
    /\ Becomes(v, [viewer[v] EXCEPT !.pc = "stream"])
    /\ UNCHANGED <<phase, sink, column>>

Receive(v) ==
    /\ viewer[v].pc = "stream" /\ viewer[v].chan # <<>>
    /\ Becomes(v, [viewer[v] EXCEPT !.chan = Tail(@), !.sent = Append(@, Head(viewer[v].chan))])
    /\ UNCHANGED <<phase, sink, column>>

\* The channel is closed and empty: writeClose.
StreamEnds(v) ==
    /\ viewer[v].pc = "stream" /\ viewer[v].chan = <<>> /\ ~viewer[v].open
    /\ Becomes(v, [viewer[v] EXCEPT !.pc = "done"])
    /\ UNCHANGED <<phase, sink, column>>

\* One message, whatever the column has by now, or none when the row cannot be read;
\* then writeClose.
Fallback(v) ==
    /\ viewer[v].pc = "fallback"
    /\ \/ Becomes(v, [viewer[v] EXCEPT !.pc = "done", !.sent = output])
       \/ Becomes(v, [viewer[v] EXCEPT !.pc = "done", !.by = "unread"])
    /\ UNCHANGED <<phase, sink, column>>

\* The client closes its socket, or reads no more.
ClientGone(v) ==
    /\ viewer[v].pc \notin {"idle", "done", "left"} /\ ~viewer[v].gone
    /\ Becomes(v, [viewer[v] EXCEPT !.gone = TRUE])
    /\ UNCHANGED <<phase, sink, column>>

\* A write fails, or done is closed (seen in the second loop only); cancel closes
\* the channel unless Close has.
Leave(v) ==
    /\ viewer[v].gone
    /\ \/ viewer[v].pc = "history" /\ viewer[v].hist # <<>>
       \/ viewer[v].pc = "stream"
    /\ Becomes(v, [viewer[v] EXCEPT !.pc = "left", !.open = FALSE])
    /\ subs' = subs \ {v}
    /\ UNCHANGED <<phase, count, partial, lines, column>>

Watch(v) ==
    \/ Subscribe(v) \/ SendHistory(v) \/ HistorySent(v) \/ Receive(v)
    \/ StreamEnds(v) \/ Fallback(v) \/ Leave(v)

-----------------------------------------------------------------------------
Next ==
    \/ JobStarts \/ WritePiece \/ WriteLine \/ CloseSink
    \/ Store \/ StoreFails \/ Retire
    \/ \E v \in Viewers : Attach(v) \/ Watch(v) \/ ClientGone(v)

\* The goroutine of a handler goes on: the write of a line has a deadline.  That of the
\* fall-back has none, and returns while the client reads.  Nothing makes the job end.
Fairness ==
    \A v \in Viewers : /\ WF_vars(viewer[v].pc # "fallback" /\ Watch(v))
                       /\ WF_vars(~viewer[v].gone /\ Fallback(v))

Spec == Init /\ [][Next]_vars /\ Fairness

-----------------------------------------------------------------------------
(* Properties                                                              *)

TypeOK ==
    /\ phase \in {"pending", "running", "closed", "stored", "retired"}
    /\ count \in 0 .. MaxLines /\ partial \in BOOLEAN
    /\ lines \in Seq(Line) /\ output \in Seq(Line)
    /\ subs \in SUBSET Viewers
    /\ unstored \in BOOLEAN
    /\ viewer \in [Viewers -> Viewer]

\* No channel is closed twice and no line is sent on a closed one (either ends the
\* server), and none is left behind: open are exactly those that Close or the handler's
\* cancel, whichever comes first, still finds in l.subs, and those belong to handlers
\* that still receive.
OpenIffSubscribed ==
    /\ subs = {v \in Viewers : viewer[v].open}
    /\ \A v \in subs : phase = "running" /\ viewer[v].pc \in {"history", "stream"}

\* What a viewer was sent, and will be, of the history and the channel.
Stream(v) == viewer[v].sent \o viewer[v].hist \o viewer[v].chan

LinesOf(s) == {s[i] : i \in 1 .. Len(s)}

\* History and live lines join: no line twice, none out of order, and none left out
\* between two others but those that were dropped.
InOrder(v) ==
    LET s == Stream(v) IN
    /\ \A i, j \in 1 .. Len(s) : i < j => s[i] < s[j]
    /\ \A a, b \in LinesOf(s) : \A k \in a .. b : k \in LinesOf(s) \cup viewer[v].lost

\* The job has ended; of its lines, the last ones that the ring holds, and all that
\* follow one that the viewer has, were sent to it or dropped.
HasEnd(v) ==
    LET s == viewer[v].sent IN
    /\ phase \notin {"pending", "running"}
    /\ \A k \in 1 .. count :
         (k + Ring > count \/ \E a \in LinesOf(s) : a < k) => k \in LinesOf(s) \cup viewer[v].lost

\* A viewer sees the output as it was written, whether it attached while the job ran,
\* while execute was storing the output or later: it is missing only lines that were
\* dropped for it, also in the middle and at the end, and those that the ring gave up
\* before it came.  "Job complete" tells nothing to one that came before the job began,
\* and to one that came after the end of a job whose output could not be written or read.
OnlyDropsMissing ==
    \A v \in Viewers :
        /\ InOrder(v)
        /\ viewer[v].pc = "done" /\ (viewer[v].by = "live" \/ (viewer[v].by = "column" /\ ~unstored))
             => HasEnd(v)

\* Once the job has ended every handler ends: those that wait for lines are woken.  Only
\* one that sends the stored output to a client that does not read may stay.
ViewersEnd ==
    \A v \in Viewers :
        phase \notin {"pending", "running"} /\ viewer[v].pc # "idle"
          ~> \/ viewer[v].pc \in {"done", "left"}
             \/ viewer[v].pc = "fallback" /\ viewer[v].gone
=============================================================================
