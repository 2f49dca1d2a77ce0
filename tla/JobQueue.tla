------------------------------ MODULE JobQueue ------------------------------
(***************************************************************************)
(* The background job queue of vphone-web: src/internal/jobs/queue.go and  *)
(* the rows it keeps in SQLite (store.go).  A job is enqueued by an HTTP   *)
(* handler or a service, waits in `pending`, is moved to `running` by the  *)
(* dispatch goroutine and is executed by a goroutine of its own; handlers  *)
(* may cancel it at any moment, main() may close the queue, and the        *)
(* process may die and start again.                                        *)
(*                                                                         *)
(* One step of the model is what runs under one hold of q.mu, one SQL      *)
(* statement (the connection pool has one connection, so statements are    *)
(* atomic and nothing wider is), or one operation on a channel.            *)
(***************************************************************************)
EXTENDS Naturals, Sequences, FiniteSets, SequencesExt

CONSTANTS
    Jobs,           \* the ids Enqueue may draw: each is used at most once
    Cancellers,     \* handlers inside Cancel's fall-back to the database
    Configured,     \* the maxConcurrent argument of NewQueue
    MaxUnsaved,     \* bound: jobs that lose a write while the database is open
    MaxRestarts     \* bound: times the process dies and starts again

ASSUME JobsAssumption == IsFiniteSet(Jobs)
ASSUME ConfiguredAssumption == Configured \in Nat
ASSUME BoundsAssumption == MaxUnsaved \in Nat /\ MaxRestarts \in Nat

\* NewQueue raises a limit below one to one.
MaxConcurrent == IF Configured < 1 THEN 1 ELSE Configured

Status == {"PENDING", "RUNNING", "COMPLETED", "FAILED", "CANCELLED"}
Terminal(status) == status \in {"COMPLETED", "FAILED", "CANCELLED"}

NoRow == "none"
NoJob == "nojob"

(***************************************************************************)
(* How far the goroutine that is responsible for a job has come.           *)
(*   Enqueue:  new, inserted (row written), queued (appended to pending)   *)
(*   dispatchLoop and execute:  claimed (moved to running), launched       *)
(*     (goroutine started), started (markStarted done), live (sink         *)
(*     registered, Run executing), returned (status computed), persisted   *)
(*     (markTerminal done), removed (out of running and sinks), finished   *)
(*     (done closed, wake still due), exited                               *)
(*   Cancel of a waiting job:  withdrawn (out of pending), marked (row     *)
(*     written), cancelled (done closed)                                   *)
(*   lost:  the process died with the job in its memory                    *)
(***************************************************************************)
Owned == {"claimed", "launched", "started", "live", "returned", "persisted"}
Settled == {"finished", "exited", "cancelled"}
Stage == Owned \cup Settled \cup
         {"new", "inserted", "queued", "removed", "withdrawn", "marked", "lost"}

VARIABLES
    row,        \* the status column of the jobs table
    unsaved,    \* history: jobs one of whose writes failed
    stage,      \* see above
    result,     \* the status execute() computed, until it is persisted
    pending,    \* q.pending
    running,    \* the keys of q.running
    sinks,      \* the keys of q.sinks
    cancelled,  \* jobs whose own context was cancelled (t.cancel)
    done,       \* jobs whose done channel is closed
    wakeDue,    \* Enqueue calls between their append and their wake()
    wakeCh,     \* the one-slot channel wakeCh holds a token
    disp,       \* dispatchLoop: where the dispatch goroutine stands
    fallback,   \* Cancel calls that found the job neither running nor pending
    rootDone,   \* rootCtx is cancelled
    closed,     \* Close has returned
    dbOpen,     \* main() has not closed the database
    restarts    \* times the process has been started again

vars == <<row, unsaved, stage, result, pending, running, sinks, cancelled, done,
          wakeDue, wakeCh, disp, fallback, rootDone, closed, dbOpen, restarts>>

store   == <<row, unsaved>>
client  == <<fallback>>
process == <<rootDone, closed, dbOpen, restarts>>

\* A task's context is derived from rootCtx, so closing the queue cancels it.
CtxDone(j) == rootDone \/ j \in cancelled

\* The goroutines q.inflight counts: Add(1) precedes `go execute`, Done is deferred.
InFlight == {j \in Jobs : stage[j] \in
                {"launched", "started", "live", "returned", "persisted", "removed", "finished"}}

Idle == [pc |-> "idle", job |-> NoJob]

Init ==
    /\ row = [j \in Jobs |-> NoRow] /\ unsaved = {}
    /\ stage = [j \in Jobs |-> "new"]
    /\ result = [j \in Jobs |-> NoRow]
    /\ pending = <<>> /\ running = {} /\ sinks = {}
    /\ cancelled = {} /\ done = {}
    /\ wakeDue = {} /\ wakeCh = FALSE /\ disp = "select"
    /\ fallback = [c \in Cancellers |-> Idle]
    /\ rootDone = FALSE /\ closed = FALSE /\ dbOpen = TRUE /\ restarts = 0

-----------------------------------------------------------------------------
(* The store: an UPDATE by id either takes effect or returns an error.     *)

Saves(j, status) ==
    /\ dbOpen
    /\ row' = [row EXCEPT ![j] = status]
    /\ UNCHANGED unsaved

LosesWrite(j) ==
    /\ dbOpen => Cardinality(unsaved \cup {j}) <= MaxUnsaved
    /\ unsaved' = unsaved \cup {j}
    /\ UNCHANGED row

\* execute() and Cancel go on after a failed UPDATE: they log it or drop it.
Update(j, status) == Saves(j, status) \/ LosesWrite(j)

Goto(j, from, to) ==
    /\ stage[j] = from
    /\ stage' = [stage EXCEPT ![j] = to]

-----------------------------------------------------------------------------
(* Enqueue.  A failed INSERT returns an error before anything has changed. *)

EnqueueInsert(j) ==
    /\ Goto(j, "new", "inserted")
    /\ Saves(j, "PENDING")
    /\ UNCHANGED <<result, pending, running, sinks, cancelled, done, wakeDue, wakeCh, disp>>
    /\ UNCHANGED <<client, process>>

EnqueueAppend(j) ==
    /\ Goto(j, "inserted", "queued")
    /\ pending' = Append(pending, j)
    /\ wakeDue' = wakeDue \cup {j}
    /\ UNCHANGED <<result, running, sinks, cancelled, done, wakeCh, disp>>
    /\ UNCHANGED <<store, client, process>>

\* wake(): the token is dropped when the channel already holds one.
EnqueueWake(j) ==
    /\ j \in wakeDue
    /\ wakeDue' = wakeDue \ {j}
    /\ wakeCh' = TRUE
    /\ UNCHANGED <<stage, result, pending, running, sinks, cancelled, done, disp>>
    /\ UNCHANGED <<store, client, process>>

-----------------------------------------------------------------------------
(* dispatchLoop.  When both channels are ready select takes either.        *)

DispatchWake ==
    /\ disp = "select" /\ wakeCh
    /\ wakeCh' = FALSE
    /\ disp' = "check"
    /\ UNCHANGED <<stage, result, pending, running, sinks, cancelled, done, wakeDue>>
    /\ UNCHANGED <<store, client, process>>

DispatchStop ==
    /\ disp = "select" /\ rootDone
    /\ disp' = "gone"
    /\ UNCHANGED <<stage, result, pending, running, sinks, cancelled, done, wakeDue, wakeCh>>
    /\ UNCHANGED <<store, client, process>>

\* Mutant: one job too many.
CanClaimOneMore == Cardinality(running) <= MaxConcurrent /\ pending # <<>>

CanClaim == Cardinality(running) < MaxConcurrent /\ pending # <<>>

\* Mutant: the latest arrival goes first.
DispatchClaimLatest ==
    /\ disp = "check" /\ CanClaim
    /\ pending' = Front(pending)
    /\ running' = running \cup {Last(pending)}
    /\ stage' = [stage EXCEPT ![Last(pending)] = "claimed"]
    /\ disp' = "launch"
    /\ UNCHANGED <<result, sinks, cancelled, done, wakeDue, wakeCh>>
    /\ UNCHANGED <<store, client, process>>

DispatchClaim ==
    /\ disp = "check" /\ CanClaim
    /\ pending' = Tail(pending)
    /\ running' = running \cup {Head(pending)}
    /\ stage' = [stage EXCEPT ![Head(pending)] = "claimed"]
    /\ disp' = "launch"
    /\ UNCHANGED <<result, sinks, cancelled, done, wakeDue, wakeCh>>
    /\ UNCHANGED <<store, client, process>>

\* inflight.Add(1) and `go q.execute(t)`, outside the lock.
DispatchLaunch(j) ==
    /\ disp = "launch"
    /\ Goto(j, "claimed", "launched")
    /\ disp' = "check"
    /\ UNCHANGED <<result, pending, running, sinks, cancelled, done, wakeDue, wakeCh>>
    /\ UNCHANGED <<store, client, process>>

DispatchBreak ==
    /\ disp = "check" /\ ~CanClaim
    /\ disp' = "select"
    /\ UNCHANGED <<stage, result, pending, running, sinks, cancelled, done, wakeDue, wakeCh>>
    /\ UNCHANGED <<store, client, process>>

-----------------------------------------------------------------------------
(* execute                                                                 *)

MarkStarted(j) ==
    /\ Goto(j, "launched", "started")
    /\ Update(j, "RUNNING")
    /\ UNCHANGED <<result, pending, running, sinks, cancelled, done, wakeDue, wakeCh, disp>>
    /\ UNCHANGED <<client, process>>

OpenSink(j) ==
    /\ Goto(j, "started", "live")
    /\ sinks' = sinks \cup {j}
    /\ UNCHANGED <<result, pending, running, cancelled, done, wakeDue, wakeCh, disp>>
    /\ UNCHANGED <<store, client, process>>

\* Run returned nil or an error.  An error of a job whose context is done is
\* reported as a cancellation whatever caused it, and nil is always a success.
Outcome(j, ok) ==
    CASE ok                  -> "COMPLETED"
      [] ~ok /\ CtxDone(j)   -> "CANCELLED"
      [] ~ok /\ ~CtxDone(j)  -> "FAILED"

RunReturns(j) ==
    /\ Goto(j, "live", "returned")
    /\ \E ok \in BOOLEAN : result' = [result EXCEPT ![j] = Outcome(j, ok)]
    /\ UNCHANGED <<pending, running, sinks, cancelled, done, wakeDue, wakeCh, disp>>
    /\ UNCHANGED <<store, client, process>>

\* Mutant: the UPDATE is given the job's context, so it does nothing once that
\* is cancelled.
MarkTerminalInContext(j) ==
    /\ Goto(j, "returned", "persisted")
    /\ IF CtxDone(j) THEN UNCHANGED store ELSE Update(j, result[j])
    /\ UNCHANGED <<result, pending, running, sinks, cancelled, done, wakeDue, wakeCh, disp>>
    /\ UNCHANGED <<client, process>>

MarkTerminal(j) ==
    /\ Goto(j, "returned", "persisted")
    /\ Update(j, result[j])
    /\ UNCHANGED <<result, pending, running, sinks, cancelled, done, wakeDue, wakeCh, disp>>
    /\ UNCHANGED <<client, process>>

Unregister(j) ==
    /\ Goto(j, "persisted", "removed")
    /\ running' = running \ {j}
    /\ sinks' = sinks \ {j}
    /\ UNCHANGED <<result, pending, cancelled, done, wakeDue, wakeCh, disp>>
    /\ UNCHANGED <<store, client, process>>

\* t.cancel() and close(t.done)
CloseDone(j) ==
    /\ Goto(j, "removed", "finished")
    /\ cancelled' = cancelled \cup {j}
    /\ done' = done \cup {j}
    /\ UNCHANGED <<result, pending, running, sinks, wakeDue, wakeCh, disp>>
    /\ UNCHANGED <<store, client, process>>

\* Mutant: execute ends without wake().
FinalWakeMissing(j) ==
    /\ Goto(j, "finished", "exited")
    /\ UNCHANGED <<result, pending, running, sinks, cancelled, done, wakeDue, wakeCh, disp>>
    /\ UNCHANGED <<store, client, process>>

FinalWake(j) ==
    /\ Goto(j, "finished", "exited")
    /\ wakeCh' = TRUE
    /\ UNCHANGED <<result, pending, running, sinks, cancelled, done, wakeDue, disp>>
    /\ UNCHANGED <<store, client, process>>

-----------------------------------------------------------------------------
(* Cancel                                                                  *)

\* t.cancel() follows the unlock; a later one has no reader left.
CancelRunning(j) ==
    /\ j \in running
    /\ cancelled' = cancelled \cup {j}
    /\ UNCHANGED <<stage, result, pending, running, sinks, done, wakeDue, wakeCh, disp>>
    /\ UNCHANGED <<store, client, process>>

\* Mutant: the job is not taken out of the slice.
CancelPendingLeavesIt(i) ==
    /\ i \in DOMAIN pending
    /\ stage' = [stage EXCEPT ![pending[i]] = "withdrawn"]
    /\ UNCHANGED <<result, pending, running, sinks, cancelled, done, wakeDue, wakeCh, disp>>
    /\ UNCHANGED <<store, client, process>>

CancelPending(i) ==
    /\ i \in DOMAIN pending
    /\ pending' = RemoveAt(pending, i)
    /\ stage' = [stage EXCEPT ![pending[i]] = "withdrawn"]
    /\ UNCHANGED <<result, running, sinks, cancelled, done, wakeDue, wakeCh, disp>>
    /\ UNCHANGED <<store, client, process>>

CancelMark(j) ==
    /\ Goto(j, "withdrawn", "marked")
    /\ Update(j, "CANCELLED")
    /\ UNCHANGED <<result, pending, running, sinks, cancelled, done, wakeDue, wakeCh, disp>>
    /\ UNCHANGED <<client, process>>

CancelClose(j) ==
    /\ Goto(j, "marked", "cancelled")
    /\ cancelled' = cancelled \cup {j}
    /\ done' = done \cup {j}
    /\ UNCHANGED <<result, pending, running, sinks, wakeDue, wakeCh, disp>>
    /\ UNCHANGED <<store, client, process>>

\* Under the lock the job is neither running nor pending: fall back to its row.
FallbackMiss(c, j) ==
    /\ fallback[c].pc = "idle"
    /\ row[j] # NoRow /\ j \notin running /\ j \notin Range(pending)
    /\ fallback' = [fallback EXCEPT ![c] = [pc |-> "read", job |-> j]]
    /\ UNCHANGED <<stage, result, pending, running, sinks, cancelled, done, wakeDue, wakeCh, disp>>
    /\ UNCHANGED <<store, process>>

\* store.get: a terminal row is an error to the caller, another is overwritten next.
FallbackRead(c) ==
    /\ fallback[c].pc = "read"
    /\ fallback' = [fallback EXCEPT ![c] =
                        IF Terminal(row[@.job]) \/ ~dbOpen
                        THEN Idle ELSE [@ EXCEPT !.pc = "write"]]
    /\ UNCHANGED <<stage, result, pending, running, sinks, cancelled, done, wakeDue, wakeCh, disp>>
    /\ UNCHANGED <<store, process>>

\* Mutant: a job that is not in memory is taken to have failed.
FallbackWriteFailed(c) ==
    /\ fallback[c].pc = "write"
    /\ fallback' = [fallback EXCEPT ![c] = Idle]
    /\ Update(fallback[c].job, "FAILED")
    /\ UNCHANGED <<stage, result, pending, running, sinks, cancelled, done, wakeDue, wakeCh, disp>>
    /\ UNCHANGED process

FallbackWrite(c) ==
    /\ fallback[c].pc = "write"
    /\ fallback' = [fallback EXCEPT ![c] = Idle]
    /\ Update(fallback[c].job, "CANCELLED")
    /\ UNCHANGED <<stage, result, pending, running, sinks, cancelled, done, wakeDue, wakeCh, disp>>
    /\ UNCHANGED process

-----------------------------------------------------------------------------
(* Close, the end of main() and the next start                             *)

CloseBegin ==
    /\ ~rootDone
    /\ rootDone' = TRUE
    /\ UNCHANGED <<stage, result, pending, running, sinks, cancelled, done, wakeDue, wakeCh, disp>>
    /\ UNCHANGED <<store, client, closed, dbOpen, restarts>>

\* inflight.Wait() returns.
CloseReturn ==
    /\ rootDone /\ ~closed
    /\ InFlight = {}
    /\ closed' = TRUE
    /\ UNCHANGED <<stage, result, pending, running, sinks, cancelled, done, wakeDue, wakeCh, disp>>
    /\ UNCHANGED <<store, client, rootDone, dbOpen, restarts>>

\* The deferred sqlDB.Close() of run() comes after queue.Close().
CloseDB ==
    /\ closed /\ dbOpen
    /\ dbOpen' = FALSE
    /\ UNCHANGED <<stage, result, pending, running, sinks, cancelled, done, wakeDue, wakeCh, disp>>
    /\ UNCHANGED <<store, client, rootDone, closed, restarts>>

\* Mutant: waiting jobs are overlooked.
ReconciledRunning(status) == IF status = "RUNNING" THEN "FAILED" ELSE status

\* Mutant: the status is one of a VM.
ReconciledToError(status) == IF status \in {"PENDING", "RUNNING"} THEN "ERROR" ELSE status

\* reconcileStale
Reconciled(status) == IF status \in {"PENDING", "RUNNING"} THEN "FAILED" ELSE status

\* The process ends anywhere; NewQueue of the next one finds only the rows.
Restart ==
    /\ restarts < MaxRestarts
    /\ restarts' = restarts + 1
    /\ row' = [j \in Jobs |-> Reconciled(row[j])]
    /\ stage' = [j \in Jobs |-> IF stage[j] = "new" THEN "new" ELSE "lost"]
    /\ result' = [j \in Jobs |-> NoRow]
    /\ pending' = <<>> /\ running' = {} /\ sinks' = {}
    /\ cancelled' = {} /\ done' = {}
    /\ wakeDue' = {} /\ wakeCh' = FALSE /\ disp' = "select"
    /\ fallback' = [c \in Cancellers |-> Idle]
    /\ rootDone' = FALSE /\ closed' = FALSE /\ dbOpen' = TRUE
    /\ UNCHANGED unsaved

-----------------------------------------------------------------------------
Enqueue(j) == EnqueueInsert(j) \/ EnqueueAppend(j) \/ EnqueueWake(j)

Dispatch == \/ DispatchWake \/ DispatchStop \/ DispatchClaim \/ DispatchBreak
            \/ \E j \in Jobs : DispatchLaunch(j)

Execute(j) == \/ MarkStarted(j) \/ OpenSink(j) \/ RunReturns(j) \/ MarkTerminal(j)
              \/ Unregister(j) \/ CloseDone(j) \/ FinalWake(j)

Cancel(j) == CancelRunning(j) \/ CancelMark(j) \/ CancelClose(j)

Fallback(c) == FallbackRead(c) \/ FallbackWrite(c) \/ \E j \in Jobs : FallbackMiss(c, j)

Close == CloseBegin \/ CloseReturn \/ CloseDB

Next ==
    \/ \E j \in Jobs : Enqueue(j) \/ Execute(j) \/ Cancel(j)
    \/ \E i \in 1..Len(pending) : CancelPending(i)
    \/ \E c \in Cancellers : Fallback(c)
    \/ Dispatch
    \/ Close
    \/ Restart

Spec == Init /\ [][Next]_vars

(***************************************************************************)
(* Every goroutine the queue starts keeps running, and so do the calls     *)
(* that have begun.  Run itself is only promised to return once its        *)
(* context is done: RunCommand kills its process group then.  Nobody is    *)
(* obliged to enqueue, to cancel, to close or to crash.                    *)
(***************************************************************************)
CancelledRunReturns(j) == CtxDone(j) /\ RunReturns(j)

Fairness ==
    /\ WF_vars(Dispatch)
    /\ \A j \in Jobs :
        /\ WF_vars(EnqueueAppend(j)) /\ WF_vars(EnqueueWake(j))
        /\ WF_vars(MarkStarted(j)) /\ WF_vars(OpenSink(j))
        /\ WF_vars(CancelledRunReturns(j))
        /\ WF_vars(MarkTerminal(j)) /\ WF_vars(Unregister(j))
        /\ WF_vars(CloseDone(j)) /\ WF_vars(FinalWake(j))
        /\ WF_vars(CancelMark(j)) /\ WF_vars(CancelClose(j))

FairSpec == Spec /\ Fairness

-----------------------------------------------------------------------------
(* Properties                                                              *)

\* Every variable stays in its type, a claim is announced by the dispatcher's
\* own position, and only rows of enqueued jobs exist.
TypeOK ==
    /\ row \in [Jobs -> Status \cup {NoRow}]
    /\ unsaved \subseteq Jobs
    /\ stage \in [Jobs -> Stage]
    /\ result \in [Jobs -> Status \cup {NoRow}]
    /\ pending \in Seq(Jobs)
    /\ running \subseteq Jobs /\ sinks \subseteq Jobs
    /\ cancelled \subseteq Jobs /\ done \subseteq Jobs /\ wakeDue \subseteq Jobs
    /\ wakeCh \in BOOLEAN
    /\ disp \in {"select", "check", "launch", "gone"}
    /\ fallback \in [Cancellers -> {Idle} \cup [pc : {"read", "write"}, job : Jobs]]
    /\ rootDone \in BOOLEAN /\ closed \in BOOLEAN /\ dbOpen \in BOOLEAN
    /\ restarts \in Nat

\* At most maxConcurrent jobs run at once (the doc comment of Queue): the jobs
\* whose Run may be executing never outnumber the limit, whatever is cancelled,
\* closed or lost meanwhile.
ConcurrencyBound ==
    Cardinality({j \in Jobs : stage[j] \in Owned}) <= MaxConcurrent

\* A waiting job with a free slot is never forgotten: whenever the dispatcher
\* sleeps, a token is in wakeCh or some goroutine has yet to call wake().
NoLostWakeup ==
    disp = "select" /\ ~wakeCh /\ CanClaim =>
        wakeDue # {} \/ \E j \in Jobs : stage[j] \in {"removed", "finished"}

\* Each job has one owner: it waits once in `pending`, or is in `running` under
\* one worker, or has been withdrawn, so no two goroutines ever write its row's
\* outcome or close its channel (close of a closed channel panics).
OneOwner ==
    /\ IsInjective(pending)
    /\ \A j \in Jobs :
        /\ j \in Range(pending) <=> stage[j] = "queued"
        /\ j \in running <=> stage[j] \in Owned
        /\ j \in done <=> stage[j] \in Settled
        /\ j \in sinks => stage[j] \in Owned

\* "Done is closed when the job reaches a terminal state" (job.go, Handle): who
\* is released by Done finds a final status in the row, unless a write failed.
DoneMeansTerminal ==
    \A j \in done \ unsaved : Terminal(row[j])

\* Once main() has restarted, no row claims that a job of the dead process is
\* still waiting or running (reconcileStale).
NoOrphanedRows ==
    \A j \in Jobs : stage[j] = "lost" => Terminal(row[j])

\* A job cancelled while it waited is never started: having been withdrawn, it
\* ends CANCELLED without its Run being called (doc comment of Cancel).
CancelledPendingNeverStarts ==
    [][\A j \in Jobs : stage[j] \in {"withdrawn", "marked", "cancelled"} =>
            stage'[j] \notin Owned /\ row'[j] # "RUNNING"]_vars

\* Once a job's owner has recorded its outcome the row never shows it waiting,
\* running or otherwise ended again: only a Cancel that had read the row before
\* the job was in memory may still turn the outcome into CANCELLED.
OutcomeSticks ==
    [][\A j \in Jobs \ unsaved :
        stage[j] \in Settled \cup {"persisted", "removed", "marked", "lost"} =>
            row'[j] \in {row[j], Reconciled(row[j]), "CANCELLED"}]_vars

\* Nobody waits for a job for ever, unless the process dies: cancelling (or closing)
\* settles a running one; and if every Run returns, every waiting one settles or the
\* queue is closed.
JobsSettle ==
    /\ \A j \in Jobs :
         (j \in running /\ CtxDone(j)) ~> (j \in done \/ stage[j] = "lost")
    /\ (\A j \in Jobs : []<>(stage[j] # "live")) =>
         \A j \in Jobs : (stage[j] = "queued") ~>
             (j \in done \/ rootDone \/ stage[j] = "lost")
-----------------------------------------------------------------------------
(* Refinement: to its callers the queue is a BoundedQueue.                 *)

placeOf(s) ==
    CASE s \in {"new", "inserted"}                   -> "absent"
      [] s = "queued"                                -> "waiting"
      [] s \in Owned                                 -> "active"
      [] s \in {"removed", "withdrawn", "marked"}    -> "leaving"
      [] s \in Settled                               -> "settled"
      [] s = "lost"                                  -> "lost"

Promise == INSTANCE BoundedQueue WITH
    Slots <- MaxConcurrent,
    place <- [j \in Jobs |-> placeOf(stage[j])],
    line  <- pending,
    open  <- ~rootDone

\* The queue implements BoundedQueue, with the wake-ups, the locks and the
\* database hidden: arrival order, the limit, one settlement per job, and no
\* slot left free for ever while a job waits in an open queue.
RefinesBoundedQueue == Promise!Spec
=============================================================================
