------------------------------ MODULE SyncPool ------------------------------
(***************************************************************************)
(* The worker pool of internal/pricing/sync.go: Sync hands the planned     *)
(* units over an unbuffered channel to its workers, each of which fetches  *)
(* the unit's products page by page, writes them in one transaction and    *)
(* adds them to the totals; the first error cancels the rest.              *)
(*                                                                         *)
(* What a unit's entries are is left to PriceSelection; here a unit is      *)
(* written or not.                                                         *)
(***************************************************************************)
EXTENDS Integers, Sequences

CONSTANTS
    Workers,        \* the goroutines, opts.Concurrency of them
    Total,          \* the number of planned units
    MaxPages,       \* bound: pages of a unit
    NoWorker

ASSUME PoolAssumption ==
    /\ Workers # {} /\ NoWorker \notin Workers
    /\ Total \in Nat \ {0}
    /\ MaxPages \in Nat \ {0}

Units == 1 .. Total

VARIABLES
    main,           \* "dispatch", "wait" (for the workers), "returned"
    next,           \* the unit the dispatcher offers
    pc,             \* per worker
    unit,           \* per worker, 0 before its first unit
    page,           \* per worker, pages of its unit fetched so far
    failure,        \* per worker, why its unit failed
    firstErr,       \* guarded by mu, a critical section of which is one step
    writer,         \* who holds writeMu
    done,           \* guarded by writeMu
    cached,         \* the units whose batch is committed
    progress,       \* the calls of opts.Progress
    counted,        \* the units whose entries are in the totals
    interrupted     \* the caller's context is cancelled

pool == <<main, next>>
local == <<pc, unit, page, failure>>
shared == <<firstErr, writer, done, cached, progress, counted>>
vars == <<pool, local, shared, interrupted>>

NoErr == "none"

\* cctx.Err() # nil: cancel() is called exactly where firstErr is set.
Canceled == interrupted \/ firstErr # NoErr

Init ==
    /\ main = "dispatch" /\ next = 1
    /\ pc = [w \in Workers |-> "receive"]
    /\ unit = [w \in Workers |-> 0]
    /\ page = [w \in Workers |-> 0]
    /\ failure = [w \in Workers |-> NoErr]
    /\ firstErr = NoErr
    /\ writer = NoWorker
    /\ done = 0
    /\ cached = {} /\ progress = <<>> /\ counted = {}
    /\ interrupted = FALSE

Goto(w, l) == pc' = [pc EXCEPT ![w] = l]

-----------------------------------------------------------------------------
(* The dispatching loop.                                                   *)

\* work <- u, received by w.
Dispatch(w) ==
    /\ main = "dispatch" /\ next <= Total
    /\ pc[w] = "receive"
    /\ unit' = [unit EXCEPT ![w] = next]
    /\ page' = [page EXCEPT ![w] = 0]
    /\ failure' = [failure EXCEPT ![w] = NoErr]
    /\ next' = next + 1
    /\ Goto(w, "page")
    /\ UNCHANGED <<main, shared, interrupted>>

\* The other case of the select; when both are ready either is taken.
Skip ==
    /\ main = "dispatch" /\ next <= Total
    /\ Canceled
    /\ next' = next + 1
    /\ UNCHANGED <<main, local, shared, interrupted>>

Close ==
    /\ main = "dispatch" /\ next > Total
    /\ main' = "wait"
    /\ UNCHANGED <<next, local, shared, interrupted>>

\* Faulty Return: no wg.Wait().
ReturnAtOnce ==
    /\ main = "wait"
    /\ main' = "returned"
    /\ UNCHANGED <<next, local, shared, interrupted>>

\* wg.Wait() is over: the error, or else the totals, is the result.
Return ==
    /\ main = "wait"
    /\ \A w \in Workers : pc[w] = "exit"
    /\ main' = "returned"
    /\ UNCHANGED <<next, local, shared, interrupted>>

-----------------------------------------------------------------------------
(* A worker.                                                               *)

Exit(w) ==
    /\ main # "dispatch"
    /\ pc[w] = "receive"
    /\ Goto(w, "exit")
    /\ UNCHANGED <<pool, unit, page, failure, shared, interrupted>>

\* The loop of productEnumerator.each looks at the context before every page.
RequestPage(w) ==
    /\ pc[w] = "page"
    /\ IF Canceled
       THEN /\ failure' = [failure EXCEPT ![w] = "canceled"]
            /\ Goto(w, "failed")
       ELSE /\ Goto(w, "fetch")
            /\ UNCHANGED failure
    /\ UNCHANGED <<pool, unit, page, shared, interrupted>>

\* A full page is followed by another, a short one ends the unit.
ReceivePage(w) ==
    /\ pc[w] = "fetch"
    /\ page' = [page EXCEPT ![w] = @ + 1]
    /\ \/ page[w] + 1 < MaxPages /\ Goto(w, "page")
       \/ Goto(w, "batch")
    /\ UNCHANGED <<pool, unit, failure, shared, interrupted>>

\* The request fails, or is cut short by a cancellation.
LosePage(w) ==
    /\ pc[w] = "fetch"
    /\ \E cause \in {"upstream"} \cup IF Canceled THEN {"canceled"} ELSE {} :
          failure' = [failure EXCEPT ![w] = cause]
    /\ Goto(w, "failed")
    /\ UNCHANGED <<pool, unit, page, shared, interrupted>>

\* Faulty RecordFailure: the last error wins.
RecordLastFailure(w) ==
    /\ pc[w] = "failed"
    /\ firstErr' = failure[w]
    /\ Goto(w, "receive")
    /\ UNCHANGED <<pool, unit, page, failure, writer, done, cached, progress,
                   counted, interrupted>>

\* Under mu.
RecordFailure(w) ==
    /\ pc[w] = "failed"
    /\ firstErr' = IF firstErr = NoErr THEN failure[w] ELSE firstErr
    /\ Goto(w, "receive")
    /\ UNCHANGED <<pool, unit, page, failure, writer, done, cached, progress,
                   counted, interrupted>>

\* PutBatch's transaction is committed, or rolled back with an error.
PutBatch(w) ==
    \/ /\ cached' = cached \cup {unit[w]}
       /\ UNCHANGED failure
    \/ /\ failure' = [failure EXCEPT ![w] = "write"]
       /\ UNCHANGED cached

\* Faulty WriteBatch: no writeMu.
WriteBatchUnlocked(w) ==
    /\ pc[w] = "batch"
    /\ writer' = w
    /\ PutBatch(w)
    /\ done' = done + 1
    /\ Goto(w, "notify")
    /\ UNCHANGED <<pool, unit, page, firstErr, progress, counted, interrupted>>

\* Faulty WriteBatch: a failed write leaves the critical section at once, the
\* lock still held.
WriteBatchLeaves(w) ==
    /\ pc[w] = "batch"
    /\ writer = NoWorker
    /\ writer' = w
    /\ \/ /\ cached' = cached \cup {unit[w]}
          /\ done' = done + 1
          /\ Goto(w, "notify")
          /\ UNCHANGED failure
       \/ /\ failure' = [failure EXCEPT ![w] = "write"]
          /\ Goto(w, "count")
          /\ UNCHANGED <<cached, done>>
    /\ UNCHANGED <<pool, unit, page, firstErr, progress, counted, interrupted>>

\* Faulty WriteBatch: the error of PutBatch is dropped.
WriteBatchUnchecked(w) ==
    /\ pc[w] = "batch"
    /\ writer = NoWorker
    /\ writer' = w
    /\ cached' \in {cached, cached \cup {unit[w]}}
    /\ done' = done + 1
    /\ Goto(w, "notify")
    /\ UNCHANGED <<pool, unit, page, failure, firstErr, progress, counted,
                   interrupted>>

\* writeMu.Lock, the batch, done++.
WriteBatch(w) ==
    /\ pc[w] = "batch"
    /\ writer = NoWorker
    /\ writer' = w
    /\ PutBatch(w)
    /\ done' = done + 1
    /\ Goto(w, "notify")
    /\ UNCHANGED <<pool, unit, page, firstErr, progress, counted, interrupted>>

\* opts.Progress, writeMu.Unlock.
Notify(w) ==
    /\ pc[w] = "notify"
    /\ progress' = Append(progress, [unit |-> unit[w], done |-> done])
    /\ writer' = NoWorker
    /\ Goto(w, "count")
    /\ UNCHANGED <<pool, unit, page, failure, firstErr, done, cached, counted,
                   interrupted>>

\* Under mu: the write's error, then the totals, which grow even so.
Count(w) ==
    /\ pc[w] = "count"
    /\ firstErr' = IF firstErr = NoErr THEN failure[w] ELSE firstErr
    /\ counted' = counted \cup {unit[w]}
    /\ Goto(w, "receive")
    /\ UNCHANGED <<pool, unit, page, failure, writer, done, cached, progress,
                   interrupted>>

\* The caller's context is cancelled, by a Ctrl-C or several.
Interrupt ==
    /\ interrupted' = TRUE
    /\ UNCHANGED <<pool, local, shared>>

\* The command prints the result and ends.
Terminated ==
    /\ main = "returned"
    /\ UNCHANGED vars

-----------------------------------------------------------------------------

Dispatcher == (\E w \in Workers : Dispatch(w)) \/ Skip \/ Close \/ Return

Work(w) ==
    \/ Exit(w)
    \/ RequestPage(w) \/ ReceivePage(w) \/ LosePage(w) \/ RecordFailure(w)
    \/ WriteBatch(w) \/ Notify(w) \/ Count(w)

Next ==
    \/ Dispatcher
    \/ \E w \in Workers : Work(w)
    \/ Interrupt
    \/ Terminated

\* Goroutines are scheduled, requests time out, transactions end.
Spec ==
    /\ Init /\ [][Next]_vars
    /\ WF_vars(Dispatcher)
    /\ \A w \in Workers : WF_vars(Work(w))

-----------------------------------------------------------------------------
(* Properties.                                                             *)

Labels == {"receive", "page", "fetch", "failed", "batch", "notify", "count", "exit"}
Causes == {NoErr, "upstream", "write", "canceled"}
Calls == [unit : Units, done : Nat]

\* Type invariant.
TypeOK ==
    /\ main \in {"dispatch", "wait", "returned"}
    /\ next \in 1 .. Total + 1
    /\ pc \in [Workers -> Labels]
    /\ unit \in [Workers -> 0 .. Total]
    /\ page \in [Workers -> 0 .. MaxPages]
    /\ failure \in [Workers -> Causes]
    /\ firstErr \in Causes
    /\ writer \in Workers \cup {NoWorker}
    /\ done \in Nat
    /\ cached \subseteq Units
    /\ progress \in Seq(Calls)
    /\ counted \subseteq Units
    /\ interrupted \in BOOLEAN

Succeeded == main = "returned" /\ firstErr = NoErr

\* A sync that reports success has written every planned unit, which is what
\* the summary's Units and "Offline ready" say, unless the caller cut it short.
SuccessMeansComplete == Succeeded /\ ~interrupted => cached = Units

\* The same of every sync that reports success: "Offline ready".
OfflineReady == Succeeded => cached = Units

\* The totals of a successful sync count exactly what is in the cache.
TotalsMatchCache == Succeeded => counted = cached

\* The error Sync returns is the one that went wrong, never the cancellation
\* it caused in another worker.
CauseReported == firstErr = "canceled" => interrupted

\* Progress is reported once per unit and counts 1, 2, 3, ...
ProgressSerial ==
    /\ \A i \in 1 .. Len(progress) : progress[i].done = i
    /\ \A i, j \in 1 .. Len(progress) :
          progress[i].unit = progress[j].unit => i = j

\* Once Sync has returned, and its deferred Close has closed the database, no
\* worker writes, reports or counts.
ReturnsQuiet == [][main = "returned" => UNCHANGED shared]_vars

\* Sync returns, whatever fails and whenever the caller cancels.
SyncReturns == <>(main = "returned")
=============================================================================
