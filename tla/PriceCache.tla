----------------------------- MODULE PriceCache -----------------------------
(***************************************************************************)
(* The pricing chains of internal/pricing around the one thing c3x         *)
(* processes share: the SQLite price cache on disk.                        *)
(*                                                                         *)
(*   online   MemoCache(DiskCache(retrying(HTTPSource)))                   *)
(*   nocache  MemoCache(retrying(HTTPSource))                              *)
(*   offline  OfflineSource(DiskCache(Stub)), no expiry, no memo           *)
(*   sync     `c3x pricing sync`: pages of products, one PutBatch per unit *)
(*                                                                         *)
(* A process makes its lookups one after the other, as Engine.Estimate     *)
(* does, but any number of processes run at once.  One step is one SQL     *)
(* statement or one HTTP request, so that another process may act between  *)
(* a miss and the write that follows it.  A process may end at any step,   *)
(* whether it finished, failed, was interrupted or crashed.                *)
(***************************************************************************)
EXTENDS PriceHistory

CONSTANTS
    Runs,           \* c3x processes
    Modes,          \* the chains in use, a subset of AllModes
    TTL,            \* DefaultCacheTTL, in clock units
    MaxLatency,     \* the longest one lookup, or the fetch of one sync unit,
                    \* takes: requests time out and attempts are bounded
    Unreliable,     \* whether a request may fail for good: an upstream error
                    \* that outlasts the retries, or the run's cancellation
    ReadsFail       \* whether a read of the cache may fail: an error, or a row
                    \* that does not parse, is taken for a miss

AllModes == {"online", "nocache", "offline", "sync"}

ASSUME ModeAssumption == Modes \subseteq AllModes
ASSUME DurationAssumption == TTL \in Nat \ {0} /\ MaxLatency \in Nat
ASSUME FailureAssumption == Unreliable \in BOOLEAN /\ ReadsFail \in BOOLEAN

VARIABLES
    disk,       \* disk[q]: the row of table prices with q's cache_key
    mode,       \* mode[r]: the chain r was started with, "none" if not running
    runStart,   \* runStart[r]: when r started
    result,     \* result[r][q]: for a memoising chain the memo entry of q, for
                \* an offline one the last value returned for q
    pc,         \* pc[r]: where r's lookup is
    query,      \* query[r]: the query of that lookup
    pending,    \* pending[r]: the value it has found so far
    began,      \* began[r]: when it started
    batch,      \* batch[r][q]: the rate sync found for q, 0 if none
    lost        \* history: what a lookup asked for, did not get, and went on
                \* without, and when

runVars == <<mode, runStart, result, pc, query, pending, began, batch>>
past == <<history, lost>>
vars == <<past, disk, runVars>>

Oracle == INSTANCE PriceOracle WITH MaxAge <- TTL + MaxLatency

NoResult   == [price |-> 0, src |-> "none"]
Failed     == [price |-> 0, src |-> "error"]
Live(p)    == [price |-> p, src |-> "live"]
StubZero   == [price |-> 0, src |-> "stub"]
NoRow      == [price |-> 0, src |-> "none", at |-> 0]
NoEntries  == [q \in Queries |-> 0]
NoResults  == [q \in Queries |-> NoResult]

Row(a, t)  == [price |-> a.price, src |-> a.src, at |-> t]
Value(row) == [price |-> row.price, src |-> row.src]
Present(q) == disk[q] # NoRow

\* The answer to a fallback request, or the row of a query, is lost now.
Lost(what, q, t) == [what |-> what, query |-> q, at |-> t]
Lose(what, q) == lost' = lost \cup {Lost(what, q, clock)}

Memoises(r) == mode[r] \in {"online", "nocache"}

\* Faulty Fresh: the expiry check is lost.
FreshForever(q) == Present(q)

\* DiskCache.read under a TTL: a row is served while it is at most TTL old.
Fresh(q) == Present(q) /\ clock - disk[q].at <= TTL

AnyQuery == CHOOSE q \in Queries : TRUE

Init ==
    /\ HistoryInit
    /\ disk = [q \in Queries |-> NoRow]
    /\ mode = [r \in Runs |-> "none"]
    /\ runStart = [r \in Runs |-> 0]
    /\ result = [r \in Runs |-> NoResults]
    /\ pc = [r \in Runs |-> "idle"]
    /\ query = [r \in Runs |-> AnyQuery]
    /\ pending = [r \in Runs |-> NoResult]
    /\ began = [r \in Runs |-> 0]
    /\ batch = [r \in Runs |-> NoEntries]
    /\ lost = {}

-----------------------------------------------------------------------------
(* Lookup bookkeeping: suspend at a step, or return a value.               *)

Suspend(r, step, q, value) ==
    /\ pc' = [pc EXCEPT ![r] = step]
    /\ query' = [query EXCEPT ![r] = q]
    /\ pending' = [pending EXCEPT ![r] = value]

Idle(r) ==
    /\ Suspend(r, "idle", AnyQuery, NoResult)
    /\ began' = [began EXCEPT ![r] = 0]

Return(r, q, value) ==
    /\ result' = [result EXCEPT ![r][q] = value]
    /\ Idle(r)

Persist(q, row) == disk' = [disk EXCEPT ![q] = row]

-----------------------------------------------------------------------------
(* Processes.                                                              *)

StartRun(r, m) ==
    /\ mode[r] = "none"
    /\ mode' = [mode EXCEPT ![r] = m]
    /\ runStart' = [runStart EXCEPT ![r] = clock]
    /\ UNCHANGED <<past, disk, result, pc, query, pending, began, batch>>

\* Exit, failure, Ctrl-C or crash: everything but the disk is lost.
EndRun(r) ==
    /\ mode[r] # "none"
    /\ mode' = [mode EXCEPT ![r] = "none"]
    /\ runStart' = [runStart EXCEPT ![r] = 0]
    /\ result' = [result EXCEPT ![r] = NoResults]
    /\ batch' = [batch EXCEPT ![r] = NoEntries]
    /\ Idle(r)
    /\ UNCHANGED <<past, disk>>

-----------------------------------------------------------------------------
(* Online and uncached lookups.                                            *)

\* Faulty MemoMiss: errors are not memoised.
MemoMissAfterError(r, q) ==
    Memoises(r) /\ pc[r] = "idle" /\ result[r][q] \in {NoResult, Failed}

\* The memo does not know q.
MemoMiss(r, q) == Memoises(r) /\ pc[r] = "idle" /\ result[r][q] = NoResult

LookupHit(r, q) ==
    /\ MemoMiss(r, q)
    /\ mode[r] = "online"
    /\ Fresh(q)
    /\ Return(r, q, Value(disk[q]))
    /\ UNCHANGED <<past, disk, mode, runStart, batch>>

LookupMiss(r, q) ==
    /\ MemoMiss(r, q)
    /\ mode[r] = "online" => ~Fresh(q) \/ ReadsFail
    /\ Suspend(r, "regional", q, NoResult)
    /\ began' = [began EXCEPT ![r] = clock]
    /\ UNCHANGED <<past, disk, mode, runStart, result, batch>>

\* Faulty RegionalReply: no fallback to the reference region.
RegionalReplyNoFallback(r) ==
    /\ pc[r] = "regional"
    /\ Suspend(r, "store", query[r], Live(Now(query[r])))
    /\ UNCHANGED <<past, disk, mode, runStart, result, began, batch>>

\* The upstream answers the request for the query itself.
RegionalReply(r) ==
    /\ pc[r] = "regional"
    /\ LET q == query[r]
           step == IF Now(q) = 0 /\ HasFallback(q) THEN "reference"
                                                   ELSE "store"
       IN  Suspend(r, step, q, Live(Now(q)))
    /\ UNCHANGED <<past, disk, mode, runStart, result, began, batch>>

\* Its last attempt fails: the error is memoised and nothing is cached.
RegionalFail(r) ==
    /\ pc[r] = "regional"
    /\ Unreliable
    /\ Return(r, query[r], Failed)
    /\ UNCHANGED <<past, disk, mode, runStart, batch>>

\* Faulty ReferenceReply: an unpriced fallback starts the lookup over.
ReferenceReplyRestart(r) ==
    /\ pc[r] = "reference"
    /\ LET p == Now(Ref[query[r]])
       IN  Suspend(r, IF p = 0 THEN "regional" ELSE "store", query[r], Live(p))
    /\ UNCHANGED <<past, disk, mode, runStart, result, began, batch>>

\* The upstream answers the request for the reference region.
ReferenceReply(r) ==
    /\ pc[r] = "reference"
    /\ Suspend(r, "store", query[r], Live(Now(Ref[query[r]])))
    /\ UNCHANGED <<past, disk, mode, runStart, result, began, batch>>

\* The fallback request fails: its error is dropped, the regional zero stands.
ReferenceFail(r) ==
    /\ pc[r] = "reference"
    /\ Unreliable
    /\ Suspend(r, "store", query[r], pending[r])
    /\ Lose("fallback", query[r])
    /\ UNCHANGED <<history, disk, mode, runStart, result, began, batch>>

\* Faulty Store: the row is keyed by the fallback query.
StoreUnderReference(r) ==
    /\ pc[r] = "store"
    /\ \/ /\ mode[r] = "online"
          /\ Persist(Ref[query[r]], Row(pending[r], clock))
       \/ UNCHANGED disk
    /\ Return(r, query[r], pending[r])
    /\ UNCHANGED <<past, mode, runStart, batch>>

\* DiskCache.write, when the chain has a disk and the statement succeeds,
\* then the memo entry.
Store(r) ==
    /\ pc[r] = "store"
    /\ \/ mode[r] = "online" /\ Persist(query[r], Row(pending[r], clock))
       \/ UNCHANGED disk
    /\ Return(r, query[r], pending[r])
    /\ UNCHANGED <<past, mode, runStart, batch>>

-----------------------------------------------------------------------------
(* Offline lookups.                                                        *)

\* The first DiskCache.Lookup, when the row exists.
OfflineHit(r, q) ==
    /\ mode[r] = "offline" /\ pc[r] = "idle"
    /\ Present(q)
    /\ \/ /\ disk[q].price # 0 \/ ~HasFallback(q)
          /\ Return(r, q, Value(disk[q]))
       \/ /\ disk[q].price = 0 /\ HasFallback(q)
          /\ Suspend(r, "offlineRef", q, Value(disk[q]))
          /\ began' = [began EXCEPT ![r] = clock]
          /\ UNCHANGED result
    /\ UNCHANGED <<past, disk, mode, runStart, batch>>

\* There is no row, or it cannot be read, which DiskCache.read takes for the
\* same.
Miss(q) ==
    \/ ~Present(q) /\ UNCHANGED lost
    \/ Present(q) /\ ReadsFail /\ Lose("row", q)

\* No row: DiskCache asks its inner Stub, which knows no price.
OfflineMiss(r, q) ==
    /\ mode[r] = "offline" /\ pc[r] = "idle"
    /\ Miss(q)
    /\ Suspend(r, "offlineStore", q, StubZero)
    /\ began' = [began EXCEPT ![r] = clock]
    /\ UNCHANGED <<history, disk, mode, runStart, result, batch>>

\* Faulty OfflineStore: the Stub's zero is keyed by the fallback query.
OfflineStoreUnderReference(r) ==
    /\ pc[r] = "offlineStore"
    /\ Persist(Ref[query[r]], Row(StubZero, clock)) \/ UNCHANGED disk
    /\ IF HasFallback(query[r])
       THEN /\ Suspend(r, "offlineRef", query[r], pending[r])
            /\ UNCHANGED <<result, began>>
       ELSE Return(r, query[r], pending[r])
    /\ UNCHANGED <<past, mode, runStart, batch>>

\* ... and writes the Stub's zero back like any other answer.
OfflineStore(r) ==
    /\ pc[r] = "offlineStore"
    /\ Persist(query[r], Row(StubZero, clock)) \/ UNCHANGED disk
    /\ IF HasFallback(query[r])
       THEN /\ Suspend(r, "offlineRef", query[r], pending[r])
            /\ UNCHANGED <<result, began>>
       ELSE Return(r, query[r], pending[r])
    /\ UNCHANGED <<past, mode, runStart, batch>>

\* The second DiskCache.Lookup, for the reference region, when the row exists.
OfflineRefHit(r) ==
    /\ pc[r] = "offlineRef"
    /\ LET row == disk[Ref[query[r]]]
       IN  /\ row # NoRow
           /\ Return(r, query[r], IF row.price # 0 THEN Value(row)
                                                   ELSE pending[r])
    /\ UNCHANGED <<past, disk, mode, runStart, batch>>

OfflineRefMiss(r) ==
    /\ pc[r] = "offlineRef"
    /\ Miss(Ref[query[r]])
    /\ Suspend(r, "offlineRefStore", query[r], pending[r])
    /\ UNCHANGED <<history, disk, mode, runStart, result, began, batch>>

OfflineRefStore(r) ==
    /\ pc[r] = "offlineRefStore"
    /\ Persist(Ref[query[r]], Row(StubZero, clock)) \/ UNCHANGED disk
    /\ Return(r, query[r], pending[r])
    /\ UNCHANGED <<past, mode, runStart, batch>>

-----------------------------------------------------------------------------
(* Sync, and the `c3x pricing clear` command.                              *)

\* A page of a unit's products arrives: unpriced products are skipped, and the
\* highest of the rates that share a key is kept.
SyncPage(r, q) ==
    /\ mode[r] = "sync" /\ pc[r] \in {"idle", "enumerate"}
    /\ Now(q) > batch[r][q]
    /\ batch' = [batch EXCEPT ![r][q] = Now(q)]
    /\ pc' = [pc EXCEPT ![r] = "enumerate"]
    /\ began' = [began EXCEPT ![r] = IF pc[r] = "idle" THEN clock ELSE @]
    /\ UNCHANGED <<past, disk, mode, runStart, result, query, pending>>

\* PutBatch commits the unit in one transaction, or fails and writes nothing.
SyncCommit(r) ==
    /\ pc[r] = "enumerate"
    /\ \/ disk' = [q \in Queries |->
                      IF batch[r][q] = 0 THEN disk[q]
                                         ELSE Row(Live(batch[r][q]), clock)]
       \/ UNCHANGED disk
    /\ batch' = [batch EXCEPT ![r] = NoEntries]
    /\ Idle(r)
    /\ UNCHANGED <<past, mode, runStart, result>>

\* A page fails: the unit's entries are dropped.
SyncFail(r) ==
    /\ pc[r] = "enumerate"
    /\ Unreliable
    /\ batch' = [batch EXCEPT ![r] = NoEntries]
    /\ Idle(r)
    /\ UNCHANGED <<past, disk, mode, runStart, result>>

ClearCache ==
    /\ disk' = [q \in Queries |-> NoRow]
    /\ UNCHANGED <<past, runVars>>

-----------------------------------------------------------------------------

\* Time passes, but no lookup and no sync unit outlasts MaxLatency.
Tick ==
    /\ \A r \in Runs : pc[r] # "idle" => clock < began[r] + MaxLatency
    /\ AdvanceTime
    /\ UNCHANGED <<lost, disk, runVars>>

\* The rest of a lookup or of a sync unit that has begun.
Resume(r) ==
    \/ RegionalReply(r) \/ RegionalFail(r)
    \/ ReferenceReply(r) \/ ReferenceFail(r)
    \/ Store(r)
    \/ OfflineStore(r) \/ OfflineRefHit(r) \/ OfflineRefMiss(r)
    \/ OfflineRefStore(r)
    \/ SyncCommit(r) \/ SyncFail(r)

RunStep(r) ==
    \/ \E m \in Modes : StartRun(r, m)
    \/ EndRun(r)
    \/ \E q \in Queries :
          \/ LookupHit(r, q) \/ LookupMiss(r, q)
          \/ OfflineHit(r, q) \/ OfflineMiss(r, q)
          \/ SyncPage(r, q)
    \/ Resume(r)

Next ==
    \/ Tick
    \/ ClearCache
    \/ \E r \in Runs : RunStep(r)

\* A request ends by its client timeout and a statement by its busy timeout,
\* so a lookup that has begun always takes its next step.
Fairness == \A r \in Runs : WF_vars(Resume(r))

Spec == Init /\ [][Next]_vars /\ Fairness

-----------------------------------------------------------------------------
(* Properties.                                                             *)

Steps == {"idle", "regional", "reference", "store", "offlineStore",
          "offlineRef", "offlineRefStore", "enumerate"}
Values  == [price : Prices, src : {"none", "live", "stub"}]
Results == Values \cup {Failed}
Rows    == [price : Prices, src : {"none", "live", "stub"}, at : Times]
Losses  == [what : {"fallback", "row"}, query : Queries, at : Times]

\* Type invariant: every variable holds a value of its kind.
TypeOK ==
    /\ HistoryTypeOK
    /\ disk \in [Queries -> Rows]
    /\ mode \in [Runs -> Modes \cup {"none"}]
    /\ runStart \in [Runs -> Times]
    /\ result \in [Runs -> [Queries -> Results]]
    /\ pc \in [Runs -> Steps]
    /\ query \in [Runs -> Queries]
    /\ pending \in [Runs -> Values]
    /\ began \in [Runs -> Times]
    /\ batch \in [Runs -> [Queries -> Prices]]
    /\ lost \subseteq Losses

\* Whatever processes interleave, fail or crash, a "live" row holds a number
\* the upstream quoted for that very query (or for its reference region when
\* the query had no price) at most one lookup before the row's fetched_at; no
\* other row holds a price (DiskCache.Lookup, DiskCache.PutBatch, Sync).
RowsAreQuotes ==
    \A q \in Queries :
        /\ disk[q].at <= clock
        /\ disk[q].src = "live" =>
              QuotedIn(q, disk[q].price, disk[q].at - MaxLatency, disk[q].at)
        /\ disk[q].src # "live" => disk[q].price = 0

\* A live price an online or uncached run has shown was quoted no earlier than
\* TTL plus one lookup before that run began, whatever the other processes
\* wrote in the meantime (DiskCache.read's expiry under MemoCache).
AnswersAreQuotes ==
    \A r \in Runs, q \in Queries :
        Memoises(r) /\ result[r][q].src = "live" =>
            QuotedIn(q, result[r][q].price,
                     runStart[r] - TTL - MaxLatency, clock)

\* "Zero rows are the correct steady-state answer": a $0 in the cache means that
\* the lookup which put it there found the query and its reference region
\* unpriced (DiskCache.Lookup).
ZeroRowsMeanUnpriced ==
    \A q \in Queries :
        Present(q) /\ disk[q].price = 0 =>
            UnpricedIn(q, disk[q].at - MaxLatency, disk[q].at)

LostIn(what, q, lo, hi) ==
    \E t \in Times : lo <= t /\ t <= hi /\ Lost(what, q, t) \in lost

\* Why an honest lookup of q between lo and hi may come back with $0.
ZeroExplained(q, lo, hi) ==
    UnpricedIn(q, lo, hi) \/ LostIn("fallback", q, lo, hi)

\* What the code does make sure of: a live $0, in the cache or in what an online
\* or uncached run was told, stems from a lookup that found the query and its
\* reference region unpriced, or whose request for the reference region failed;
\* nothing else turns a price into $0 (HTTPSource.Lookup under DiskCache).
ZerosExplained ==
    /\ \A q \in Queries :
          disk[q].src = "live" /\ disk[q].price = 0 =>
              ZeroExplained(q, disk[q].at - MaxLatency, disk[q].at)
    /\ \A r \in Runs, q \in Queries :
          Memoises(r) /\ result[r][q] = Live(0) =>
              ZeroExplained(q, runStart[r] - TTL - MaxLatency, clock)

\* Two mentions of one query in one online or uncached run get one answer,
\* errors included, however the upstream and the disk change (MemoCache).
MemoStable ==
    [][\A r \in Runs, q \in Queries :
          /\ Memoises(r) /\ mode'[r] = mode[r]
          /\ result[r][q] # NoResult
          => result'[r][q] = result[r][q]]_vars

\* "Estimate offline doesn't write the cache", and OfflineSource "serves prices
\* from a warmed on-disk cache": no price in the cache gives way to the Stub's
\* zero (DiskCache.Lookup over a Stub).
PricesNotStubbed ==
    [][\A q \in Queries : disk[q].price # 0 => disk'[q].src # "stub"]_vars

\* r's lookup is about to write the Stub's zero for q.
Stubs(r, q) ==
    \/ pc[r] = "offlineStore" /\ query[r] = q
    \/ pc[r] = "offlineRefStore" /\ Ref[query[r]] = q

\* What the code does make sure of, next to any other processes: an offline
\* lookup puts its zero over a price only if that price was written while the
\* lookup was under way, or the lookup was unable to read its row.
OnlyMissedPricesStubbed ==
    [][\A q \in Queries :
          disk[q].price # 0 /\ disk'[q].src = "stub" =>
              \E r \in Runs :
                  /\ Stubs(r, q)
                  /\ disk[q].at >= began[r] \/ LostIn("row", q, began[r], clock)]_vars

\* A lookup or sync unit that has begun ends.
LookupsEnd ==
    \A r \in Runs : pc[r] # "idle" ~> pc[r] = "idle"

\* The chains around the shared cache implement the oracle they stand for.
OracleSpec == Oracle!Spec
=============================================================================
