-------------------------- MODULE PriceCacheProofs --------------------------
(***************************************************************************)
(* Proofs about PriceCache, for every set of queries, runs and chains,     *)
(* every price history, TTL, latency bound and clock bound.                *)
(***************************************************************************)
EXTENDS PriceCache, TLAPS

-----------------------------------------------------------------------------
(* Quotes.                                                                 *)

\* A quote stays one in a wider window, and as time goes on: only the past of
\* the history up to hi matters to it.
LEMMA QuotedByWidens ==
    ASSUME NEW h, NEW h2, NEW q, NEW p,
           NEW lo \in Int, NEW hi \in Int, NEW lo2 \in Int, NEW hi2 \in Int,
           lo2 <= lo \/ lo2 <= 0, hi <= hi2,
           \A t \in Times : t <= hi => h2[t] = h[t],
           QuotedBy(h, q, p, lo, hi)
    PROVE  QuotedBy(h2, q, p, lo2, hi2)
<1>1. PICK t \in Times :
          /\ lo <= t /\ t <= hi
          /\ \/ h[t][q] = p
             \/ /\ h[t][Ref[q]] = p
                /\ \E t0 \in Times : lo <= t0 /\ t0 <= t /\ h[t0][q] = 0
  BY DEF QuotedBy
<1>2. t \in Int /\ 0 <= t /\ lo2 <= t /\ t <= hi2 /\ h2[t] = h[t]
  BY <1>1, TimeAssumption DEF Times
<1>3. CASE h[t][q] = p
  BY <1>2, <1>3 DEF QuotedBy
<1>4. CASE /\ h[t][Ref[q]] = p
           /\ \E t0 \in Times : lo <= t0 /\ t0 <= t /\ h[t0][q] = 0
  <2>1. PICK t0 \in Times : lo <= t0 /\ t0 <= t /\ h[t0][q] = 0
    BY <1>4
  <2>2. lo2 <= t0 /\ t0 <= t /\ h2[t0][q] = 0
    BY <1>1, <2>1, TimeAssumption DEF Times
  <2>3. QED
    BY <1>2, <1>4, <2>2 DEF QuotedBy
<1>5. QED
  BY <1>1, <1>3, <1>4

\* A query's own price, as quoted at time t, is a quote of any window around t.
LEMMA OwnQuote ==
    ASSUME NEW h, NEW q, NEW t \in Times, NEW lo \in Int, NEW hi \in Int,
           lo <= t, t <= hi
    PROVE  QuotedBy(h, q, h[t][q], lo, hi)
  BY DEF QuotedBy

\* Once the query has been seen unpriced, so is its reference region's price.
LEMMA ReferenceQuote ==
    ASSUME NEW h, NEW q, NEW t \in Times, NEW lo \in Int,
           QuotedBy(h, q, 0, lo, t), lo <= t
    PROVE  QuotedBy(h, q, h[t][Ref[q]], lo, t)
<1>1. \E t0 \in Times : lo <= t0 /\ t0 <= t /\ h[t0][q] = 0
  BY TimeAssumption DEF QuotedBy, Times
<1>2. QED
  BY <1>1, TimeAssumption DEF QuotedBy, Times

-----------------------------------------------------------------------------
(* Types.                                                                  *)

LEMMA Constants ==
    /\ 0 \in Times /\ Times \subseteq Int
    /\ 0 \in Prices /\ Prices \subseteq Int
    /\ AnyQuery \in Queries
    /\ \A q \in Queries : Ref[q] \in Queries
    /\ NoResult \in Values /\ StubZero \in Values
    /\ \A p \in Prices : Live(p) \in Values
    /\ Values \subseteq Results /\ Failed \in Results
    /\ NoRow \in Rows
    /\ \A v \in Values, t \in Times : Row(v, t) \in Rows
    /\ \A row \in Rows : Value(row) \in Values
    /\ NoEntries \in [Queries -> Prices]
    /\ NoResults \in [Queries -> Results]
  BY TimeAssumption, PriceAssumption, RefAssumption
  DEF Times, AnyQuery, NoResult, StubZero, Live, Values, Results, Failed,
      NoRow, Rows, Row, Value, NoEntries, NoResults

LEMMA CurrentPrice ==
    TypeOK => \A q \in Queries : Now(q) \in Prices
  BY DEF TypeOK, HistoryTypeOK, Now

\* Suspending a lookup and returning from one keep the lookup's types.
LEMMA SuspendTypes ==
    ASSUME TypeOK, NEW r \in Runs, NEW step \in Steps, NEW q \in Queries,
           NEW v \in Values, Suspend(r, step, q, v)
    PROVE  /\ pc' \in [Runs -> Steps]
           /\ query' \in [Runs -> Queries]
           /\ pending' \in [Runs -> Values]
  BY DEF TypeOK, Suspend

LEMMA IdleTypes ==
    ASSUME TypeOK, NEW r \in Runs, Idle(r)
    PROVE  /\ pc' \in [Runs -> Steps]
           /\ query' \in [Runs -> Queries]
           /\ pending' \in [Runs -> Values]
           /\ began' \in [Runs -> Times]
  BY Constants DEF TypeOK, Suspend, Idle, Steps

LEMMA ReturnTypes ==
    ASSUME TypeOK, NEW r \in Runs, NEW q \in Queries, NEW v \in Results,
           Return(r, q, v)
    PROVE  /\ pc' \in [Runs -> Steps]
           /\ query' \in [Runs -> Queries]
           /\ pending' \in [Runs -> Values]
           /\ began' \in [Runs -> Times]
           /\ result' \in [Runs -> [Queries -> Results]]
  BY IdleTypes DEF TypeOK, Return

LEMMA PersistTypes ==
    ASSUME TypeOK, NEW q \in Queries, NEW v \in Values,
           Persist(q, Row(v, clock)) \/ UNCHANGED disk
    PROVE  disk' \in [Queries -> Rows]
  BY Constants DEF TypeOK, HistoryTypeOK, Persist

\* What is lost is of the right kind.
LEMMA LostTypes ==
    ASSUME TypeOK, NEW q \in Queries
    PROVE  /\ Lose("fallback", q) => lost' \subseteq Losses
           /\ Miss(q) => lost' \subseteq Losses
<1>1. lost \subseteq Losses /\ clock \in Times
  BY DEF TypeOK, HistoryTypeOK
<1>2. Lost("fallback", q, clock) \in Losses /\ Lost("row", q, clock) \in Losses
  BY <1>1 DEF Lost, Losses
<1>3. QED
  BY <1>1, <1>2 DEF Lose, Miss

\* Every step writes values of the right kind.
LEMMA TypeOKStep == TypeOK /\ [Next]_vars => TypeOK'
<1> SUFFICES ASSUME TypeOK, [Next]_vars PROVE TypeOK'
  OBVIOUS
<1> USE Constants DEF TypeOK, HistoryTypeOK, past, history, runVars
<1>1. CASE UNCHANGED vars
  BY <1>1 DEF vars
<1>2. CASE Tick
  <2>1. clock' \in Times
    BY <1>2, TimeAssumption DEF Tick, AdvanceTime, Times
  <2>2. priceAt' \in [Times -> [Queries -> Prices]]
    BY <1>2, PriceAssumption DEF Tick, AdvanceTime
  <2>3. QED
    BY <1>2, <2>1, <2>2 DEF Tick
<1>3. CASE ClearCache
  BY <1>3 DEF ClearCache
<1>4. ASSUME NEW r \in Runs, RunStep(r) PROVE TypeOK'
  <2>1. ASSUME NEW m \in Modes, StartRun(r, m) PROVE TypeOK'
    BY <2>1 DEF StartRun
  <2>2. CASE EndRun(r)
    BY <2>2, IdleTypes DEF EndRun
  <2>3. ASSUME NEW q \in Queries, LookupHit(r, q) PROVE TypeOK'
    BY <2>3, ReturnTypes DEF LookupHit
  <2>4. ASSUME NEW q \in Queries, LookupMiss(r, q) PROVE TypeOK'
    BY <2>4, SuspendTypes DEF LookupMiss, Steps
  <2>5. ASSUME NEW q \in Queries, OfflineHit(r, q) PROVE TypeOK'
    <3>1. CASE Return(r, q, Value(disk[q]))
      BY <2>5, <3>1, ReturnTypes DEF OfflineHit
    <3>2. CASE /\ Suspend(r, "offlineRef", q, Value(disk[q]))
               /\ began' = [began EXCEPT ![r] = clock]
               /\ UNCHANGED result
      <4>1. "offlineRef" \in Steps
        BY DEF Steps
      <4>2. QED
        BY <2>5, <3>2, <4>1, SuspendTypes DEF OfflineHit
    <3>3. QED
      BY <2>5, <3>1, <3>2 DEF OfflineHit
  <2>6. ASSUME NEW q \in Queries, OfflineMiss(r, q) PROVE TypeOK'
    <3>1. lost' \subseteq Losses
      BY <2>6, LostTypes DEF OfflineMiss
    <3>2. QED
      BY <2>6, <3>1, SuspendTypes DEF OfflineMiss, Steps
  <2>7. ASSUME NEW q \in Queries, SyncPage(r, q) PROVE TypeOK'
    BY <2>7, CurrentPrice DEF SyncPage, Steps
  <2>8. CASE RegionalReply(r)
    <3>1. PICK step \in Steps :
             Suspend(r, step, query[r], Live(Now(query[r])))
      BY <2>8 DEF RegionalReply, Steps
    <3>2. QED
      BY <2>8, <3>1, CurrentPrice, SuspendTypes DEF RegionalReply
  <2>9. CASE RegionalFail(r)
    BY <2>9, ReturnTypes DEF RegionalFail
  <2>10. CASE ReferenceReply(r)
    <3>1. "store" \in Steps /\ Now(Ref[query[r]]) \in Prices
      BY CurrentPrice DEF Steps
    <3>2. QED
      BY <2>10, <3>1, SuspendTypes DEF ReferenceReply
  <2>11. CASE ReferenceFail(r)
    <3>1. lost' \subseteq Losses
      BY <2>11, LostTypes DEF ReferenceFail
    <3>2. QED
      BY <2>11, <3>1, SuspendTypes DEF ReferenceFail, Steps
  <2>12. CASE Store(r)
    BY <2>12, PersistTypes, ReturnTypes DEF Store
  <2>13. CASE OfflineStore(r)
    <3>1. disk' \in [Queries -> Rows]
      BY <2>13, PersistTypes DEF OfflineStore
    <3>2. CASE /\ Suspend(r, "offlineRef", query[r], pending[r])
               /\ UNCHANGED <<result, began>>
      <4>1. "offlineRef" \in Steps
        BY DEF Steps
      <4>2. QED
        BY <2>13, <3>1, <3>2, <4>1, SuspendTypes DEF OfflineStore
    <3>3. CASE Return(r, query[r], pending[r])
      BY <2>13, <3>1, <3>3, ReturnTypes DEF OfflineStore
    <3>4. QED
      BY <2>13, <3>2, <3>3 DEF OfflineStore
  <2>14. CASE OfflineRefHit(r)
    <3> DEFINE row == disk[Ref[query[r]]]
               v == IF row.price # 0 THEN Value(row) ELSE pending[r]
    <3>1. v \in Results
      OBVIOUS
    <3>2. /\ Return(r, query[r], v)
          /\ UNCHANGED <<clock, priceAt, lost, disk, mode, runStart, batch>>
      BY <2>14 DEF OfflineRefHit
    <3> HIDE DEF v
    <3>3. QED
      BY <3>1, <3>2, ReturnTypes
  <2>15. CASE OfflineRefMiss(r)
    <3>1. lost' \subseteq Losses
      BY <2>15, LostTypes DEF OfflineRefMiss
    <3>2. QED
      BY <2>15, <3>1, SuspendTypes DEF OfflineRefMiss, Steps
  <2>16. CASE OfflineRefStore(r)
    BY <2>16, PersistTypes, ReturnTypes DEF OfflineRefStore
  <2>17. CASE SyncCommit(r)
    <3>1. \A q \in Queries : Row(Live(batch[r][q]), clock) \in Rows
      OBVIOUS
    <3>2. disk' \in [Queries -> Rows]
      BY ONLY <2>17, <3>1, TypeOK DEF SyncCommit, TypeOK
    <3>3. QED
      BY <2>17, <3>2, IdleTypes DEF SyncCommit
  <2>18. CASE SyncFail(r)
    BY <2>18, IdleTypes DEF SyncFail
  <2>19. QED
    BY <1>4, <2>1, <2>2, <2>3, <2>4, <2>5, <2>6, <2>7, <2>8, <2>9, <2>10,
       <2>11, <2>12, <2>13, <2>14, <2>15, <2>16, <2>17, <2>18
    DEF RunStep, Resume
<1>5. QED
  BY <1>1, <1>2, <1>3, <1>4 DEF Next

\* PriceCache keeps every variable within its type.
THEOREM TypeCorrect == Spec => []TypeOK
<1>1. Init => TypeOK
  BY Constants, PriceAssumption
  DEF Init, HistoryInit, TypeOK, HistoryTypeOK, Steps
<1>2. QED
  BY <1>1, TypeOKStep, PTL DEF Spec

-----------------------------------------------------------------------------
(* The inductive invariant: RowsAreQuotes and AnswersAreQuotes speak of    *)
(* what lookups leave behind, InFlight of what they carry until then.      *)

\* Only offline lookups and upstream lookups write rows.
RowsLabelled ==
    \A q \in Queries : disk[q].src = "none" => disk[q] = NoRow

InFlight(r) ==
    /\ runStart[r] <= clock
    /\ mode[r] = "none" => pc[r] = "idle" /\ result[r] = NoResults
    /\ pc[r] # "idle" => began[r] <= clock /\ clock <= began[r] + MaxLatency
    /\ pc[r] \in {"regional", "reference", "store"} =>
          Memoises(r) /\ result[r][query[r]] = NoResult
    /\ pc[r] \in {"reference", "store"} =>
          /\ pending[r].src = "live"
          /\ QuotedIn(query[r], pending[r].price, began[r], clock)
    /\ pc[r] = "reference" => pending[r].price = 0
    /\ pc[r] \in {"offlineStore", "offlineRef", "offlineRefStore"} =>
          /\ mode[r] = "offline"
          /\ pending[r].price = 0 /\ pending[r].src # "none"
          /\ pending[r].src = "live" => QuotedIn(query[r], 0, 0, clock)
    /\ pc[r] = "enumerate" => mode[r] = "sync"
    /\ \A q \in Queries :
          batch[r][q] # 0 =>
             /\ pc[r] = "enumerate"
             /\ QuotedIn(q, batch[r][q], began[r], clock)

IInv ==
    /\ TypeOK
    /\ RowsAreQuotes
    /\ RowsLabelled
    /\ AnswersAreQuotes
    /\ \A r \in Runs : InFlight(r)

\* Time passing moves no quote out of its window.
LEMMA TickStep == IInv /\ Tick => IInv'
<1> SUFFICES ASSUME IInv, Tick PROVE IInv'
  OBVIOUS
<1>1. TypeOK'
  BY TypeOKStep DEF IInv, Next
<1>2. /\ clock' = clock + 1 /\ clock \in Int /\ MaxLatency \in Int /\ TTL \in Int
      /\ \A t \in Times : t <= clock => priceAt'[t] = priceAt[t]
      /\ UNCHANGED <<disk, runVars>>
  <2>1. clock \in Int /\ MaxLatency \in Int /\ TTL \in Int
    BY DurationAssumption, Constants DEF IInv, TypeOK, HistoryTypeOK
  <2>2. clock' = clock + 1 /\ UNCHANGED <<disk, runVars>>
    BY DEF Tick, AdvanceTime
  <2>3. ASSUME NEW t \in Times, t <= clock PROVE priceAt'[t] = priceAt[t]
    <3>1. t # clock + 1
      BY <2>1, <2>3, Constants
    <3>2. QED
      BY <3>1 DEF IInv, TypeOK, HistoryTypeOK, Tick, AdvanceTime
  <2>4. QED
    BY <2>1, <2>2, <2>3
<1>3. \A q, p, lo, hi : /\ lo \in Int /\ hi \in Int /\ hi <= clock
                        /\ QuotedIn(q, p, lo, hi)
                        => /\ QuotedBy(priceAt', q, p, lo, hi)
                           /\ hi = clock => QuotedBy(priceAt', q, p, lo, clock')
  <2> SUFFICES ASSUME NEW q, NEW p, NEW lo \in Int, NEW hi \in Int,
                      hi <= clock, QuotedBy(priceAt, q, p, lo, hi)
               PROVE  /\ QuotedBy(priceAt', q, p, lo, hi)
                      /\ QuotedBy(priceAt', q, p, lo, clock')
    BY DEF QuotedIn
  <2>1. \A t \in Times : t <= hi => priceAt'[t] = priceAt[t]
    BY <1>2, Constants
  <2>2. hi <= clock' /\ clock' \in Int
    BY <1>2
  <2>3. QED
    BY <2>1, <2>2, QuotedByWidens
<1>4. RowsAreQuotes'
  <2> SUFFICES ASSUME NEW q \in Queries
               PROVE  /\ disk'[q].at <= clock'
                      /\ disk'[q].src = "live" =>
                            QuotedBy(priceAt', q, disk'[q].price,
                                     disk'[q].at - MaxLatency, disk'[q].at)
                      /\ disk'[q].src # "live" => disk'[q].price = 0
    BY DEF RowsAreQuotes, QuotedIn
  <2>1. disk' = disk /\ disk[q].at \in Int /\ disk[q].at <= clock
    BY <1>2, Constants DEF IInv, RowsAreQuotes, TypeOK, Rows
  <2>2. QED
    BY <1>2, <1>3, <2>1 DEF IInv, RowsAreQuotes
<1>5. RowsLabelled'
  BY <1>2 DEF IInv, RowsLabelled
<1>6. AnswersAreQuotes'
  <2> SUFFICES ASSUME NEW r \in Runs, NEW q \in Queries, Memoises(r)',
                      result'[r][q].src = "live"
               PROVE  QuotedBy(priceAt', q, result'[r][q].price,
                               runStart'[r] - TTL - MaxLatency, clock')
    BY DEF AnswersAreQuotes, QuotedIn
  <2>1. UNCHANGED <<mode, result, runStart>> /\ runStart[r] \in Int
    BY <1>2, Constants DEF IInv, TypeOK, runVars
  <2>2. QED
    BY <1>2, <1>3, <2>1 DEF IInv, AnswersAreQuotes, Memoises
<1>7. ASSUME NEW r \in Runs PROVE InFlight(r)'
  <2>1. UNCHANGED <<mode, runStart, result, pc, query, pending, began, batch>>
    BY <1>2 DEF runVars
  <2>2. began[r] \in Int /\ runStart[r] \in Int
    BY Constants DEF IInv, TypeOK
  <2>3. pc[r] # "idle" => clock < began[r] + MaxLatency
    BY DEF Tick
  <2>4. InFlight(r)
    BY DEF IInv
  <2>5. \A q, p, lo : lo \in Int /\ QuotedIn(q, p, lo, clock)
                      => QuotedBy(priceAt', q, p, lo, clock')
    BY <1>2, <1>3
  <2>6. QED
    BY <1>2, <2>1, <2>2, <2>3, <2>4, <2>5 DEF InFlight, QuotedIn, Memoises
<1>8. QED
  BY <1>1, <1>4, <1>5, <1>6, <1>7 DEF IInv

\* What a step of run r leaves as it was for the other runs.
OthersKept(r) ==
    \A x \in Runs \ {r} :
        /\ mode'[x] = mode[x] /\ runStart'[x] = runStart[x]
        /\ result'[x] = result[x] /\ pc'[x] = pc[x]
        /\ query'[x] = query[x] /\ pending'[x] = pending[x]
        /\ began'[x] = began[x] /\ batch'[x] = batch[x]

\* A step of r that leaves the history alone keeps the invariant if it does so
\* for the rows, for r's answers and for what r carries.
LEMMA RunStepInv ==
    ASSUME IInv, TypeOK', NEW r \in Runs, UNCHANGED <<clock, priceAt>>,
           OthersKept(r), RowsAreQuotes', RowsLabelled', InFlight(r)',
           \A q \in Queries :
              Memoises(r)' /\ result'[r][q].src = "live" =>
                 QuotedBy(priceAt, q, result'[r][q].price,
                          runStart'[r] - TTL - MaxLatency, clock)
    PROVE  IInv'
<1>1. AnswersAreQuotes'
  <2> SUFFICES ASSUME NEW x \in Runs, NEW q \in Queries, Memoises(x)',
                      result'[x][q].src = "live"
               PROVE  QuotedBy(priceAt', q, result'[x][q].price,
                               runStart'[x] - TTL - MaxLatency, clock')
    BY DEF AnswersAreQuotes, QuotedIn
  <2>1. CASE x = r
    BY <2>1
  <2>2. CASE x # r
    BY <2>2 DEF OthersKept, IInv, AnswersAreQuotes, QuotedIn, Memoises
  <2>3. QED
    BY <2>1, <2>2
<1>2. ASSUME NEW x \in Runs PROVE InFlight(x)'
  <2>1. CASE x = r
    BY <2>1
  <2>2. CASE x # r
    BY <2>2 DEF OthersKept, IInv, InFlight, QuotedIn, Memoises
  <2>3. QED
    BY <2>1, <2>2
<1>3. QED
  BY <1>1, <1>2 DEF IInv

\* A row written now with a value quoted during the lookup is a good row.
LEMMA PersistInv ==
    ASSUME IInv, NEW q \in Queries, NEW v \in Values, NEW lo \in Int,
           UNCHANGED <<clock, priceAt>>,
           Persist(q, Row(v, clock)) \/ UNCHANGED disk,
           v.src # "none",
           v.src # "live" => v.price = 0,
           v.src = "live" => /\ QuotedIn(q, v.price, lo, clock)
                             /\ clock <= lo + MaxLatency
    PROVE  RowsAreQuotes' /\ RowsLabelled'
<1>1. CASE UNCHANGED disk
  BY <1>1 DEF IInv, RowsAreQuotes, RowsLabelled, QuotedIn
<1>2. CASE Persist(q, Row(v, clock))
  <2>1. clock \in Int /\ MaxLatency \in Int
    BY Constants, DurationAssumption DEF IInv, TypeOK, HistoryTypeOK
  <2>2. v.src = "live" =>
           QuotedBy(priceAt, q, v.price, clock - MaxLatency, clock)
    BY <2>1, QuotedByWidens DEF QuotedIn
  <2>3. /\ disk'[q] = [price |-> v.price, src |-> v.src, at |-> clock]
        /\ \A x \in Queries \ {q} : disk'[x] = disk[x]
    BY <1>2 DEF IInv, TypeOK, Persist, Row
  <2>4. RowsAreQuotes'
    <3> SUFFICES ASSUME NEW x \in Queries
                 PROVE  /\ disk'[x].at <= clock
                        /\ disk'[x].src = "live" =>
                              QuotedBy(priceAt, x, disk'[x].price,
                                       disk'[x].at - MaxLatency, disk'[x].at)
                        /\ disk'[x].src # "live" => disk'[x].price = 0
      BY DEF RowsAreQuotes, QuotedIn
    <3>1. CASE x = q
      BY <2>1, <2>2, <2>3, <3>1
    <3>2. CASE x # q
      BY <2>3, <3>2 DEF IInv, RowsAreQuotes, QuotedIn
    <3>3. QED
      BY <3>1, <3>2
  <2>5. RowsLabelled'
    BY <2>3 DEF IInv, RowsLabelled
  <2>6. QED
    BY <2>4, <2>5
<1>3. QED
  BY <1>1, <1>2

\* Steps that leave the disk alone leave its rows good.
LEMMA DiskKept ==
    IInv /\ UNCHANGED <<clock, priceAt, disk>> => RowsAreQuotes' /\ RowsLabelled'
  BY DEF IInv, RowsAreQuotes, RowsLabelled, QuotedIn

\* The facts about the numbers in play that every step's proof needs.
LEMMA Numbers ==
    ASSUME IInv, NEW r \in Runs
    PROVE  /\ clock \in Int /\ began[r] \in Int /\ runStart[r] \in Int
           /\ runStart[r] <= clock
           /\ TTL \in Int /\ TTL > 0 /\ MaxLatency \in Int /\ MaxLatency >= 0
           /\ \A q \in Queries : disk[q].at \in Int /\ disk[q] \in Rows
           /\ pending[r] \in Values /\ query[r] \in Queries
           /\ pc[r] \in Steps
<1>1. /\ clock \in Times /\ began[r] \in Times /\ runStart[r] \in Times
      /\ pending[r] \in Values /\ query[r] \in Queries /\ pc[r] \in Steps
  BY DEF IInv, TypeOK, HistoryTypeOK
<1>2. clock \in Int /\ began[r] \in Int /\ runStart[r] \in Int
  BY <1>1, Constants
<1>3. runStart[r] <= clock
  BY DEF IInv, InFlight
<1>4. TTL \in Int /\ TTL > 0 /\ MaxLatency \in Int /\ MaxLatency >= 0
  BY DurationAssumption
<1>5. \A q \in Queries : disk[q] \in Rows
  BY DEF IInv, TypeOK
<1>6. \A q \in Queries : disk[q].at \in Int
  BY <1>5, Constants DEF Rows
<1> QED
  BY <1>1, <1>2, <1>3, <1>4, <1>5, <1>6

\* Starting a run, or ending one at any step, keeps the invariant.
LEMMA StartRunInv ==
    ASSUME IInv, TypeOK', NEW r \in Runs, NEW m \in Modes, StartRun(r, m)
    PROVE  IInv'
<1>1. InFlight(r) /\ mode[r] = "none" /\ m \in AllModes
  BY ModeAssumption DEF IInv, StartRun
<1>2. /\ mode'[r] = m /\ runStart'[r] = clock /\ OthersKept(r)
      /\ UNCHANGED <<clock, priceAt, disk, result, pc, query, pending, began, batch>>
  BY DEF OthersKept, StartRun, IInv, TypeOK, past, history
<1>3. pc[r] = "idle" /\ result[r] = NoResults /\ clock \in Int /\ m # "none"
  BY <1>1, Numbers DEF InFlight, AllModes
<1>4. InFlight(r)'
  BY <1>1, <1>2, <1>3 DEF InFlight, QuotedIn
<1>5. \A q \in Queries : result'[r][q].src # "live"
  BY <1>2, <1>3 DEF NoResults, NoResult
<1>6. QED
  BY <1>2, <1>4, <1>5, DiskKept, RunStepInv

LEMMA EndRunInv ==
    ASSUME IInv, TypeOK', NEW r \in Runs, EndRun(r)
    PROVE  IInv'
<1>1. /\ mode'[r] = "none" /\ runStart'[r] = 0 /\ OthersKept(r)
      /\ result'[r] = NoResults /\ pc'[r] = "idle" /\ batch'[r] = NoEntries
      /\ UNCHANGED <<clock, priceAt, disk>>
  BY DEF OthersKept, EndRun, Idle, Suspend, IInv, TypeOK, past, history
<1>2. 0 <= clock
  BY DEF IInv, TypeOK, HistoryTypeOK, Times
<1>3. InFlight(r)'
  BY <1>1, <1>2 DEF InFlight, NoEntries
<1>4. \A q \in Queries : result'[r][q].src # "live"
  BY <1>1 DEF NoResults, NoResult
<1>5. QED
  BY <1>1, <1>3, <1>4, DiskKept, RunStepInv

-----------------------------------------------------------------------------
(* Online and uncached lookups.                                            *)

\* A lookup that goes on changes nothing but what it carries.
LEMMA SuspendKeeps ==
    ASSUME IInv, NEW r \in Runs, NEW step, NEW q, NEW v, Suspend(r, step, q, v)
    PROVE  /\ pc'[r] = step /\ query'[r] = q /\ pending'[r] = v
           /\ \A x \in Runs \ {r} : /\ pc'[x] = pc[x] /\ query'[x] = query[x]
                                    /\ pending'[x] = pending[x]
  BY DEF Suspend, IInv, TypeOK

\* A lookup that returns v for q.
LEMMA ReturnKeeps ==
    ASSUME IInv, NEW r \in Runs, NEW q \in Queries, NEW v, Return(r, q, v),
           UNCHANGED <<mode, runStart, batch>>
    PROVE  /\ pc'[r] = "idle" /\ result'[r][q] = v
           /\ \A y \in Queries \ {q} : result'[r][y] = result[r][y]
           /\ OthersKept(r)
  BY DEF Return, Idle, Suspend, OthersKept, IInv, TypeOK

\* A run whose lookup returns a value, with a sound source, is left idle and
\* sound: nothing is in flight any more.
LEMMA ReturnInFlight ==
    ASSUME IInv, NEW r \in Runs, NEW q \in Queries, NEW v,
           pc[r] # "enumerate", mode[r] # "none",
           Return(r, q, v), UNCHANGED <<clock, mode, runStart, batch>>
    PROVE  InFlight(r)'
<1>1. InFlight(r) /\ pc'[r] = "idle"
  BY ReturnKeeps DEF IInv
<1>2. QED
  BY <1>1 DEF InFlight

LEMMA LookupHitInv ==
    ASSUME IInv, TypeOK', NEW r \in Runs, NEW q \in Queries, LookupHit(r, q)
    PROVE  IInv'
<1>1. /\ Memoises(r) /\ mode[r] = "online" /\ pc[r] = "idle"
      /\ clock - disk[q].at <= TTL
      /\ Return(r, q, Value(disk[q]))
      /\ UNCHANGED <<clock, priceAt, disk, mode, runStart, batch>>
  BY DEF LookupHit, MemoMiss, Fresh, past, history
<1>2. InFlight(r)'
  BY <1>1, ReturnInFlight
<1>3. ASSUME NEW y \in Queries, result'[r][y].src = "live"
      PROVE  QuotedBy(priceAt, y, result'[r][y].price,
                      runStart'[r] - TTL - MaxLatency, clock)
  <2>1. CASE y = q
    <3>1. /\ disk[q].src = "live" /\ result'[r][q].price = disk[q].price
      BY <1>1, <1>3, <2>1, ReturnKeeps DEF Value
    <3>2. /\ disk[q].at <= clock
          /\ QuotedBy(priceAt, q, disk[q].price,
                      disk[q].at - MaxLatency, disk[q].at)
      BY <3>1 DEF IInv, RowsAreQuotes, QuotedIn
    <3>3. runStart[r] - TTL - MaxLatency <= disk[q].at - MaxLatency
      BY <1>1, Numbers
    <3>4. QED
      BY <1>1, <2>1, <3>1, <3>2, <3>3, Numbers, QuotedByWidens
  <2>2. CASE y # q
    BY <1>1, <1>3, <2>2, ReturnKeeps DEF IInv, AnswersAreQuotes, QuotedIn
  <2>3. QED
    BY <2>1, <2>2
<1>4. QED
  BY <1>1, <1>2, <1>3, ReturnKeeps, DiskKept, RunStepInv

\* An answer of r that does not change stays within r's window.
LEMMA AnswersKept ==
    ASSUME IInv, NEW r \in Runs, UNCHANGED <<mode, runStart>>,
           NEW y \in Queries, result'[r][y] = result[r][y],
           Memoises(r)', result'[r][y].src = "live"
    PROVE  QuotedBy(priceAt, y, result'[r][y].price,
                    runStart'[r] - TTL - MaxLatency, clock)
  BY DEF IInv, AnswersAreQuotes, QuotedIn, Memoises

LEMMA LookupMissInv ==
    ASSUME IInv, TypeOK', NEW r \in Runs, NEW q \in Queries, LookupMiss(r, q)
    PROVE  IInv'
<1>1. /\ Memoises(r) /\ pc[r] = "idle" /\ result[r][q] = NoResult
      /\ Suspend(r, "regional", q, NoResult)
      /\ began'[r] = clock
      /\ \A x \in Runs \ {r} : began'[x] = began[x]
      /\ UNCHANGED <<clock, priceAt, disk, mode, runStart, result, batch>>
  BY DEF LookupMiss, MemoMiss, past, history, IInv, TypeOK
<1>2. OthersKept(r)
  BY <1>1, SuspendKeeps DEF OthersKept
<1>3. InFlight(r)'
  <2>1. InFlight(r) /\ pc'[r] = "regional" /\ query'[r] = q
    BY <1>1, SuspendKeeps DEF IInv
  <2>2. clock <= clock + MaxLatency /\ clock <= clock
    BY Numbers
  <2>3. QED
    BY <1>1, <2>1, <2>2 DEF InFlight, Memoises
<1>4. QED
  BY <1>1, <1>2, <1>3, AnswersKept, DiskKept, RunStepInv

\* A step of a lookup in flight that changes only its pc and pending value.
LEMMA SuspendInv ==
    ASSUME IInv, TypeOK', NEW r \in Runs, NEW step \in Steps, NEW v,
           Suspend(r, step, query[r], v), InFlight(r)',
           UNCHANGED <<clock, priceAt, disk, mode, runStart, result, began, batch>>
    PROVE  IInv'
<1>1. OthersKept(r)
  BY SuspendKeeps DEF OthersKept
<1>2. QED
  BY <1>1, AnswersKept, DiskKept, RunStepInv

LEMMA RegionalReplyInv ==
    ASSUME IInv, TypeOK', NEW r \in Runs, RegionalReply(r)
    PROVE  IInv'
<1> DEFINE q == query[r]
           step == IF Now(q) = 0 /\ HasFallback(q) THEN "reference" ELSE "store"
<1>1. /\ pc[r] = "regional" /\ Suspend(r, step, q, Live(Now(q)))
      /\ UNCHANGED <<clock, priceAt, disk, mode, runStart, result, began, batch>>
  BY DEF RegionalReply, past, history
<1>2. InFlight(r) /\ q \in Queries /\ step \in Steps
  BY Numbers DEF IInv, Steps
<1>3. QuotedBy(priceAt, q, Now(q), began[r], clock)
  <2>1. clock \in Times /\ began[r] <= clock
    BY <1>1, <1>2 DEF IInv, TypeOK, HistoryTypeOK, InFlight
  <2>2. QED
    BY <2>1, Numbers, OwnQuote DEF Now
<1>4. /\ pc'[r] = step /\ query'[r] = q
      /\ pending'[r].src = "live" /\ pending'[r].price = Now(q)
  BY <1>1, SuspendKeeps DEF Live
<1>5. InFlight(r)'
  <2>1. batch'[r] = batch[r] /\ \A y \in Queries : batch[r][y] = 0
    BY <1>1, <1>2 DEF InFlight
  <2>2. step = "reference" => Now(q) = 0
    OBVIOUS
  <2> HIDE DEF step
  <2>3. step \in {"reference", "store"}
    BY DEF step
  <2>4. QED
    BY <1>1, <1>2, <1>3, <1>4, <2>1, <2>2, <2>3
    DEF InFlight, Memoises, QuotedIn
<1>6. QED
  BY <1>1, <1>2, <1>5, SuspendInv

LEMMA ReferenceReplyInv ==
    ASSUME IInv, TypeOK', NEW r \in Runs, ReferenceReply(r)
    PROVE  IInv'
<1> DEFINE q == query[r]
           p == Now(Ref[q])
<1>1. /\ pc[r] = "reference" /\ Suspend(r, "store", q, Live(p))
      /\ UNCHANGED <<clock, priceAt, disk, mode, runStart, result, began, batch>>
  BY DEF ReferenceReply, past, history
<1>2. InFlight(r) /\ q \in Queries /\ "store" \in Steps
  BY Numbers DEF IInv, Steps
<1>3. QuotedBy(priceAt, q, p, began[r], clock)
  <2>1. /\ clock \in Times /\ began[r] <= clock
        /\ QuotedBy(priceAt, q, 0, began[r], clock)
    BY <1>1, <1>2 DEF IInv, TypeOK, HistoryTypeOK, InFlight, QuotedIn
  <2>2. QED
    BY <2>1, Numbers, ReferenceQuote DEF Now
<1>4. /\ pc'[r] = "store" /\ query'[r] = q
      /\ pending'[r].src = "live" /\ pending'[r].price = p
  BY <1>1, SuspendKeeps DEF Live
<1>5. InFlight(r)'
  BY <1>1, <1>2, <1>3, <1>4 DEF InFlight, Memoises, QuotedIn
<1>6. QED
  BY <1>1, <1>2, <1>5, SuspendInv

LEMMA ReferenceFailInv ==
    ASSUME IInv, TypeOK', NEW r \in Runs, ReferenceFail(r)
    PROVE  IInv'
<1>1. /\ pc[r] = "reference" /\ Suspend(r, "store", query[r], pending[r])
      /\ UNCHANGED <<clock, priceAt, disk, mode, runStart, result, began, batch>>
  BY DEF ReferenceFail, past, history
<1>2. InFlight(r) /\ "store" \in Steps
  BY DEF IInv, Steps
<1>3. InFlight(r)'
  BY <1>1, <1>2, SuspendKeeps DEF InFlight, Memoises, QuotedIn
<1>4. QED
  BY <1>1, <1>2, <1>3, SuspendInv

\* A lookup of q returns v: v may be a live price of a memoising run only if it
\* was quoted within the run's window.
LEMMA ReturnInv ==
    ASSUME IInv, TypeOK', NEW r \in Runs, NEW q \in Queries, NEW v,
           pc[r] # "enumerate", mode[r] # "none", Return(r, q, v),
           UNCHANGED <<clock, priceAt, mode, runStart, batch>>,
           RowsAreQuotes', RowsLabelled',
           Memoises(r) /\ v.src = "live" =>
              QuotedBy(priceAt, q, v.price, runStart[r] - TTL - MaxLatency, clock)
    PROVE  IInv'
<1>1. InFlight(r)'
  BY ReturnInFlight
<1>2. ASSUME NEW y \in Queries, Memoises(r)', result'[r][y].src = "live"
      PROVE  QuotedBy(priceAt, y, result'[r][y].price,
                      runStart'[r] - TTL - MaxLatency, clock)
  <2>1. CASE y = q
    BY <1>2, <2>1, ReturnKeeps DEF Memoises
  <2>2. CASE y # q
    BY <1>2, <2>2, ReturnKeeps, AnswersKept
  <2>3. QED
    BY <2>1, <2>2
<1>3. QED
  BY <1>1, <1>2, ReturnKeeps, RunStepInv

LEMMA RegionalFailInv ==
    ASSUME IInv, TypeOK', NEW r \in Runs, RegionalFail(r)
    PROVE  IInv'
<1>1. /\ pc[r] = "regional" /\ Return(r, query[r], Failed)
      /\ UNCHANGED <<clock, priceAt, disk, mode, runStart, batch>>
  BY DEF RegionalFail, past, history
<1>2. mode[r] # "none" /\ query[r] \in Queries /\ Failed.src # "live"
  BY <1>1, Numbers DEF IInv, InFlight, Memoises, Failed
<1>3. QED
  BY <1>1, <1>2, DiskKept, ReturnInv

LEMMA StoreInv ==
    ASSUME IInv, TypeOK', NEW r \in Runs, Store(r)
    PROVE  IInv'
<1> DEFINE q == query[r]
           v == pending[r]
<1>1. /\ pc[r] = "store" /\ Return(r, q, v)
      /\ Persist(q, Row(v, clock)) \/ UNCHANGED disk
      /\ UNCHANGED <<clock, priceAt, mode, runStart, batch>>
  BY DEF Store, past, history
<1>2. /\ q \in Queries /\ v \in Values /\ v.src = "live"
      /\ mode[r] # "none" /\ Memoises(r)
      /\ QuotedIn(q, v.price, began[r], clock)
      /\ clock <= began[r] + MaxLatency
  BY <1>1, Numbers DEF IInv, InFlight, Memoises
<1>3. RowsAreQuotes' /\ RowsLabelled'
  BY <1>1, <1>2, Numbers, PersistInv
<1>4. QuotedBy(priceAt, q, v.price, runStart[r] - TTL - MaxLatency, clock)
  <2>1. runStart[r] - TTL - MaxLatency <= began[r]
    BY <1>2, Numbers
  <2>2. QED
    BY <1>2, <2>1, Numbers, QuotedByWidens DEF QuotedIn
<1>5. QED
  BY <1>1, <1>2, <1>3, <1>4, ReturnInv

-----------------------------------------------------------------------------
(* Offline lookups, sync and clear.                                        *)

LEMMA OfflineHitInv ==
    ASSUME IInv, TypeOK', NEW r \in Runs, NEW q \in Queries, OfflineHit(r, q)
    PROVE  IInv'
<1>1. /\ mode[r] = "offline" /\ pc[r] = "idle" /\ disk[q] # NoRow
      /\ UNCHANGED <<clock, priceAt, disk, mode, runStart, batch>>
      /\ \/ Return(r, q, Value(disk[q]))
         \/ /\ disk[q].price = 0
            /\ Suspend(r, "offlineRef", q, Value(disk[q]))
            /\ began' = [began EXCEPT ![r] = clock]
            /\ UNCHANGED result
  BY DEF OfflineHit, Present, past, history
<1>2. CASE Return(r, q, Value(disk[q]))
  BY <1>1, <1>2, DiskKept, ReturnInv DEF Memoises
<1>3. CASE /\ disk[q].price = 0
           /\ Suspend(r, "offlineRef", q, Value(disk[q]))
           /\ began' = [began EXCEPT ![r] = clock]
           /\ UNCHANGED result
  <2>1. /\ began'[r] = clock /\ OthersKept(r)
        /\ pc'[r] = "offlineRef" /\ query'[r] = q
        /\ pending'[r] = Value(disk[q])
    BY <1>1, <1>3, SuspendKeeps DEF OthersKept, IInv, TypeOK
  <2>2. pending'[r].price = 0 /\ pending'[r].src = disk[q].src
    BY <1>3, <2>1 DEF Value
  <2>3. disk[q].src # "none"
    BY <1>1 DEF IInv, RowsLabelled
  <2>4. disk[q].src = "live" => QuotedBy(priceAt, q, 0, 0, clock)
    <3>1. /\ disk[q].at <= clock
          /\ disk[q].src = "live" => QuotedBy(priceAt, q, 0,
                                        disk[q].at - MaxLatency, disk[q].at)
      BY <1>3 DEF IInv, RowsAreQuotes, QuotedIn
    <3>2. QED
      BY <3>1, Numbers, QuotedByWidens
  <2>5. InFlight(r)'
    <3>1. InFlight(r) /\ clock <= clock + MaxLatency /\ clock <= clock
      BY Numbers DEF IInv
    <3>2. QED
      BY <1>1, <1>3, <2>1, <2>2, <2>3, <2>4, <3>1 DEF InFlight, QuotedIn
  <2>6. QED
    BY <1>1, <1>3, <2>1, <2>5, AnswersKept, DiskKept, RunStepInv
<1>4. QED
  BY <1>1, <1>2, <1>3

LEMMA OfflineMissInv ==
    ASSUME IInv, TypeOK', NEW r \in Runs, NEW q \in Queries, OfflineMiss(r, q)
    PROVE  IInv'
<1>1. /\ mode[r] = "offline" /\ pc[r] = "idle"
      /\ UNCHANGED <<clock, priceAt, disk, mode, runStart, result, batch>>
      /\ Suspend(r, "offlineStore", q, StubZero)
      /\ began'[r] = clock /\ \A x \in Runs \ {r} : began'[x] = began[x]
  BY DEF OfflineMiss, past, history, IInv, TypeOK
<1>2. /\ OthersKept(r) /\ pc'[r] = "offlineStore"
      /\ pending'[r].price = 0 /\ pending'[r].src = "stub"
  BY <1>1, SuspendKeeps DEF OthersKept, StubZero
<1>3. InFlight(r)'
  <2>1. InFlight(r) /\ clock <= clock + MaxLatency /\ clock <= clock
    BY Numbers DEF IInv
  <2>2. QED
    BY <1>1, <1>2, <2>1 DEF InFlight
<1>4. QED
  BY <1>1, <1>2, <1>3, AnswersKept, DiskKept, RunStepInv
\* The Stub's zero is written over a row, or the write fails.
LEMMA StubRowInv ==
    ASSUME IInv, NEW q \in Queries, UNCHANGED <<clock, priceAt>>,
           Persist(q, Row(StubZero, clock)) \/ UNCHANGED disk
    PROVE  RowsAreQuotes' /\ RowsLabelled'
<1>1. StubZero \in Values /\ StubZero.src = "stub" /\ StubZero.price = 0
  BY Constants DEF StubZero
<1>2. clock \in Int
  BY Constants DEF IInv, TypeOK, HistoryTypeOK
<1>3. QED
  BY <1>1, <1>2, PersistInv

LEMMA OfflineStoreInv ==
    ASSUME IInv, TypeOK', NEW r \in Runs, OfflineStore(r)
    PROVE  IInv'
<1>1. /\ pc[r] = "offlineStore"
      /\ Persist(query[r], Row(StubZero, clock)) \/ UNCHANGED disk
      /\ \/ Return(r, query[r], pending[r])
         \/ /\ Suspend(r, "offlineRef", query[r], pending[r])
            /\ UNCHANGED <<result, began>>
      /\ UNCHANGED <<clock, priceAt, mode, runStart, batch>>
  BY DEF OfflineStore, past, history
<1>2. InFlight(r) /\ mode[r] = "offline" /\ query[r] \in Queries
  BY <1>1, Numbers DEF IInv, InFlight
<1>3. RowsAreQuotes' /\ RowsLabelled'
  BY <1>1, <1>2, StubRowInv
<1>4. CASE Return(r, query[r], pending[r])
  BY <1>1, <1>2, <1>3, <1>4, ReturnInv DEF Memoises
<1>5. CASE /\ Suspend(r, "offlineRef", query[r], pending[r])
           /\ UNCHANGED <<result, began>>
  <2>1. InFlight(r)'
    BY <1>1, <1>2, <1>5, SuspendKeeps DEF InFlight, QuotedIn
  <2>2. OthersKept(r)
    BY <1>1, <1>5, SuspendKeeps DEF OthersKept
  <2>3. QED
    BY <1>1, <1>3, <1>5, <2>1, <2>2, AnswersKept, RunStepInv
<1>6. QED
  BY <1>1, <1>4, <1>5

LEMMA OfflineRefHitInv ==
    ASSUME IInv, TypeOK', NEW r \in Runs, OfflineRefHit(r)
    PROVE  IInv'
<1> DEFINE row == disk[Ref[query[r]]]
           v == IF row.price # 0 THEN Value(row) ELSE pending[r]
<1>1. /\ pc[r] = "offlineRef" /\ Return(r, query[r], v)
      /\ UNCHANGED <<clock, priceAt, disk, mode, runStart, batch>>
  BY DEF OfflineRefHit, past, history
<1>2. mode[r] = "offline" /\ query[r] \in Queries
  BY <1>1, Numbers DEF IInv, InFlight
<1> HIDE DEF v
<1>3. QED
  BY <1>1, <1>2, DiskKept, ReturnInv DEF Memoises

LEMMA OfflineRefMissInv ==
    ASSUME IInv, TypeOK', NEW r \in Runs, OfflineRefMiss(r)
    PROVE  IInv'
<1>1. /\ pc[r] = "offlineRef"
      /\ Suspend(r, "offlineRefStore", query[r], pending[r])
      /\ UNCHANGED <<clock, priceAt, disk, mode, runStart, result, began, batch>>
  BY DEF OfflineRefMiss, past, history
<1>2. InFlight(r) /\ "offlineRefStore" \in Steps
  BY DEF IInv, Steps
<1>3. InFlight(r)'
  BY <1>1, <1>2, SuspendKeeps DEF InFlight, QuotedIn
<1>4. QED
  BY <1>1, <1>2, <1>3, SuspendInv

LEMMA OfflineRefStoreInv ==
    ASSUME IInv, TypeOK', NEW r \in Runs, OfflineRefStore(r)
    PROVE  IInv'
<1>1. /\ pc[r] = "offlineRefStore"
      /\ Persist(Ref[query[r]], Row(StubZero, clock)) \/ UNCHANGED disk
      /\ Return(r, query[r], pending[r])
      /\ UNCHANGED <<clock, priceAt, mode, runStart, batch>>
  BY DEF OfflineRefStore, past, history
<1>2. /\ mode[r] = "offline" /\ query[r] \in Queries
      /\ Ref[query[r]] \in Queries
  BY <1>1, Numbers, Constants DEF IInv, InFlight
<1>3. RowsAreQuotes' /\ RowsLabelled'
  BY <1>1, <1>2, StubRowInv
<1>4. QED
  BY <1>1, <1>2, <1>3, ReturnInv DEF Memoises

\* A page that arrives now adds a quote of now to the batch.
LEMMA SyncPageInv ==
    ASSUME IInv, TypeOK', NEW r \in Runs, NEW q \in Queries, SyncPage(r, q)
    PROVE  IInv'
<1> DEFINE start == IF pc[r] = "idle" THEN clock ELSE began[r]
<1>1. /\ mode[r] = "sync" /\ pc[r] \in {"idle", "enumerate"}
      /\ batch'[r][q] = Now(q)
      /\ \A y \in Queries \ {q} : batch'[r][y] = batch[r][y]
      /\ pc'[r] = "enumerate" /\ began'[r] = start
      /\ OthersKept(r)
      /\ UNCHANGED <<clock, priceAt, disk, mode, runStart, result, query, pending>>
  BY DEF SyncPage, OthersKept, past, history, IInv, TypeOK
<1>2. InFlight(r)
  BY DEF IInv
<1>3. start \in Int /\ start <= clock /\ clock <= start + MaxLatency
  BY <1>1, <1>2, Numbers DEF InFlight
<1>4. QuotedBy(priceAt, q, Now(q), start, clock)
  BY <1>3, Numbers, OwnQuote DEF Now, IInv, TypeOK, HistoryTypeOK
<1>5. \A y \in Queries : batch[r][y] # 0 =>
         QuotedBy(priceAt, y, batch[r][y], start, clock)
  BY <1>1, <1>2 DEF InFlight, QuotedIn
<1> HIDE DEF start
<1>6. \A y \in Queries : batch'[r][y] # 0 =>
         QuotedBy(priceAt, y, batch'[r][y], start, clock)
  BY <1>1, <1>4, <1>5
<1>7. InFlight(r)'
  BY <1>1, <1>2, <1>3, <1>6 DEF InFlight, QuotedIn
<1>8. QED
  BY <1>1, <1>7, AnswersKept, DiskKept, RunStepInv

\* A sync run is left idle with an empty batch.
LEMMA UnitDone ==
    ASSUME IInv, NEW r \in Runs, pc[r] = "enumerate",
           batch' = [batch EXCEPT ![r] = NoEntries], Idle(r),
           UNCHANGED <<clock, priceAt, mode, runStart, result>>
    PROVE  OthersKept(r) /\ InFlight(r)'
<1>1. /\ OthersKept(r) /\ pc'[r] = "idle" /\ batch'[r] = NoEntries
  BY DEF OthersKept, Idle, Suspend, IInv, TypeOK
<1>2. InFlight(r) /\ mode[r] = "sync" /\ "sync" # "none"
  BY DEF IInv, InFlight
<1>3. QED
  BY <1>1, <1>2 DEF InFlight, NoEntries

LEMMA SyncFailInv ==
    ASSUME IInv, TypeOK', NEW r \in Runs, SyncFail(r)
    PROVE  IInv'
<1>1. /\ pc[r] = "enumerate" /\ Idle(r)
      /\ batch' = [batch EXCEPT ![r] = NoEntries]
      /\ UNCHANGED <<clock, priceAt, disk, mode, runStart, result>>
  BY DEF SyncFail, past, history
<1>2. QED
  BY <1>1, UnitDone, AnswersKept, DiskKept, RunStepInv

\* The rows a unit commits were quoted since the unit began.
LEMMA SyncCommitInv ==
    ASSUME IInv, TypeOK', NEW r \in Runs, SyncCommit(r)
    PROVE  IInv'
<1>1. /\ pc[r] = "enumerate" /\ Idle(r)
      /\ batch' = [batch EXCEPT ![r] = NoEntries]
      /\ \/ disk' = [q \in Queries |->
                       IF batch[r][q] = 0 THEN disk[q]
                                          ELSE Row(Live(batch[r][q]), clock)]
         \/ UNCHANGED disk
      /\ UNCHANGED <<clock, priceAt, mode, runStart, result>>
  BY DEF SyncCommit, past, history
<1>2. CASE UNCHANGED disk
  BY <1>1, <1>2, UnitDone, AnswersKept, DiskKept, RunStepInv
<1>3. CASE disk' = [q \in Queries |->
                       IF batch[r][q] = 0 THEN disk[q]
                                          ELSE Row(Live(batch[r][q]), clock)]
  <2>1. ASSUME NEW q \in Queries
        PROVE  /\ disk'[q].at <= clock
               /\ disk'[q].src = "live" =>
                     QuotedBy(priceAt, q, disk'[q].price,
                              disk'[q].at - MaxLatency, disk'[q].at)
               /\ disk'[q].src # "live" => disk'[q].price = 0
               /\ disk'[q].src = "none" => disk'[q] = NoRow
    <3>1. CASE batch[r][q] = 0
      BY <1>3, <3>1 DEF IInv, RowsAreQuotes, RowsLabelled, QuotedIn
    <3>2. CASE batch[r][q] # 0
      <4>1. /\ disk'[q].at = clock /\ disk'[q].src = "live"
            /\ disk'[q].price = batch[r][q]
        BY <1>3, <3>2 DEF Row, Live
      <4>2. /\ QuotedBy(priceAt, q, batch[r][q], began[r], clock)
            /\ clock <= began[r] + MaxLatency
        BY <1>1, <3>2 DEF IInv, InFlight, QuotedIn
      <4>3. QuotedBy(priceAt, q, batch[r][q], clock - MaxLatency, clock)
        BY <4>2, Numbers, QuotedByWidens
      <4>4. QED
        BY <4>1, <4>3, Numbers
    <3>3. QED
      BY <3>1, <3>2
  <2>2. RowsAreQuotes' /\ RowsLabelled'
    BY <1>1, <2>1 DEF RowsAreQuotes, RowsLabelled, QuotedIn
  <2>3. QED
    BY <1>1, <2>2, UnitDone, AnswersKept, RunStepInv
<1>4. QED
  BY <1>1, <1>2, <1>3

\* An empty cache holds no wrong row.
LEMMA ClearCacheInv ==
    ASSUME IInv, TypeOK', ClearCache
    PROVE  IInv'
<1>1. /\ disk' = [q \in Queries |-> NoRow]
      /\ UNCHANGED <<clock, priceAt, mode, runStart, result, pc, query, pending,
                     began, batch>>
  BY DEF ClearCache, past, history, runVars
<1>2. RowsAreQuotes' /\ RowsLabelled'
  <2>1. 0 <= clock
    BY DEF IInv, TypeOK, HistoryTypeOK, Times
  <2>2. QED
    BY <1>1, <2>1 DEF RowsAreQuotes, RowsLabelled, NoRow
<1>3. AnswersAreQuotes' /\ \A r \in Runs : InFlight(r)'
  BY <1>1 DEF IInv, AnswersAreQuotes, InFlight, Memoises, QuotedIn
<1>4. QED
  BY <1>2, <1>3 DEF IInv

-----------------------------------------------------------------------------
(* The invariance theorems.                                                *)

LEMMA IInvStep == IInv /\ [Next]_vars => IInv'
<1> SUFFICES ASSUME IInv, [Next]_vars PROVE IInv'
  OBVIOUS
<1>1. TypeOK'
  BY TypeOKStep DEF IInv
<1>2. CASE UNCHANGED vars
  <2>1. /\ UNCHANGED <<clock, priceAt, disk, mode, runStart, result>>
        /\ UNCHANGED <<pc, query, pending, began, batch>>
    BY <1>2 DEF vars, past, history, runVars
  <2>2. RowsAreQuotes' /\ RowsLabelled' /\ AnswersAreQuotes'
    BY <2>1 DEF IInv, RowsAreQuotes, RowsLabelled, AnswersAreQuotes, Memoises,
       QuotedIn
  <2>3. \A r \in Runs : InFlight(r)'
    BY <2>1 DEF IInv, InFlight, Memoises, QuotedIn
  <2>4. QED
    BY <1>1, <2>2, <2>3 DEF IInv
<1>3. CASE Tick
  BY <1>3, TickStep
<1>4. CASE ClearCache
  BY <1>1, <1>4, ClearCacheInv
<1>5. ASSUME NEW r \in Runs, RunStep(r) PROVE IInv'
  <2>1. ASSUME NEW m \in Modes, StartRun(r, m) PROVE IInv'
    BY <1>1, <2>1, StartRunInv
  <2>2. CASE EndRun(r)
    BY <1>1, <2>2, EndRunInv
  <2>3. ASSUME NEW q \in Queries, LookupHit(r, q) \/ LookupMiss(r, q)
        PROVE IInv'
    BY <1>1, <2>3, LookupHitInv, LookupMissInv
  <2>4. ASSUME NEW q \in Queries, OfflineHit(r, q) \/ OfflineMiss(r, q)
        PROVE IInv'
    BY <1>1, <2>4, OfflineHitInv, OfflineMissInv
  <2>5. ASSUME NEW q \in Queries, SyncPage(r, q) PROVE IInv'
    BY <1>1, <2>5, SyncPageInv
  <2>6. CASE Resume(r)
    BY <1>1, <2>6, RegionalReplyInv, RegionalFailInv, ReferenceReplyInv,
       ReferenceFailInv, StoreInv, OfflineStoreInv, OfflineRefHitInv,
       OfflineRefMissInv, OfflineRefStoreInv, SyncCommitInv, SyncFailInv
    DEF Resume
  <2>7. QED
    BY <1>5, <2>1, <2>2, <2>3, <2>4, <2>5, <2>6 DEF RunStep
<1>6. QED
  BY <1>2, <1>3, <1>4, <1>5 DEF Next

LEMMA IInvInit == Init => IInv
<1> SUFFICES ASSUME Init PROVE IInv
  OBVIOUS
<1>1. TypeOK
  BY Constants, PriceAssumption
  DEF Init, HistoryInit, TypeOK, HistoryTypeOK, Steps
<1>2. RowsAreQuotes /\ RowsLabelled
  BY DEF Init, HistoryInit, RowsAreQuotes, RowsLabelled, NoRow
<1>3. AnswersAreQuotes
  BY DEF Init, AnswersAreQuotes, Memoises
<1>4. \A r \in Runs : InFlight(r)
  BY DEF Init, HistoryInit, InFlight, NoEntries
<1>5. QED
  BY <1>1, <1>2, <1>3, <1>4 DEF IInv

LEMMA IInvAlways == Spec => []IInv
  BY IInvInit, IInvStep, PTL DEF Spec

\* Every row of the shared cache is a real, recent quote for its own query,
\* however many processes write the cache and wherever they stop.
THEOREM RowsCorrect == Spec => []RowsAreQuotes
<1>1. IInv => RowsAreQuotes
  BY DEF IInv
<1>2. QED
  BY <1>1, IInvAlways, PTL

\* No online or uncached run ever shows a live price older than TTL plus one
\* lookup before it began.
THEOREM AnswersCorrect == Spec => []AnswersAreQuotes
<1>1. IInv => AnswersAreQuotes
  BY DEF IInv
<1>2. QED
  BY <1>1, IInvAlways, PTL

-----------------------------------------------------------------------------
(* What a step does to the answers of the runs.                            *)

\* A step of r leaves every answer alone, or returns one value for one query:
\* a memoising run only one it has not answered.
AnswersOneQuery(r) ==
    \/ UNCHANGED result
    \/ \E q \in Queries, v \in Results :
          /\ result' = [result EXCEPT ![r][q] = v]
          /\ Memoises(r) => result[r][q] = NoResult

MemoStep ==
    \A r \in Runs, q \in Queries :
        /\ Memoises(r) /\ mode'[r] = mode[r]
        /\ result[r][q] # NoResult
        => result'[r][q] = result[r][q]

LEMMA OneAnswerIsStable ==
    ASSUME IInv, NEW r \in Runs, AnswersOneQuery(r)
    PROVE  MemoStep
<1> SUFFICES ASSUME NEW x \in Runs, NEW y \in Queries, Memoises(x),
                    result[x][y] # NoResult
             PROVE  result'[x][y] = result[x][y]
  BY DEF MemoStep
<1>1. result \in [Runs -> [Queries -> Results]]
  BY DEF IInv, TypeOK
<1>2. CASE UNCHANGED result
  BY <1>2
<1>3. ASSUME NEW q \in Queries, NEW v \in Results,
             result' = [result EXCEPT ![r][q] = v],
             Memoises(r) => result[r][q] = NoResult
      PROVE  result'[x][y] = result[x][y]
  BY <1>1, <1>3
<1>4. QED
  BY <1>2, <1>3 DEF AnswersOneQuery

\* The steps that resume a lookup.
LEMMA ResumeAnswers ==
    ASSUME IInv, NEW r \in Runs, Resume(r)
    PROVE  AnswersOneQuery(r)
<1>1. /\ query[r] \in Queries /\ InFlight(r)
      /\ pending[r] \in Results /\ Failed \in Results
  BY Numbers, Constants DEF IInv
<1>2. ASSUME NEW v \in Results, Return(r, query[r], v),
             pc[r] \in {"regional", "store"} \/ mode[r] = "offline"
      PROVE  AnswersOneQuery(r)
  BY <1>1, <1>2 DEF Return, AnswersOneQuery, InFlight, Memoises
<1>3. CASE \/ RegionalReply(r) \/ ReferenceReply(r) \/ ReferenceFail(r)
           \/ OfflineRefMiss(r) \/ SyncCommit(r) \/ SyncFail(r)
  BY <1>3 DEF RegionalReply, ReferenceReply, ReferenceFail, OfflineRefMiss,
     SyncCommit, SyncFail, AnswersOneQuery
<1>4. CASE RegionalFail(r)
  BY <1>1, <1>2, <1>4 DEF RegionalFail
<1>5. CASE Store(r)
  BY <1>1, <1>2, <1>5 DEF Store
<1>6. CASE OfflineStore(r)
  <2>1. mode[r] = "offline"
    BY <1>1, <1>6 DEF OfflineStore, InFlight
  <2>2. CASE UNCHANGED result
    BY <2>2 DEF AnswersOneQuery
  <2>3. CASE Return(r, query[r], pending[r])
    BY <1>1, <1>2, <2>1, <2>3
  <2>4. QED
    BY <1>6, <2>2, <2>3 DEF OfflineStore
<1>7. CASE OfflineRefHit(r)
  <2>1. mode[r] = "offline"
    BY <1>1, <1>7 DEF OfflineRefHit, InFlight
  <2>2. PICK v \in Results : Return(r, query[r], v)
    <3> DEFINE row == disk[Ref[query[r]]]
               v == IF row.price # 0 THEN Value(row) ELSE pending[r]
    <3>1. row \in Rows
      BY <1>1, Constants DEF IInv, TypeOK
    <3>2. v \in Results
      BY <1>1, <3>1, Constants
    <3>3. Return(r, query[r], v)
      BY <1>7 DEF OfflineRefHit
    <3> HIDE DEF v
    <3>4. QED
      BY <3>2, <3>3
  <2>3. QED
    BY <1>2, <2>1, <2>2
<1>8. CASE OfflineRefStore(r)
  <2>1. mode[r] = "offline"
    BY <1>1, <1>8 DEF OfflineRefStore, InFlight
  <2>2. QED
    BY <1>1, <1>2, <1>8, <2>1 DEF OfflineRefStore
<1>9. QED
  BY <1>3, <1>4, <1>5, <1>6, <1>7, <1>8 DEF Resume

LEMMA MemoStepAlways == IInv /\ [Next]_vars => MemoStep
<1> SUFFICES ASSUME IInv, [Next]_vars PROVE MemoStep
  OBVIOUS
<1>1. CASE UNCHANGED result
  BY <1>1 DEF MemoStep
<1>2. ASSUME NEW r \in Runs, RunStep(r) PROVE MemoStep
  <2>1. ASSUME NEW m \in Modes, StartRun(r, m) PROVE MemoStep
    BY <1>1, <2>1 DEF StartRun
  <2>2. CASE EndRun(r)
    <3>1. /\ mode'[r] # mode[r]
          /\ \A x \in Runs \ {r} : result'[x] = result[x]
      BY <2>2 DEF EndRun, IInv, TypeOK
    <3>2. QED
      BY <3>1 DEF MemoStep
  <2>3. ASSUME NEW q \in Queries, LookupHit(r, q) PROVE MemoStep
    <3>1. Value(disk[q]) \in Results
      BY Constants DEF IInv, TypeOK
    <3>2. AnswersOneQuery(r)
      BY <2>3, <3>1 DEF LookupHit, MemoMiss, Return, AnswersOneQuery
    <3>3. QED
      BY <3>2, OneAnswerIsStable
  <2>4. ASSUME NEW q \in Queries, LookupMiss(r, q) \/ OfflineMiss(r, q)
                                   \/ SyncPage(r, q)
        PROVE MemoStep
    BY <1>1, <2>4 DEF LookupMiss, OfflineMiss, SyncPage
  <2>5. ASSUME NEW q \in Queries, OfflineHit(r, q) PROVE MemoStep
    <3>1. CASE Return(r, q, Value(disk[q]))
      <4>1. Value(disk[q]) \in Results /\ ~Memoises(r)
        BY <2>5, Constants DEF IInv, TypeOK, OfflineHit, Memoises
      <4>2. AnswersOneQuery(r)
        BY <3>1, <4>1 DEF Return, AnswersOneQuery
      <4>3. QED
        BY <4>2, OneAnswerIsStable
    <3>2. QED
      BY <1>1, <2>5, <3>1 DEF OfflineHit
  <2>6. CASE Resume(r)
    BY <2>6, ResumeAnswers, OneAnswerIsStable
  <2>7. QED
    BY <1>2, <2>1, <2>2, <2>3, <2>4, <2>5, <2>6 DEF RunStep
<1>3. QED
  BY <1>1, <1>2 DEF Next, Tick, ClearCache, runVars, vars

\* Within one run a query keeps its first answer, errors included.
THEOREM MemoCorrect == Spec => MemoStable
<1>1. IInv /\ [Next]_vars => [MemoStep]_vars
  BY MemoStepAlways
<1>2. [][MemoStep]_vars => MemoStable
  BY PTL DEF MemoStable, MemoStep
<1>3. QED
  BY <1>1, <1>2, IInvAlways, PTL DEF Spec

-----------------------------------------------------------------------------
(* The chains implement PriceOracle.                                       *)

\* The oracle's vocabulary is the one the chains' properties use.
LEMMA OracleTerms ==
    /\ Oracle!NoResult = NoResult /\ Oracle!Failed = Failed
    /\ Oracle!Answer(0, "stub") = StubZero
    /\ \A p : Oracle!Answer(p, "live") = Live(p)
    /\ \A r \in Runs : Oracle!Memoising(mode[r]) <=> Memoises(r)
    /\ \A q, p, lo, hi : Oracle!QuotedIn(q, p, lo, hi) <=> QuotedIn(q, p, lo, hi)
  BY DEF Oracle!NoResult, NoResult, Oracle!Failed, Failed, Oracle!Answer,
     StubZero, Live, Oracle!Memoising, Memoises, Oracle!QuotedIn, QuotedIn,
     Oracle!QuotedBy, QuotedBy, Oracle!Times, Times

\* The answers the oracle permits, said without it.
LEMMA OraclePermits ==
    ASSUME NEW r \in Runs, NEW q \in Queries, NEW v,
           \/ v = Failed \/ v = StubZero
           \/ \E p \in Prices :
                 /\ v = Live(p)
                 /\ IF Memoises(r)
                    THEN QuotedIn(q, p, runStart[r] - (TTL + MaxLatency), clock)
                    ELSE \/ QuotedIn(q, p, 0, clock)
                         \/ QuotedIn(Ref[q], p, 0, clock)
    PROVE  v \in Oracle!Permitted(r, q)
  BY OracleTerms DEF Oracle!Permitted, Oracle!LivePrice

\* Returning a permitted answer is the oracle's Reply.
LEMMA ReturnIsReply ==
    ASSUME NEW r \in Runs, NEW q \in Queries, NEW v,
           Return(r, q, v), mode[r] # "none",
           Memoises(r) => result[r][q] = NoResult,
           v \in Oracle!Permitted(r, q),
           UNCHANGED <<clock, priceAt, mode, runStart>>
    PROVE  Oracle!Next
<1>1. result' = [result EXCEPT ![r][q] = v]
  BY DEF Return
<1>2. Oracle!Reply(r, q)
  BY <1>1, OracleTerms DEF Oracle!Reply
<1>3. QED
  BY <1>2 DEF Oracle!Next

\* A row is a permitted answer to its own query for an offline run.
LEMMA RowIsPermitted ==
    ASSUME IInv, NEW r \in Runs, NEW q \in Queries, NEW y \in Queries,
           disk[y] # NoRow, mode[r] = "offline", y = q \/ y = Ref[q]
    PROVE  Value(disk[y]) \in Oracle!Permitted(r, q)
<1>1. /\ disk[y].src \in {"none", "live", "stub"} /\ disk[y].price \in Prices
      /\ disk[y].at \in Int /\ disk[y].src # "none"
      /\ disk[y].at <= clock /\ clock \in Int /\ MaxLatency \in Int
  BY Numbers, Constants DEF IInv, TypeOK, Rows, RowsAreQuotes, RowsLabelled
<1>2. CASE disk[y].src = "stub"
  <2>1. disk[y].price = 0
    BY <1>2 DEF IInv, RowsAreQuotes
  <2>2. QED
    BY <1>2, <2>1, OraclePermits DEF Value, StubZero
<1>3. CASE disk[y].src = "live"
  <2>1. QuotedIn(y, disk[y].price, 0, clock)
    <3>1. QuotedBy(priceAt, y, disk[y].price, disk[y].at - MaxLatency,
                   disk[y].at)
      BY <1>3 DEF IInv, RowsAreQuotes, QuotedIn
    <3>2. QED
      BY <1>1, <3>1, QuotedByWidens DEF QuotedIn
  <2>2. Value(disk[y]) = Live(disk[y].price)
    BY <1>3 DEF Value, Live
  <2>3. QED
    BY <1>1, <2>1, <2>2, OraclePermits DEF Memoises
<1>4. QED
  BY <1>1, <1>2, <1>3

\* A live price quoted within a memoising run's window is a permitted answer.
LEMMA LiveIsPermitted ==
    ASSUME NEW r \in Runs, NEW q \in Queries, NEW v \in Values, Memoises(r),
           v.src = "live",
           QuotedIn(q, v.price, runStart[r] - (TTL + MaxLatency), clock)
    PROVE  v \in Oracle!Permitted(r, q)
<1>1. v.price \in Prices /\ v = Live(v.price)
  BY DEF Values, Live
<1>2. QED
  BY <1>1, OraclePermits

\* Without a step of the oracle: none of its variables change.
LEMMA OracleStutter ==
    UNCHANGED <<clock, priceAt, mode, runStart, result>>
    => UNCHANGED Oracle!oracleVars
  BY DEF Oracle!oracleVars

LEMMA ResumeRefines ==
    ASSUME IInv, NEW r \in Runs, Resume(r)
    PROVE  [Oracle!Next]_(Oracle!oracleVars)
<1> USE DEF past, history
<1>1. /\ query[r] \in Queries /\ InFlight(r) /\ pending[r] \in Values
      /\ Ref[query[r]] \in Queries
  BY Numbers, Constants DEF IInv
<1>2. CASE \/ RegionalReply(r) \/ ReferenceReply(r) \/ ReferenceFail(r)
           \/ OfflineRefMiss(r) \/ SyncCommit(r) \/ SyncFail(r)
  BY <1>2, OracleStutter DEF RegionalReply, ReferenceReply, ReferenceFail,
     OfflineRefMiss, SyncCommit, SyncFail
<1>3. CASE RegionalFail(r)
  <2>1. Memoises(r) /\ result[r][query[r]] = NoResult /\ mode[r] # "none"
    BY <1>1, <1>3 DEF RegionalFail, InFlight, Memoises
  <2>2. Failed \in Oracle!Permitted(r, query[r])
    BY <1>1, OraclePermits
  <2>3. QED
    BY <1>1, <1>3, <2>1, <2>2, ReturnIsReply DEF RegionalFail
<1>4. CASE Store(r)
  <2>1. /\ Memoises(r) /\ result[r][query[r]] = NoResult /\ mode[r] # "none"
        /\ pending[r].src = "live"
        /\ QuotedIn(query[r], pending[r].price, began[r], clock)
        /\ clock <= began[r] + MaxLatency
    BY <1>1, <1>4 DEF Store, InFlight, Memoises
  <2>2. QuotedIn(query[r], pending[r].price,
                 runStart[r] - (TTL + MaxLatency), clock)
    <3>1. runStart[r] - (TTL + MaxLatency) <= began[r]
      BY <2>1, Numbers
    <3>2. QED
      BY <2>1, <3>1, Numbers, QuotedByWidens DEF QuotedIn
  <2>3. pending[r] \in Oracle!Permitted(r, query[r])
    BY <1>1, <2>1, <2>2, LiveIsPermitted
  <2>4. QED
    BY <1>1, <1>4, <2>1, <2>3, ReturnIsReply DEF Store
<1>5. ASSUME pc[r] \in {"offlineStore", "offlineRef", "offlineRefStore"}
      PROVE  /\ mode[r] = "offline" /\ ~Memoises(r)
             /\ pending[r] \in Oracle!Permitted(r, query[r])
  <2>1. /\ mode[r] = "offline" /\ ~Memoises(r)
        /\ pending[r].price = 0
        /\ pending[r].src \in {"live", "stub"}
        /\ pending[r].src = "live" => QuotedIn(query[r], 0, 0, clock)
    BY <1>1, <1>5 DEF InFlight, Memoises, Values
  <2>2. CASE pending[r].src = "stub"
    <3>1. pending[r] = StubZero
      BY <1>1, <2>1, <2>2 DEF Values, StubZero
    <3>2. QED
      BY <1>1, <2>1, <3>1, OraclePermits
  <2>3. CASE pending[r].src = "live"
    <3>1. pending[r] = Live(0) /\ 0 \in Prices
      BY <1>1, <2>1, <2>3, Constants DEF Values, Live
    <3>2. QED
      BY <1>1, <2>1, <2>3, <3>1, OraclePermits
  <2>4. QED
    BY <2>1, <2>2, <2>3
<1>6. CASE OfflineStore(r)
  <2>1. CASE UNCHANGED result
    BY <1>6, <2>1, OracleStutter DEF OfflineStore
  <2>2. CASE Return(r, query[r], pending[r])
    BY <1>1, <1>5, <1>6, <2>2, ReturnIsReply DEF OfflineStore
  <2>3. QED
    BY <1>6, <2>1, <2>2 DEF OfflineStore
<1>7. CASE OfflineRefHit(r)
  <2> DEFINE row == disk[Ref[query[r]]]
             v == IF row.price # 0 THEN Value(row) ELSE pending[r]
  <2>1. /\ pc[r] = "offlineRef" /\ row # NoRow /\ Return(r, query[r], v)
        /\ UNCHANGED <<clock, priceAt, mode, runStart>>
    BY <1>7 DEF OfflineRefHit
  <2>2. v \in Oracle!Permitted(r, query[r])
    BY <1>1, <1>5, <2>1, RowIsPermitted
  <2> HIDE DEF v
  <2>3. QED
    BY <1>1, <1>5, <2>1, <2>2, ReturnIsReply
<1>8. CASE OfflineRefStore(r)
  BY <1>1, <1>5, <1>8, ReturnIsReply DEF OfflineRefStore
<1>9. QED
  BY <1>2, <1>3, <1>4, <1>6, <1>7, <1>8 DEF Resume

LEMMA StepRefines == IInv /\ [Next]_vars => [Oracle!Next]_(Oracle!oracleVars)
<1> SUFFICES ASSUME IInv, [Next]_vars
             PROVE  [Oracle!Next]_(Oracle!oracleVars)
  OBVIOUS
<1> USE DEF past, history
<1>1. CASE UNCHANGED vars \/ ClearCache
  BY <1>1, OracleStutter DEF vars, ClearCache, runVars
<1>2. CASE Tick
  BY <1>2 DEF Tick, runVars, AdvanceTime, Oracle!Next, Oracle!AdvanceTime
<1>3. ASSUME NEW r \in Runs, RunStep(r)
      PROVE  [Oracle!Next]_(Oracle!oracleVars)
  <2>1. ASSUME NEW m \in Modes, StartRun(r, m) PROVE Oracle!Next
    <3>1. Oracle!Begin(r, m)
      BY <2>1 DEF StartRun, Oracle!Begin
    <3>2. QED
      BY <3>1 DEF Oracle!Next
  <2>2. CASE EndRun(r)
    <3>1. Oracle!End(r)
      BY <2>2 DEF EndRun, Oracle!End, NoResults, NoResult, Oracle!NoResult
    <3>2. QED
      BY <3>1 DEF Oracle!Next
  <2>3. ASSUME NEW q \in Queries, LookupHit(r, q) PROVE Oracle!Next
    <3>1. /\ Memoises(r) /\ mode[r] = "online" /\ result[r][q] = NoResult
          /\ disk[q] # NoRow /\ clock - disk[q].at <= TTL
          /\ Return(r, q, Value(disk[q]))
          /\ UNCHANGED <<clock, priceAt, mode, runStart>>
      BY <2>3 DEF LookupHit, MemoMiss, Fresh, Present
    <3>2. Value(disk[q]) \in Oracle!Permitted(r, q)
      <4>1. CASE disk[q].src = "live"
        <5>1. /\ disk[q].at <= clock
              /\ QuotedBy(priceAt, q, disk[q].price,
                          disk[q].at - MaxLatency, disk[q].at)
          BY <4>1 DEF IInv, RowsAreQuotes, QuotedIn
        <5>2. runStart[r] - (TTL + MaxLatency) <= disk[q].at - MaxLatency
          BY <3>1, Numbers
        <5>3. QuotedIn(q, disk[q].price, runStart[r] - (TTL + MaxLatency), clock)
          BY <5>1, <5>2, Numbers, QuotedByWidens DEF QuotedIn
        <5>4. /\ Value(disk[q]) \in Values /\ Value(disk[q]).src = "live"
              /\ Value(disk[q]).price = disk[q].price
          BY <4>1, Constants DEF IInv, TypeOK, Value
        <5>5. QED
          BY <3>1, <5>3, <5>4, LiveIsPermitted
      <4>2. CASE disk[q].src # "live"
        <5>1. disk[q].src = "stub" /\ disk[q].price = 0
          BY <3>1, <4>2
          DEF IInv, TypeOK, Rows, RowsLabelled, RowsAreQuotes
        <5>2. Value(disk[q]) = StubZero
          BY <5>1 DEF Value, StubZero
        <5>3. QED
          BY <5>2, OraclePermits
      <4>3. QED
        BY <4>1, <4>2
    <3>3. QED
      BY <3>1, <3>2, ReturnIsReply
  <2>4. ASSUME NEW q \in Queries, LookupMiss(r, q) \/ OfflineMiss(r, q)
                                   \/ SyncPage(r, q)
        PROVE  [Oracle!Next]_(Oracle!oracleVars)
    BY <2>4, OracleStutter DEF LookupMiss, OfflineMiss, SyncPage
  <2>5. ASSUME NEW q \in Queries, OfflineHit(r, q)
        PROVE  [Oracle!Next]_(Oracle!oracleVars)
    <3>1. /\ mode[r] = "offline" /\ ~Memoises(r) /\ disk[q] # NoRow
          /\ Return(r, q, Value(disk[q])) \/ UNCHANGED result
          /\ UNCHANGED <<clock, priceAt, mode, runStart>>
      BY <2>5 DEF OfflineHit, Present, Memoises
    <3>2. CASE UNCHANGED result
      BY <3>1, <3>2, OracleStutter
    <3>3. CASE Return(r, q, Value(disk[q]))
      BY <3>1, <3>3, RowIsPermitted, ReturnIsReply
    <3>4. QED
      BY <3>1, <3>2, <3>3
  <2>6. CASE Resume(r)
    BY <2>6, ResumeRefines
  <2>7. QED
    BY <1>3, <2>1, <2>2, <2>3, <2>4, <2>5, <2>6 DEF RunStep
<1>4. QED
  BY <1>1, <1>2, <1>3 DEF Next

\* The chains around the shared cache, with every interleaving of processes
\* and every failure, give only answers the oracle gives.
THEOREM Refinement == Spec => OracleSpec
<1>1. Init => Oracle!Init
  BY DEF Init, Oracle!Init, HistoryInit, Oracle!HistoryInit, NoResults,
     NoResult, Oracle!NoResult, Times, Oracle!Times
<1>2. QED
  BY <1>1, StepRefines, IInvAlways, PTL DEF Spec, OracleSpec, Oracle!Spec

-----------------------------------------------------------------------------
(* A live $0 in the cache or in an answer stems from a query found unpriced *)
(* together with its reference region, or from a fallback that failed.  The *)
(* theorem assumes nothing of the upstream and of the other processes.      *)

\* ZeroExplained under the price history h and the losses l.
ZeroBy(h, l, q, lo, hi) ==
    \/ UnpricedBy(h, q, lo, hi)
    \/ \E t \in Times : lo <= t /\ t <= hi /\ Lost("fallback", q, t) \in l

\* What a lookup about to store a zero knows.
ZeroInFlight(r) ==
    pc[r] = "store" /\ pending[r].price = 0 =>
        ZeroBy(priceAt, lost, query[r], began[r], clock)

RowZeros ==
    \A q \in Queries :
        disk[q].src = "live" /\ disk[q].price = 0 =>
            ZeroBy(priceAt, lost, q, disk[q].at - MaxLatency, disk[q].at)

AnswerZeros ==
    \A r \in Runs, q \in Queries :
        Memoises(r) /\ result[r][q] = Live(0) =>
            ZeroBy(priceAt, lost, q, runStart[r] - TTL - MaxLatency, clock)

ZInv ==
    /\ IInv
    /\ RowZeros
    /\ AnswerZeros
    /\ \A r \in Runs : ZeroInFlight(r)

-----------------------------------------------------------------------------
(* Absence of a price, over time.                                          *)

\* A query found unpriced in a window was so in any wider one.
LEMMA UnpricedByWidens ==
    ASSUME NEW h, NEW h2, NEW q,
           NEW lo \in Int, NEW hi \in Int, NEW lo2 \in Int, NEW hi2 \in Int,
           lo2 <= lo \/ lo2 <= 0, hi <= hi2,
           \A t \in Times : t <= hi => h2[t] = h[t],
           UnpricedBy(h, q, lo, hi)
    PROVE  UnpricedBy(h2, q, lo2, hi2)
<1>1. PICK t0, t \in Times : /\ lo <= t0 /\ t0 <= t /\ t <= hi
                             /\ h[t0][q] = 0
                             /\ h[t][Ref[q]] = 0
  BY DEF UnpricedBy
<1>2. /\ t0 \in Int /\ t \in Int /\ 0 <= t0
      /\ lo2 <= t0 /\ t <= hi2 /\ t0 <= hi
  BY <1>1, TimeAssumption DEF Times
<1>3. h2[t0] = h[t0] /\ h2[t] = h[t]
  BY <1>1, <1>2
<1>4. QED
  BY <1>1, <1>2, <1>3 DEF UnpricedBy

\* A zero explained stays so in a wider window, and when more is lost.
LEMMA ZeroByWidens ==
    ASSUME NEW h, NEW h2, NEW l, NEW l2, NEW q,
           NEW lo \in Int, NEW hi \in Int, NEW lo2 \in Int, NEW hi2 \in Int,
           lo2 <= lo, hi <= hi2, l \subseteq l2,
           \A t \in Times : t <= hi => h2[t] = h[t],
           ZeroBy(h, l, q, lo, hi)
    PROVE  ZeroBy(h2, l2, q, lo2, hi2)
<1>1. CASE UnpricedBy(h, q, lo, hi)
  BY <1>1, UnpricedByWidens DEF ZeroBy
<1>2. ASSUME NEW t \in Times, lo <= t, t <= hi, Lost("fallback", q, t) \in l
      PROVE  ZeroBy(h2, l2, q, lo2, hi2)
  <2>1. lo2 <= t /\ t <= hi2
    BY <1>2, Constants
  <2>2. QED
    BY <1>2, <2>1 DEF ZeroBy
<1>3. QED
  BY <1>1, <1>2 DEF ZeroBy

\* A query without a fallback is unpriced when its own price is 0.
LEMMA UnpricedNow ==
    ASSUME NEW q, NEW t \in Times, NEW lo \in Int, lo <= t,
           Ref[q] = q, priceAt[t][q] = 0
    PROVE  UnpricedBy(priceAt, q, lo, t)
  BY Constants DEF UnpricedBy

\* A query seen unpriced whose reference region has no price now.
LEMMA UnpricedInReference ==
    ASSUME NEW q, NEW t \in Times, NEW lo \in Int,
           QuotedBy(priceAt, q, 0, lo, t), priceAt[t][Ref[q]] = 0
    PROVE  UnpricedBy(priceAt, q, lo, t)
<1>1. \E t0 \in Times : lo <= t0 /\ t0 <= t /\ priceAt[t0][q] = 0
  BY Constants DEF QuotedBy
<1>2. QED
  BY <1>1, Constants DEF UnpricedBy

-----------------------------------------------------------------------------
(* The steps.                                                              *)

\* While time stands still, a step of r leaves to show what it adds: a live
\* zero in the cache, one among the answers, one that r's lookup carries.
LEMMA ZStep ==
    ASSUME ZInv, IInv', NEW r \in Runs, UNCHANGED <<clock, priceAt>>,
           lost \subseteq lost',
           \A y \in Queries :
              disk'[y].src = "live" /\ disk'[y].price = 0 =>
                 \/ disk'[y] = disk[y]
                 \/ ZeroBy(priceAt, lost, y,
                           disk'[y].at - MaxLatency, disk'[y].at),
           \A x \in Runs, y \in Queries :
              Memoises(x)' /\ result'[x][y] = Live(0) =>
                 \/ /\ Memoises(x) /\ runStart'[x] = runStart[x]
                    /\ result'[x][y] = result[x][y]
                 \/ ZeroBy(priceAt, lost, y,
                           runStart'[x] - TTL - MaxLatency, clock),
           \A x \in Runs \ {r} : /\ pc'[x] = pc[x] /\ query'[x] = query[x]
                                 /\ pending'[x] = pending[x]
                                 /\ began'[x] = began[x],
           pc'[r] # "store" \/ ZeroInFlight(r)'
    PROVE  ZInv'
<1>1. \A q, lo, hi : ZeroBy(priceAt, lost, q, lo, hi) =>
                        ZeroBy(priceAt', lost', q, lo, hi)
  BY DEF ZeroBy
<1>2. RowZeros'
  <2> SUFFICES ASSUME NEW y \in Queries, disk'[y].src = "live",
                      disk'[y].price = 0
               PROVE  ZeroBy(priceAt', lost', y,
                             disk'[y].at - MaxLatency, disk'[y].at)
    BY DEF RowZeros
  <2>1. QED
    BY <1>1 DEF ZInv, RowZeros
<1>3. AnswerZeros'
  <2> SUFFICES ASSUME NEW x \in Runs, NEW y \in Queries, Memoises(x)',
                      result'[x][y] = Live(0)'
               PROVE  ZeroBy(priceAt', lost', y,
                             runStart'[x] - TTL - MaxLatency, clock')
    BY DEF AnswerZeros
  <2>1. Live(0)' = Live(0)
    BY DEF Live
  <2>2. QED
    BY <1>1, <2>1 DEF ZInv, AnswerZeros
<1>4. ASSUME NEW x \in Runs PROVE ZeroInFlight(x)'
  <2>1. CASE x = r
    BY <2>1 DEF ZeroInFlight
  <2>2. CASE x # r
    BY <1>1, <2>2 DEF ZInv, ZeroInFlight
  <2>3. QED
    BY <2>1, <2>2
<1>5. QED
  BY <1>2, <1>3, <1>4 DEF ZInv

\* What a step of r leaves alone in every other process.
LEMMA OthersCarry ==
    ASSUME TypeOK, NEW r \in Runs, RunStep(r), NEW x \in Runs \ {r}
    PROVE  /\ pc'[x] = pc[x] /\ query'[x] = query[x]
           /\ pending'[x] = pending[x] /\ began'[x] = began[x]
           /\ mode'[x] = mode[x] /\ runStart'[x] = runStart[x]
           /\ result'[x] = result[x]
<1> USE DEF TypeOK, Suspend, Idle, Return
<1>1. ASSUME NEW m \in Modes, StartRun(r, m)
      PROVE  /\ pc'[x] = pc[x] /\ query'[x] = query[x]
             /\ pending'[x] = pending[x] /\ began'[x] = began[x]
             /\ mode'[x] = mode[x] /\ runStart'[x] = runStart[x]
             /\ result'[x] = result[x]
  BY <1>1 DEF StartRun
<1>2. CASE EndRun(r)
  BY <1>2 DEF EndRun
<1>3. ASSUME NEW q \in Queries,
             \/ LookupHit(r, q) \/ LookupMiss(r, q) \/ OfflineHit(r, q)
             \/ OfflineMiss(r, q) \/ SyncPage(r, q)
      PROVE  /\ pc'[x] = pc[x] /\ query'[x] = query[x]
             /\ pending'[x] = pending[x] /\ began'[x] = began[x]
             /\ mode'[x] = mode[x] /\ runStart'[x] = runStart[x]
             /\ result'[x] = result[x]
  BY <1>3 DEF LookupHit, LookupMiss, OfflineHit, OfflineMiss, SyncPage
<1>4. CASE \/ RegionalReply(r) \/ RegionalFail(r) \/ ReferenceReply(r)
           \/ ReferenceFail(r) \/ Store(r)
  BY <1>4 DEF RegionalReply, RegionalFail, ReferenceReply, ReferenceFail,
     Store
<1>5. CASE \/ OfflineStore(r) \/ OfflineRefHit(r) \/ OfflineRefMiss(r)
           \/ OfflineRefStore(r) \/ SyncCommit(r) \/ SyncFail(r)
  BY <1>5 DEF OfflineStore, OfflineRefHit, OfflineRefMiss, OfflineRefStore,
     SyncCommit, SyncFail
<1>6. QED
  BY <1>1, <1>2, <1>3, <1>4, <1>5 DEF RunStep, Resume

\* Time passing.
LEMMA ZTick == ZInv /\ Tick /\ IInv' => ZInv'
<1> SUFFICES ASSUME ZInv, Tick, IInv' PROVE ZInv'
  OBVIOUS
<1>1. /\ clock' = clock + 1 /\ clock \in Int /\ MaxLatency \in Int /\ TTL \in Int
      /\ \A t \in Times : t <= clock => priceAt'[t] = priceAt[t]
      /\ UNCHANGED <<lost, disk, mode, runStart, result, pc, query, pending,
                     began>>
  <2>1. clock \in Int /\ MaxLatency \in Int /\ TTL \in Int
    BY DurationAssumption, Constants DEF ZInv, IInv, TypeOK, HistoryTypeOK
  <2>2. clock' = clock + 1 /\ UNCHANGED <<lost, disk, runVars>>
    BY DEF Tick, AdvanceTime
  <2>3. ASSUME NEW t \in Times, t <= clock PROVE priceAt'[t] = priceAt[t]
    <3>1. t # clock + 1
      BY <2>1, <2>3, Constants
    <3>2. QED
      BY <3>1 DEF ZInv, IInv, TypeOK, HistoryTypeOK, Tick, AdvanceTime
  <2>4. QED
    BY <2>1, <2>2, <2>3 DEF runVars
<1>2. \A q, lo, hi : /\ lo \in Int /\ hi \in Int /\ hi <= clock
                     /\ ZeroBy(priceAt, lost, q, lo, hi)
                     => /\ ZeroBy(priceAt', lost', q, lo, hi)
                        /\ ZeroBy(priceAt', lost', q, lo, clock')
  <2> SUFFICES ASSUME NEW q, NEW lo \in Int, NEW hi \in Int,
                      hi <= clock, ZeroBy(priceAt, lost, q, lo, hi)
               PROVE  /\ ZeroBy(priceAt', lost', q, lo, hi)
                      /\ ZeroBy(priceAt', lost', q, lo, clock')
    OBVIOUS
  <2>1. \A t \in Times : t <= hi => priceAt'[t] = priceAt[t]
    BY <1>1, Constants
  <2>2. hi <= clock' /\ clock' \in Int /\ lost \subseteq lost'
    BY <1>1
  <2>3. QED
    BY <2>1, <2>2, ZeroByWidens
<1>3. RowZeros'
  <2> SUFFICES ASSUME NEW q \in Queries, disk[q].src = "live",
                      disk[q].price = 0
               PROVE  ZeroBy(priceAt', lost', q,
                             disk[q].at - MaxLatency, disk[q].at)
    BY <1>1 DEF RowZeros
  <2>1. /\ ZeroBy(priceAt, lost, q, disk[q].at - MaxLatency, disk[q].at)
        /\ disk[q].at \in Int /\ disk[q].at <= clock
    BY Constants DEF ZInv, RowZeros, IInv, RowsAreQuotes, TypeOK, Rows
  <2>2. QED
    BY <1>1, <1>2, <2>1
<1>4. AnswerZeros'
  <2> SUFFICES ASSUME NEW r \in Runs, NEW q \in Queries, Memoises(r),
                      result[r][q] = Live(0)
               PROVE  ZeroBy(priceAt', lost', q,
                             runStart[r] - TTL - MaxLatency, clock')
    BY <1>1 DEF AnswerZeros, Memoises, Live
  <2>1. /\ ZeroBy(priceAt, lost, q, runStart[r] - TTL - MaxLatency, clock)
        /\ runStart[r] \in Int
    BY Constants DEF ZInv, AnswerZeros, IInv, TypeOK
  <2>2. QED
    BY <1>1, <1>2, <2>1
<1>5. ASSUME NEW r \in Runs PROVE ZeroInFlight(r)'
  <2> SUFFICES ASSUME pc[r] = "store", pending[r].price = 0
               PROVE  ZeroBy(priceAt', lost', query[r], began[r], clock')
    BY <1>1 DEF ZeroInFlight
  <2>1. ZeroBy(priceAt, lost, query[r], began[r], clock) /\ began[r] \in Int
    BY Constants DEF ZInv, ZeroInFlight, IInv, TypeOK
  <2>2. QED
    BY <1>1, <1>2, <2>1
<1>6. QED
  BY <1>3, <1>4, <1>5 DEF ZInv

\* A lookup of q that returns v leaves the other answers as they were.
LEMMA ReturnZero ==
    ASSUME ZInv, IInv', NEW r \in Runs, RunStep(r), NEW q \in Queries, NEW v,
           Return(r, q, v),
           UNCHANGED <<clock, priceAt, lost, mode, runStart>>,
           Memoises(r) /\ v = Live(0) =>
              ZeroBy(priceAt, lost, q, runStart[r] - TTL - MaxLatency, clock),
           \A y \in Queries :
              disk'[y].src = "live" /\ disk'[y].price = 0 =>
                 \/ disk'[y] = disk[y]
                 \/ ZeroBy(priceAt, lost, y,
                           disk'[y].at - MaxLatency, disk'[y].at)
    PROVE  ZInv'
<1>1. /\ result' = [result EXCEPT ![r][q] = v] /\ pc'[r] = "idle"
      /\ TypeOK
  BY DEF Return, Idle, Suspend, ZInv, IInv, TypeOK
<1>2. ASSUME NEW x \in Runs, NEW y \in Queries, Memoises(x)',
             result'[x][y] = Live(0)
      PROVE  \/ /\ Memoises(x) /\ runStart'[x] = runStart[x]
                /\ result'[x][y] = result[x][y]
             \/ ZeroBy(priceAt, lost, y,
                       runStart'[x] - TTL - MaxLatency, clock)
  <2>1. Memoises(x)
    BY <1>2 DEF Memoises
  <2>2. CASE x = r /\ y = q
    <3>1. result'[x][y] = v
      BY <1>1, <2>2 DEF TypeOK
    <3>2. QED
      BY <1>2, <2>1, <2>2, <3>1
  <2>3. CASE x # r \/ y # q
    <3>1. result'[x][y] = result[x][y]
      BY <1>1, <2>3 DEF TypeOK
    <3>2. QED
      BY <2>1, <3>1
  <2>4. QED
    BY <2>2, <2>3
<1>3. \A x \in Runs \ {r} : /\ pc'[x] = pc[x] /\ query'[x] = query[x]
                            /\ pending'[x] = pending[x]
                            /\ began'[x] = began[x]
  BY <1>1, OthersCarry
<1>4. lost \subseteq lost' /\ pc'[r] # "store"
  BY <1>1
<1>5. QED
  BY <1>2, <1>3, <1>4, ZStep

\* A step of r that writes no live zero and tells no memoising run anything.
LEMMA QuietStep ==
    ASSUME ZInv, IInv', NEW r \in Runs, RunStep(r),
           UNCHANGED <<clock, priceAt>>, lost \subseteq lost',
           \A y \in Queries :
              disk'[y].src = "live" /\ disk'[y].price = 0 => disk'[y] = disk[y],
           Memoises(r)' /\ Memoises(r) => UNCHANGED <<result, runStart>>,
           Memoises(r)' /\ ~Memoises(r) =>
              \A y \in Queries : result'[r][y] # Live(0),
           pc'[r] # "store" \/ ZeroInFlight(r)'
    PROVE  ZInv'
<1>0. TypeOK
  BY DEF ZInv, IInv
<1>1. ASSUME NEW x \in Runs, NEW y \in Queries, Memoises(x)',
             result'[x][y] = Live(0)
      PROVE  /\ Memoises(x) /\ runStart'[x] = runStart[x]
             /\ result'[x][y] = result[x][y]
  <2>1. CASE x = r
    BY <1>1, <2>1
  <2>2. CASE x # r
    BY <1>0, <1>1, <2>2, OthersCarry DEF Memoises
  <2>3. QED
    BY <2>1, <2>2
<1>2. \A x \in Runs \ {r} : /\ pc'[x] = pc[x] /\ query'[x] = query[x]
                            /\ pending'[x] = pending[x]
                            /\ began'[x] = began[x]
  BY <1>0, OthersCarry
<1>3. QED
  BY <1>1, <1>2, ZStep

LEMMA ZLookupHit ==
    ASSUME ZInv, NEW r \in Runs, RunStep(r), NEW q \in Queries,
           LookupHit(r, q), IInv'
    PROVE  ZInv'
<1>1. /\ disk[q] # NoRow /\ clock - disk[q].at <= TTL
      /\ Return(r, q, Value(disk[q]))
      /\ UNCHANGED <<clock, priceAt, lost, disk, mode, runStart>>
  BY DEF LookupHit, Fresh, Present, past, history
<1>2. Value(disk[q]) = Live(0) =>
         ZeroBy(priceAt, lost, q, runStart[r] - TTL - MaxLatency, clock)
  <2> SUFFICES ASSUME Value(disk[q]) = Live(0)
               PROVE  ZeroBy(priceAt, lost, q,
                             runStart[r] - TTL - MaxLatency, clock)
    OBVIOUS
  <2>1. disk[q].price = 0 /\ disk[q].src = "live"
    BY DEF Value, Live
  <2>2. /\ ZeroBy(priceAt, lost, q, disk[q].at - MaxLatency, disk[q].at)
        /\ disk[q].at <= clock
    BY <2>1 DEF ZInv, RowZeros, IInv, RowsAreQuotes
  <2>3. IInv
    BY DEF ZInv
  <2>4. runStart[r] - TTL - MaxLatency <= disk[q].at - MaxLatency
    BY <1>1, <2>3, Numbers
  <2>5. QED
    BY <2>2, <2>3, <2>4, Numbers, ZeroByWidens
<1>3. \A y \in Queries : disk'[y] = disk[y]
  BY <1>1
<1>4. QED
  BY <1>1, <1>2, <1>3, ReturnZero

\* The upstream's answer to the query itself: a zero is stored only when there
\* is nothing to fall back on.
LEMMA ZRegionalReply ==
    ASSUME ZInv, NEW r \in Runs, RunStep(r), RegionalReply(r), IInv'
    PROVE  ZInv'
<1> DEFINE q == query[r]
           step == IF Now(q) = 0 /\ HasFallback(q) THEN "reference" ELSE "store"
<1>1. /\ Suspend(r, step, q, Live(Now(q))) /\ pc[r] = "regional"
      /\ UNCHANGED <<clock, priceAt, lost, disk, mode, runStart, result, began>>
  BY DEF RegionalReply, past, history
<1>2. IInv
  BY DEF ZInv
<1>3. /\ pc'[r] = step /\ query'[r] = q /\ pending'[r] = Live(Now(q))
  BY <1>1, <1>2, SuspendKeeps
<1>4. ZeroInFlight(r)'
  <2> SUFFICES ASSUME pc'[r] = "store", pending'[r].price = 0
               PROVE  UnpricedBy(priceAt, q, began[r], clock)
    BY <1>1, <1>3 DEF ZeroInFlight, ZeroBy
  <2>1. Now(q) = 0
    BY <1>3 DEF Live
  <2>2. Ref[q] = q
    BY <1>3, <2>1 DEF HasFallback
  <2>3. clock \in Times /\ began[r] <= clock /\ began[r] \in Int
    BY <1>1, <1>2, Numbers DEF IInv, TypeOK, HistoryTypeOK, InFlight
  <2>4. QED
    BY <2>1, <2>2, <2>3, UnpricedNow DEF Now
<1>5. /\ lost \subseteq lost' /\ (Memoises(r)' <=> Memoises(r))
      /\ \A y \in Queries : disk'[y] = disk[y]
  BY <1>1 DEF Memoises
<1>6. QED
  BY <1>1, <1>4, <1>5, QuietStep

\* The reference region's answer.
LEMMA ZReferenceReply ==
    ASSUME ZInv, NEW r \in Runs, RunStep(r), ReferenceReply(r), IInv'
    PROVE  ZInv'
<1> DEFINE q == query[r]
<1>1. /\ Suspend(r, "store", q, Live(Now(Ref[q]))) /\ pc[r] = "reference"
      /\ UNCHANGED <<clock, priceAt, lost, disk, mode, runStart, result, began>>
  BY DEF ReferenceReply, past, history
<1>2. IInv
  BY DEF ZInv
<1>3. /\ query'[r] = q /\ pending'[r] = Live(Now(Ref[q]))
  BY <1>1, <1>2, SuspendKeeps
<1>4. ZeroInFlight(r)'
  <2> SUFFICES ASSUME pending'[r].price = 0
               PROVE  UnpricedBy(priceAt, q, began[r], clock)
    BY <1>1, <1>3 DEF ZeroInFlight, ZeroBy
  <2>1. priceAt[clock][Ref[q]] = 0
    BY <1>3 DEF Live, Now
  <2>2. QuotedBy(priceAt, q, 0, began[r], clock)
    BY <1>1, <1>2 DEF IInv, InFlight, QuotedIn
  <2>3. clock \in Times /\ began[r] \in Int
    BY <1>2, Numbers DEF IInv, TypeOK, HistoryTypeOK
  <2>4. QED
    BY <2>1, <2>2, <2>3, UnpricedInReference
<1>5. /\ lost \subseteq lost' /\ (Memoises(r)' <=> Memoises(r))
      /\ \A y \in Queries : disk'[y] = disk[y]
  BY <1>1 DEF Memoises
<1>6. QED
  BY <1>1, <1>4, <1>5, QuietStep

\* The request for the reference region fails, which is the one zero that has
\* nothing to do with the upstream's prices.
LEMMA ZReferenceFail ==
    ASSUME ZInv, NEW r \in Runs, RunStep(r), ReferenceFail(r), IInv'
    PROVE  ZInv'
<1> DEFINE q == query[r]
<1>1. /\ Suspend(r, "store", q, pending[r]) /\ pc[r] = "reference"
      /\ lost' = lost \cup {Lost("fallback", q, clock)}
      /\ UNCHANGED <<clock, priceAt, disk, mode, runStart, result, began>>
  BY DEF ReferenceFail, Lose, past, history
<1>2. IInv
  BY DEF ZInv
<1>3. query'[r] = q
  BY <1>1, <1>2, SuspendKeeps
<1>4. ZeroInFlight(r)'
  <2>1. clock \in Times /\ began[r] <= clock
    BY <1>1, <1>2 DEF IInv, TypeOK, HistoryTypeOK, InFlight
  <2>2. clock <= clock
    BY <2>1, Constants
  <2>3. ZeroBy(priceAt', lost', q, began[r], clock)
    BY <1>1, <2>1, <2>2 DEF ZeroBy
  <2>4. QED
    BY <1>1, <1>3, <2>3 DEF ZeroInFlight
<1>5. /\ lost \subseteq lost' /\ (Memoises(r)' <=> Memoises(r))
      /\ \A y \in Queries : disk'[y] = disk[y]
  BY <1>1 DEF Memoises
<1>6. QED
  BY <1>1, <1>4, <1>5, QuietStep

LEMMA ZStore ==
    ASSUME ZInv, NEW r \in Runs, RunStep(r), Store(r), IInv'
    PROVE  ZInv'
<1> DEFINE q == query[r]
           v == pending[r]
<1>1. /\ pc[r] = "store" /\ Return(r, q, v)
      /\ Persist(q, Row(v, clock)) \/ UNCHANGED disk
      /\ UNCHANGED <<clock, priceAt, lost, mode, runStart>>
  BY DEF Store, past, history
<1>2. /\ IInv /\ q \in Queries /\ clock <= began[r] + MaxLatency
      /\ v.price = 0 => ZeroBy(priceAt, lost, q, began[r], clock)
  BY <1>1, Numbers DEF ZInv, IInv, InFlight, ZeroInFlight
<1>3. v.price = 0 =>
         /\ ZeroBy(priceAt, lost, q, clock - MaxLatency, clock)
         /\ ZeroBy(priceAt, lost, q, runStart[r] - TTL - MaxLatency, clock)
  <2>1. /\ clock - MaxLatency <= began[r]
        /\ runStart[r] - TTL - MaxLatency <= began[r]
    BY <1>2, Numbers
  <2>2. QED
    BY <1>2, <2>1, Numbers, ZeroByWidens
<1>4. ASSUME NEW y \in Queries, disk'[y].price = 0
      PROVE  \/ disk'[y] = disk[y]
             \/ ZeroBy(priceAt, lost, y,
                       disk'[y].at - MaxLatency, disk'[y].at)
  <2>1. CASE UNCHANGED disk
    BY <2>1
  <2>2. CASE Persist(q, Row(v, clock))
    <3>1. /\ disk'[q].price = v.price /\ disk'[q].at = clock
          /\ \A z \in Queries \ {q} : disk'[z] = disk[z]
      BY <1>2, <2>2 DEF Persist, Row, IInv, TypeOK
    <3>2. CASE y = q
      BY <1>3, <1>4, <3>1, <3>2
    <3>3. QED
      BY <3>1, <3>2
  <2>3. QED
    BY <1>1, <2>1, <2>2
<1>5. v = Live(0) => v.price = 0
  BY DEF Live
<1>6. QED
  BY <1>1, <1>2, <1>3, <1>4, <1>5, ReturnZero

\* The steps of offline lookups and of syncs: the Stub's zeros are not live, and
\* a unit commits only prices.
LEMMA ZOtherSteps ==
    ASSUME ZInv, NEW r \in Runs, RunStep(r), IInv',
           \/ \E q \in Queries : OfflineHit(r, q) \/ OfflineMiss(r, q)
           \/ OfflineStore(r) \/ OfflineRefHit(r) \/ OfflineRefMiss(r)
           \/ OfflineRefStore(r)
           \/ \E q \in Queries : SyncPage(r, q)
           \/ SyncCommit(r) \/ SyncFail(r)
    PROVE  ZInv'
<1>0. TypeOK /\ IInv
  BY DEF ZInv, IInv
<1> USE DEF past, history
<1>1. mode'[r] = mode[r] /\ mode[r] \in {"offline", "sync"}
  BY <1>0
  DEF IInv, InFlight, OfflineHit, OfflineMiss, OfflineStore, OfflineRefHit,
      OfflineRefMiss, OfflineRefStore, SyncPage, SyncCommit, SyncFail
<1>2. ~Memoises(r) /\ ~Memoises(r)'
  BY <1>1 DEF Memoises
<1>3. pc'[r] # "store" /\ UNCHANGED <<clock, priceAt>> /\ lost \subseteq lost'
  BY <1>0
  DEF TypeOK, OfflineHit, OfflineMiss, OfflineStore, OfflineRefHit,
      OfflineRefMiss, OfflineRefStore, SyncPage, SyncCommit, SyncFail, Miss,
      Lose, Return, Idle, Suspend
<1>4. ASSUME NEW y \in Queries, disk'[y].src = "live", disk'[y].price = 0
      PROVE  disk'[y] = disk[y]
  <2>1. CASE UNCHANGED disk
    BY <2>1
  <2>2. ASSUME NEW z \in Queries, Persist(z, Row(StubZero, clock))
        PROVE  disk'[y] = disk[y]
    BY <1>0, <1>4, <2>2 DEF Persist, Row, StubZero, TypeOK
  <2>3. CASE OfflineStore(r) \/ OfflineRefStore(r)
    <3>1. query[r] \in Queries /\ Ref[query[r]] \in Queries
      BY <1>0, Constants DEF TypeOK
    <3>2. QED
      BY <2>1, <2>2, <2>3, <3>1 DEF OfflineStore, OfflineRefStore
  <2>4. CASE SyncCommit(r)
    BY <1>0, <1>4, <2>1, <2>4 DEF SyncCommit, Row, Live, TypeOK
  <2>5. QED
    BY <2>1, <2>3, <2>4
    DEF OfflineHit, OfflineMiss, OfflineRefHit, OfflineRefMiss, SyncPage,
        SyncFail
<1>5. QED
  BY <1>2, <1>3, <1>4, QuietStep

LEMMA ZRunStep ==
    ASSUME ZInv, NEW r \in Runs, RunStep(r), IInv'
    PROVE  ZInv'
<1> USE DEF past, history
<1>0. IInv
  BY DEF ZInv
<1>1. ASSUME NEW m \in Modes, StartRun(r, m) PROVE ZInv'
  <2>1. /\ UNCHANGED <<clock, priceAt, lost, disk, result, pc, query, pending,
                       began>>
        /\ ~Memoises(r)
        /\ \A y \in Queries : result'[r][y] # Live(0)
    BY <1>0, <1>1 DEF StartRun, Memoises, IInv, TypeOK, InFlight, NoResults,
       NoResult, Live
  <2>2. ZeroInFlight(r)'
    BY <2>1 DEF ZInv, ZeroInFlight
  <2>3. QED
    BY <2>1, <2>2, QuietStep
<1>2. CASE EndRun(r)
  <2>1. /\ UNCHANGED <<clock, priceAt, lost, disk>>
        /\ ~Memoises(r)' /\ pc'[r] # "store"
    BY <1>0, <1>2 DEF EndRun, Idle, Suspend, Memoises, IInv, TypeOK
  <2>2. QED
    BY <2>1, QuietStep
<1>3. ASSUME NEW q \in Queries, LookupHit(r, q) PROVE ZInv'
  BY <1>3, ZLookupHit
<1>4. ASSUME NEW q \in Queries, LookupMiss(r, q) PROVE ZInv'
  <2>1. /\ UNCHANGED <<clock, priceAt, lost, disk, mode, runStart, result>>
        /\ pc'[r] # "store"
    BY <1>0, <1>4 DEF LookupMiss, Suspend, IInv, TypeOK
  <2>2. Memoises(r)' <=> Memoises(r)
    BY <2>1 DEF Memoises
  <2>3. QED
    BY <2>1, <2>2, QuietStep
<1>5. CASE RegionalFail(r)
  <2>1. /\ Return(r, query[r], Failed) /\ query[r] \in Queries
        /\ UNCHANGED <<clock, priceAt, lost, disk, mode, runStart>>
        /\ Failed # Live(0)
    BY <1>0, <1>5 DEF RegionalFail, IInv, TypeOK, Failed, Live
  <2>2. QED
    BY <2>1, ReturnZero
<1>6. QED
  BY <1>1, <1>2, <1>3, <1>4, <1>5, ZRegionalReply, ZReferenceReply,
     ZReferenceFail, ZStore, ZOtherSteps DEF RunStep, Resume

LEMMA ZInvStep == ZInv /\ [Next]_vars => ZInv'
<1> SUFFICES ASSUME ZInv, [Next]_vars PROVE ZInv'
  OBVIOUS
<1>1. IInv'
  BY IInvStep DEF ZInv
<1>2. CASE UNCHANGED vars
  BY <1>1, <1>2 DEF vars, past, history, runVars, ZInv, RowZeros, AnswerZeros,
     ZeroInFlight, Memoises, ZeroBy, Live
<1>3. CASE Tick
  BY <1>1, <1>3, ZTick
<1>4. CASE ClearCache
  BY <1>1, <1>4 DEF ClearCache, past, history, runVars, ZInv, RowZeros,
     AnswerZeros, ZeroInFlight, Memoises, ZeroBy, Live, NoRow
<1>5. ASSUME NEW r \in Runs, RunStep(r) PROVE ZInv'
  BY <1>1, <1>5, ZRunStep
<1>6. QED
  BY <1>2, <1>3, <1>4, <1>5 DEF Next

LEMMA ZInvInit == Init => ZInv
<1> SUFFICES ASSUME Init PROVE ZInv
  OBVIOUS
<1>1. RowZeros
  BY DEF Init, RowZeros, NoRow
<1>2. AnswerZeros /\ \A r \in Runs : ZeroInFlight(r)
  BY DEF Init, AnswerZeros, Memoises, ZeroInFlight
<1>3. QED
  BY <1>1, <1>2, IInvInit DEF ZInv

\* Whatever fails and whoever shares the cache, a live $0 in the cache or in an
\* answer stems from a query found unpriced together with its reference region,
\* or from a fallback that failed within that lookup.
THEOREM ZerosCorrect == Spec => []ZerosExplained
<1>1. ZInv => ZerosExplained
  BY DEF ZInv, ZerosExplained, RowZeros, AnswerZeros, ZeroExplained, ZeroBy,
     UnpricedIn, LostIn
<1>2. QED
  BY <1>1, ZInvStep, ZInvInit, PTL DEF Spec

-----------------------------------------------------------------------------
(* Offline lookups replace only prices that they did not get to see.       *)

\* Why the lookup of r may put the Stub's zero where q has a price.
Unseen(r, q) ==
    \/ disk[q].at >= began[r]
    \/ LostIn("row", q, began[r], clock)

\* What an offline lookup is about to write over a price, it did not see.
StubInFlight(r) ==
    \A q \in Queries : Stubs(r, q) => disk[q].price = 0 \/ Unseen(r, q)

StubInv == IInv /\ \A r \in Runs : StubInFlight(r)

\* The step itself.
StubStep ==
    \A q \in Queries :
        disk[q].price # 0 /\ disk'[q].src = "stub" =>
            \E r \in Runs :
                /\ Stubs(r, q)
                /\ disk[q].at >= began[r] \/ LostIn("row", q, began[r], clock)

\* Rows with a price are live.
LEMMA PricedIsLive ==
    ASSUME IInv, NEW q \in Queries, disk[q].price # 0
    PROVE  disk[q].src = "live"
BY DEF IInv, RowsAreQuotes

\* A row that a step changes bears the time of that step.
LEMMA ChangedIsNow ==
    ASSUME IInv, NEW r \in Runs, RunStep(r), NEW q \in Queries,
           disk'[q] # disk[q]
    PROVE  disk'[q].at = clock
<1>0. TypeOK
  BY DEF IInv
<1>1. ASSUME NEW y, NEW v, Persist(y, Row(v, clock))
      PROVE  disk'[q].at = clock
  BY <1>0, <1>1 DEF Persist, Row, TypeOK
<1>2. CASE Store(r) \/ OfflineStore(r) \/ OfflineRefStore(r)
  BY <1>1, <1>2 DEF Store, OfflineStore, OfflineRefStore
<1>3. CASE SyncCommit(r)
  BY <1>3 DEF SyncCommit, Row
<1>4. QED
  BY <1>2, <1>3
  DEF RunStep, Resume, StartRun, EndRun, LookupHit, LookupMiss, OfflineHit,
      OfflineMiss, SyncPage, RegionalReply, RegionalFail, ReferenceReply,
      ReferenceFail, OfflineRefHit, OfflineRefMiss, SyncFail

\* Time stands still in a step of a process, and nothing lost is found again.
LEMMA RunStepPast ==
    ASSUME NEW r \in Runs, RunStep(r)
    PROVE  UNCHANGED <<clock, priceAt>> /\ lost \subseteq lost'
<1> USE DEF past, history
<1>1. CASE \/ \E m \in Modes : StartRun(r, m)
           \/ EndRun(r)
           \/ \E q \in Queries : \/ LookupHit(r, q) \/ LookupMiss(r, q)
                                 \/ OfflineHit(r, q) \/ SyncPage(r, q)
  BY <1>1 DEF StartRun, EndRun, LookupHit, LookupMiss, OfflineHit, SyncPage
<1>2. CASE \/ \E q \in Queries : OfflineMiss(r, q)
           \/ OfflineRefMiss(r) \/ ReferenceFail(r)
  BY <1>2 DEF OfflineMiss, OfflineRefMiss, ReferenceFail, Miss, Lose
<1>3. CASE \/ RegionalReply(r) \/ RegionalFail(r) \/ ReferenceReply(r)
           \/ Store(r) \/ OfflineStore(r) \/ OfflineRefHit(r)
           \/ OfflineRefStore(r) \/ SyncCommit(r) \/ SyncFail(r)
  BY <1>3 DEF RegionalReply, RegionalFail, ReferenceReply, Store,
     OfflineStore, OfflineRefHit, OfflineRefStore, SyncCommit, SyncFail
<1>4. QED
  BY <1>1, <1>2, <1>3 DEF RunStep, Resume

\* A lookup that neither begins nor reaches a write keeps what it is about to
\* write unseen: a row that changes meanwhile was not seen.
LEMMA StubCarry ==
    ASSUME IInv, IInv', NEW r \in Runs, RunStep(r), NEW s \in Runs,
           StubInFlight(s),
           \A q \in Queries : Stubs(s, q)' => Stubs(s, q),
           pc'[s] # "idle" => began'[s] = began[s]
    PROVE  StubInFlight(s)'
<1> SUFFICES ASSUME NEW q \in Queries, Stubs(s, q)'
             PROVE  disk'[q].price = 0 \/ Unseen(s, q)'
  BY DEF StubInFlight
<1>1. /\ Stubs(s, q) /\ pc'[s] # "idle" /\ pc[s] # "idle"
  BY DEF Stubs
<1>2. began'[s] = began[s] /\ began[s] <= clock
  BY <1>1 DEF IInv, InFlight
<1>3. CASE disk'[q] # disk[q]
  BY <1>2, <1>3, ChangedIsNow DEF Unseen
<1>4. CASE disk'[q] = disk[q]
  BY <1>1, <1>2, <1>4, RunStepPast DEF StubInFlight, Unseen, LostIn
<1>5. QED
  BY <1>3, <1>4

\* What a step does to the lookup of the process that takes it.
LEMMA OwnStubStep ==
    ASSUME IInv, IInv', NEW r \in Runs, StubInFlight(r), RunStep(r)
    PROVE  StubInFlight(r)'
<1>0. TypeOK /\ clock \in Times /\ clock <= clock /\ query[r] \in Queries
      /\ Ref[query[r]] \in Queries
  BY Constants DEF IInv, TypeOK, HistoryTypeOK
<1> USE DEF past, history
<1>1. CASE pc'[r] \notin {"offlineStore", "offlineRefStore"}
  BY <1>1 DEF StubInFlight, Stubs
<1>2. ASSUME NEW q \in Queries, OfflineMiss(r, q) PROVE StubInFlight(r)'
  <2>1. /\ disk' = disk /\ clock' = clock /\ began'[r] = clock
        /\ query'[r] = q /\ pc'[r] = "offlineStore" /\ Miss(q)
    BY <1>0, <1>2 DEF OfflineMiss, Suspend, TypeOK
  <2>2. disk[q].price = 0 \/ Unseen(r, q)'
    <3>1. CASE ~Present(q)
      BY <3>1 DEF Present, NoRow
    <3>2. CASE Lose("row", q)
      BY <1>0, <2>1, <3>2 DEF Lose, Unseen, LostIn
    <3>3. QED
      BY <2>1, <3>1, <3>2 DEF Miss
  <2>3. QED
    BY <2>1, <2>2 DEF StubInFlight, Stubs
<1>3. CASE OfflineRefMiss(r)
  <2>1. /\ disk' = disk /\ clock' = clock /\ began' = began
        /\ query'[r] = query[r] /\ pc[r] = "offlineRef"
        /\ pc'[r] = "offlineRefStore" /\ Miss(Ref[query[r]])
    BY <1>0, <1>3 DEF OfflineRefMiss, Suspend, TypeOK
  <2>2. disk[Ref[query[r]]].price = 0 \/ Unseen(r, Ref[query[r]])'
    <3>1. CASE ~Present(Ref[query[r]])
      BY <3>1 DEF Present, NoRow
    <3>2. CASE Lose("row", Ref[query[r]])
      <4>1. began[r] <= clock
        BY <2>1 DEF IInv, InFlight
      <4>2. QED
        BY <1>0, <2>1, <3>2, <4>1 DEF Lose, Unseen, LostIn
    <3>3. QED
      BY <2>1, <3>1, <3>2 DEF Miss
  <2>3. QED
    BY <2>1, <2>2 DEF StubInFlight, Stubs
<1>4. ASSUME NEW m \in Modes, StartRun(r, m) PROVE StubInFlight(r)'
  BY <1>4 DEF StartRun, StubInFlight, Stubs, Unseen, LostIn
<1>5. CASE EndRun(r)
  BY <1>0, <1>1, <1>5 DEF EndRun, Idle, Suspend, TypeOK
<1>6. ASSUME NEW q \in Queries, \/ LookupHit(r, q) \/ LookupMiss(r, q)
                                \/ OfflineHit(r, q) \/ SyncPage(r, q)
      PROVE  StubInFlight(r)'
  <2>1. pc'[r] \notin {"offlineStore", "offlineRefStore"}
    BY <1>0, <1>6
    DEF LookupHit, LookupMiss, OfflineHit, SyncPage, Return, Idle, Suspend,
        TypeOK
  <2> QED
    BY <1>1, <2>1
<1>7. CASE \/ RegionalReply(r) \/ RegionalFail(r) \/ ReferenceReply(r)
           \/ ReferenceFail(r) \/ Store(r) \/ OfflineStore(r)
           \/ OfflineRefHit(r) \/ OfflineRefStore(r) \/ SyncCommit(r)
           \/ SyncFail(r)
  <2>1. pc'[r] \notin {"offlineStore", "offlineRefStore"}
    BY <1>0, <1>7
    DEF RegionalReply, RegionalFail, ReferenceReply, ReferenceFail, Store,
        OfflineStore, OfflineRefHit, OfflineRefStore, SyncCommit, SyncFail,
        Return, Idle, Suspend, TypeOK
  <2> QED
    BY <1>1, <2>1
<1> QED
  BY <1>2, <1>3, <1>4, <1>5, <1>6, <1>7 DEF RunStep, Resume

\* Of the writes, those of a zero by the Stub are over none, or unseen.
LEMMA StubKeeps ==
    ASSUME StubInv, NEW r \in Runs, RunStep(r)
    PROVE  StubStep
<1>0. /\ TypeOK /\ query[r] \in Queries /\ Ref[query[r]] \in Queries
      /\ InFlight(r) /\ StubInFlight(r) /\ IInv
  BY Numbers, Constants DEF IInv, StubInv
<1>1. ASSUME \A q \in Queries : \/ disk'[q] = disk[q] \/ disk'[q].src = "live"
                                \/ disk[q].price = 0 \/ Stubs(r, q)
      PROVE  StubStep
  <2> SUFFICES ASSUME NEW q \in Queries, disk[q].price # 0,
                      disk'[q].src = "stub"
               PROVE  /\ Stubs(r, q)
                      /\ \/ disk[q].at >= began[r]
                         \/ LostIn("row", q, began[r], clock)
    BY DEF StubStep
  <2>1. Stubs(r, q)
    BY <1>0, <1>1, PricedIsLive
  <2>2. QED
    BY <1>0, <2>1 DEF StubInFlight, Unseen
<1>2. ASSUME NEW y \in Queries, NEW row, Persist(y, row),
             row.src = "live" \/ Stubs(r, y)
      PROVE  StubStep
  <2>1. \A q \in Queries : disk'[q] = IF q = y THEN row ELSE disk[q]
    BY <1>0, <1>2 DEF Persist, TypeOK
  <2> QED
    BY <1>1, <1>2, <2>1
<1>3. CASE UNCHANGED disk
  BY <1>1, <1>3
<1>4. CASE Store(r)
  <2>1. Row(pending[r], clock).src = "live"
    BY <1>0, <1>4 DEF Store, InFlight, Row
  <2> QED
    BY <1>0, <1>2, <1>3, <1>4, <2>1 DEF Store
<1>5. CASE OfflineStore(r)
  BY <1>0, <1>2, <1>3, <1>5 DEF OfflineStore, Stubs
<1>6. CASE OfflineRefStore(r)
  BY <1>0, <1>2, <1>3, <1>6 DEF OfflineRefStore, Stubs
<1>7. CASE SyncCommit(r)
  <2>1. \A q \in Queries : disk'[q] = disk[q] \/ disk'[q].src = "live"
    BY <1>7 DEF SyncCommit, Row, Live
  <2> QED
    BY <1>1, <2>1
<1> QED
  BY <1>3, <1>4, <1>5, <1>6, <1>7
  DEF RunStep, Resume, StartRun, EndRun, LookupHit, LookupMiss, OfflineHit,
      OfflineMiss, SyncPage, RegionalReply, RegionalFail, ReferenceReply,
      ReferenceFail, OfflineRefHit, OfflineRefMiss, SyncFail

\* Every step.
LEMMA StubInvStep ==
    ASSUME StubInv, [Next]_vars
    PROVE  StubInv' /\ (StubStep \/ UNCHANGED vars)
<1>0. IInv /\ IInv' /\ TypeOK
  BY IInvStep DEF StubInv, IInv
<1>1. CASE UNCHANGED vars
  BY <1>0, <1>1
  DEF vars, past, history, runVars, StubInv, StubInFlight, Stubs, Unseen,
      LostIn
<1>2. CASE Tick
  <2>1. UNCHANGED <<lost, disk, pc, query, began>> /\ clock' = clock + 1
    BY <1>2 DEF Tick, AdvanceTime, runVars
  <2>2. \A t \in Times : t <= clock => t <= clock'
    BY <1>0, <2>1, Constants DEF TypeOK, HistoryTypeOK
  <2>3. ASSUME NEW r \in Runs PROVE StubInFlight(r)'
    BY <2>1, <2>2 DEF StubInv, StubInFlight, Stubs, Unseen, LostIn
  <2>4. StubStep
    BY <1>0, <2>1, PricedIsLive DEF StubStep
  <2>5. QED
    BY <1>0, <2>3, <2>4 DEF StubInv
<1>3. CASE ClearCache
  <2>1. \A q \in Queries : disk'[q] = NoRow
    BY <1>3 DEF ClearCache
  <2>2. QED
    BY <1>0, <2>1 DEF StubInv, StubInFlight, StubStep, NoRow
<1>4. ASSUME NEW r \in Runs, RunStep(r) PROVE StubInv' /\ StubStep
  <2>1. ASSUME NEW s \in Runs, s # r PROVE StubInFlight(s)'
    <3>1. pc'[s] = pc[s] /\ query'[s] = query[s] /\ began'[s] = began[s]
      BY <1>0, <1>4, <2>1, OthersCarry
    <3>2. \A q \in Queries : Stubs(s, q)' => Stubs(s, q)
      BY <3>1 DEF Stubs
    <3>3. QED
      BY <1>0, <1>4, <3>1, <3>2, StubCarry DEF StubInv
  <2>2. StubInFlight(r)'
    BY <1>0, <1>4, OwnStubStep DEF StubInv
  <2> QED
    BY <1>0, <1>4, <2>1, <2>2, StubKeeps DEF StubInv
<1> QED
  BY <1>1, <1>2, <1>3, <1>4 DEF Next

\* Beside whatever other processes and read failures, the Stub's zero replaces
\* a price only if that price was written while the offline lookup was under
\* way, or the lookup was unable to read its row.
THEOREM StubCorrect == Spec => OnlyMissedPricesStubbed
<1>1. Init => StubInv
  BY IInvInit DEF Init, StubInv, StubInFlight, Stubs
<1>2. StubInv /\ [Next]_vars => StubInv' /\ [StubStep]_vars
  BY StubInvStep
<1>3. [][StubStep]_vars => OnlyMissedPricesStubbed
  BY PTL DEF OnlyMissedPricesStubbed, StubStep
<1> QED
  BY <1>1, <1>2, <1>3, PTL DEF Spec
=============================================================================
