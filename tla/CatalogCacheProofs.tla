-------------------------- MODULE CatalogCacheProofs -------------------------
(***************************************************************************)
(* Theorems about CatalogCache: where the catalog that a process uses      *)
(* comes from, and how old it is, for any number of processes, versions    *)
(* and moments.                                                            *)
(***************************************************************************)
EXTENDS CatalogCache, TLAPS

-----------------------------------------------------------------------------
(* The inductive invariant.                                                *)

Writing == {"truncate", "write", "truncateETag", "writeETag"}

\* How far a load has come: it ends in time, and what it has received and used
\* was deployed.
LoadInv(p) ==
    /\ began[p] <= now
    /\ Loading(p) => now <= began[p] + MaxLatency
    /\ pc[p] = "idle" => how[p] = "none"
    /\ pc[p] \in Writing => body[p] \in Valid /\ DeployedIn(body[p], began[p], now)
    /\ used[p] # Embedded => DeployedIn(used[p], 0, now)
    /\ how[p] = "fetched" => DeployedIn(used[p], began[p], began[p] + MaxLatency)

\* What is cached was deployed.
DiskInv ==
    /\ mtime <= now
    /\ bundle \in Valid => DeployedIn(bundle, 0, now)
    /\ etag \in Valid => DeployedIn(etag, 0, now)

\* Without overlaps and without a deployment taken back, the etag is never newer
\* than the bundle, ...
AgreeInv ==
    /\ Forward(deployed)
    /\ \A p, q \in Procs : Loading(p) /\ Loading(q) => p = q
    /\ bundle \in Valid => DeployedIn(bundle, mtime - MaxLatency, mtime)
    /\ bundle \in Valid /\ etag \in Valid => etag <= bundle

\* ... so that a bundle whose etag is current is.
OrderlyInv(p) ==
    /\ pc[p] = "read" => began[p] - MaxAge <= mtime
    /\ pc[p] \in {"request", "revalidated"} => sent[p] = etag
    /\ pc[p] = "revalidated" =>
         /\ DeployedIn(sent[p], began[p], now)
         /\ bundle \in Valid => bundle = sent[p]
    /\ pc[p] = "touch" /\ bundle \in Valid => DeployedIn(bundle, began[p], now)
    /\ pc[p] \in {"truncate", "write"} /\ etag \in Valid => etag <= body[p]
    /\ pc[p] = "write" => bundle = Torn
    /\ pc[p] \in {"truncateETag", "writeETag"} => bundle = body[p]
    /\ how[p] = "revalidated" => DeployedIn(used[p], began[p], began[p] + MaxLatency)
    /\ how[p] = "fresh" =>
         DeployedIn(used[p], began[p] - MaxAge - MaxLatency, began[p] + MaxLatency)

IInv ==
    /\ TypeOK /\ DiskInv
    /\ \A p \in Procs : LoadInv(p)
    /\ orderly => AgreeInv /\ \A p \in Procs : OrderlyInv(p)

\* What was deployed in an interval was in a larger one.
LEMMA DeployedLonger ==
    ASSUME NEW v, NEW lo \in Int, NEW hi \in Int, NEW low \in Int, NEW high \in Int,
           DeployedIn(v, lo, hi), low <= lo, hi <= high
    PROVE  DeployedIn(v, low, high)
BY DEF DeployedIn, Times, TimeAssumption

\* The version of this moment.
LEMMA CurrentDeployed ==
    ASSUME TypeOK
    PROVE  /\ Current \in Versions
           /\ \A lo, hi \in Int : lo <= now /\ now <= hi => DeployedIn(Current, lo, hi)
BY DEF TypeOK, Current, DeployedIn

LEMMA InitHolds == Init => IInv
<1> SUFFICES ASSUME Init PROVE IInv
  OBVIOUS
<1>1. TypeOK
  BY VersionAssumption, TimeAssumption DEF Init, TypeOK, Times, Labels, Paths
<1>2. DiskInv
  <2>1. now = 0 /\ mtime = 0 /\ bundle = NoFile /\ etag = NoFile
    BY DEF Init
  <2>2. mtime <= now
    BY <2>1
  <2>3. NoFile \notin Valid
    BY VersionAssumption
  <2> QED
    BY <2>1, <2>2, <2>3 DEF DiskInv
<1>3. ASSUME NEW p \in Procs PROVE LoadInv(p)
  BY <1>3 DEF Init, LoadInv, Loading, Writing
<1>4. ASSUME orderly PROVE AgreeInv /\ \A p \in Procs : OrderlyInv(p)
  BY <1>4, VersionAssumption DEF Init, AgreeInv, OrderlyInv, Loading
<1> QED
  BY <1>1, <1>2, <1>3, <1>4 DEF IInv

-----------------------------------------------------------------------------
(* One lemma per part of the invariant.                                    *)

LEMMA TypeStep == ASSUME IInv, [Next]_vars PROVE TypeOK'
<1> USE VersionAssumption DEF IInv, TypeOK, disk, load, Goto, Answer, Usable, Labels, Paths
<1>1. CASE UNCHANGED vars
  BY <1>1 DEF vars
<1>2. CASE Tick
  BY <1>2, TimeAssumption DEF Tick, Times
<1>3. ASSUME NEW p \in Procs, Start(p) PROVE TypeOK'
  BY <1>3 DEF Start
<1>4. ASSUME NEW p \in Procs, Exit(p) \/ Crash(p) PROVE TypeOK'
  <2>1. Gone(p)
    BY <1>4 DEF Exit, Crash
  <2>2. 0 \in Times
    BY TimeAssumption DEF Times
  <2> QED
    BY <2>1, <2>2 DEF Gone
<1>5. ASSUME NEW p \in Procs, Proceed(p) PROVE TypeOK'
  <2>0. CASE Stat(p)
    BY <1>5, <2>0 DEF Stat
  <2>1. CASE ReadFresh(p)
    BY <1>5, <2>1 DEF ReadFresh
  <2>2. CASE ReadETag(p)
    BY <1>5, <2>2 DEF ReadETag
  <2>3. CASE NotModified(p)
    BY <1>5, <2>3 DEF NotModified, Current
  <2>4. CASE Receive(p)
    BY <1>5, <2>4, CurrentDeployed DEF Receive
  <2>5. CASE RequestFails(p)
    BY <1>5, <2>5 DEF RequestFails
  <2>6. CASE UseRevalidated(p)
    BY <1>5, <2>6 DEF UseRevalidated
  <2>7. CASE Touch(p)
    BY <1>5, <2>7 DEF Touch
  <2>8. CASE Refetch(p)
    BY <1>5, <2>8, CurrentDeployed DEF Refetch
  <2>9. CASE Fallback(p)
    BY <1>5, <2>9 DEF Fallback
  <2>10. CASE TruncateBundle(p)
    BY <1>5, <2>10 DEF TruncateBundle
  <2>11. CASE WriteBundle(p)
    BY <1>5, <2>11 DEF WriteBundle, LoadInv, Writing
  <2>12. CASE TruncateETag(p)
    BY <1>5, <2>12 DEF TruncateETag
  <2>13. CASE WriteETag(p)
    BY <1>5, <2>13 DEF WriteETag, LoadInv, Writing
  <2>14. CASE WriteFails(p)
    BY <1>5, <2>14 DEF WriteFails
  <2> QED
    BY <1>5, <2>0, <2>1, <2>2, <2>3, <2>4, <2>5, <2>6, <2>7, <2>8,
       <2>9, <2>10, <2>11, <2>12, <2>13, <2>14 DEF Proceed
<1> QED
  BY <1>1, <1>2, <1>3, <1>4, <1>5 DEF Next

\* The disk holds what was deployed: the bundle and the etag of one load, which
\* it has received since it began.
LEMMA DiskStep == ASSUME IInv, [Next]_vars PROVE DiskInv'
<1>0. TypeOK /\ TypeOK' /\ DiskInv /\ UNCHANGED deployed
  <2>1. UNCHANGED deployed
    BY DEF Next, vars, Tick, Start, Exit, Crash, Gone, Proceed, Stat, ReadFresh,
           ReadETag, NotModified, Receive, RequestFails, UseRevalidated, Touch, Refetch,
           Fallback, TruncateBundle, WriteBundle, TruncateETag, WriteETag, WriteFails
  <2> QED
    BY <2>1, TypeStep DEF IInv
<1>1. now \in Nat /\ now' \in Nat /\ mtime \in Nat /\ mtime' \in Nat
  BY <1>0, TimeAssumption DEF TypeOK, Times
<1>2. CASE UNCHANGED disk /\ now' >= now
  BY <1>0, <1>1, <1>2, TimeAssumption DEF DiskInv, disk, DeployedIn, Times
<1>3. ASSUME NEW p \in Procs, Touch(p) PROVE DiskInv'
  BY <1>0, <1>1, <1>3 DEF Touch, DiskInv, DeployedIn
<1>4. ASSUME NEW p \in Procs, TruncateBundle(p) PROVE DiskInv'
  <2>1. bundle' \notin Valid /\ mtime' = now /\ now' = now /\ etag' = etag
    BY <1>4, VersionAssumption DEF TruncateBundle
  <2> QED
    BY <1>0, <1>1, <2>1 DEF DiskInv, DeployedIn
<1>5. ASSUME NEW p \in Procs, pc[p] \in Writing PROVE DeployedIn(body[p], 0, now)
  BY <1>0, <1>1, <1>5, TimeAssumption DEF IInv, LoadInv, DeployedIn, TypeOK, Times
<1>6. ASSUME NEW p \in Procs, WriteBundle(p) PROVE DiskInv'
  <2>1. DeployedIn(body[p], 0, now) /\ now' = now /\ mtime' = now /\ etag' = etag
    BY <1>5, <1>6 DEF WriteBundle, Writing
  <2>2. bundle' \in Valid => bundle' = body[p]
    BY <1>6, VersionAssumption DEF WriteBundle
  <2> QED
    BY <1>0, <1>1, <2>1, <2>2 DEF DiskInv, DeployedIn
<1>7. ASSUME NEW p \in Procs, TruncateETag(p) PROVE DiskInv'
  BY <1>0, <1>1, <1>7, VersionAssumption DEF TruncateETag, DiskInv, DeployedIn
<1>8. ASSUME NEW p \in Procs, WriteETag(p) PROVE DiskInv'
  <2>1. DeployedIn(body[p], 0, now) /\ UNCHANGED <<now, mtime, bundle>> /\ etag' = body[p]
    BY <1>5, <1>8 DEF WriteETag, Writing
  <2> QED
    BY <1>0, <1>1, <2>1 DEF DiskInv, DeployedIn
<1>9. CASE Tick
  <2>1. UNCHANGED disk /\ now' = now + 1
    BY <1>9 DEF Tick
  <2> QED
    BY <1>1, <1>2, <2>1
<1>10. CASE UNCHANGED vars
  <2>1. UNCHANGED disk /\ now' = now
    BY <1>10 DEF vars
  <2> QED
    BY <1>1, <1>2, <2>1
<1>11. ASSUME NEW p \in Procs,
              \/ Start(p) \/ Exit(p) \/ Crash(p) \/ Stat(p) \/ ReadFresh(p)
              \/ ReadETag(p)
              \/ NotModified(p)
              \/ Receive(p) \/ RequestFails(p) \/ UseRevalidated(p) \/ Refetch(p) \/ Fallback(p)
              \/ WriteFails(p)
       PROVE  DiskInv'
  <2>1. UNCHANGED disk /\ now' = now
    BY <1>11 DEF Start, Exit, Crash, Gone, Stat, ReadFresh, ReadETag, NotModified, Receive,
       RequestFails, UseRevalidated, Refetch, Fallback, WriteFails
  <2> QED
    BY <1>1, <1>2, <2>1
<1> QED
  BY <1>3, <1>4, <1>6, <1>7, <1>8, <1>9, <1>10, <1>11 DEF Next, Proceed

\* What the steps of one load leave alone.
LEMMA OthersKeep ==
    ASSUME TypeOK, NEW p \in Procs, NEW q \in Procs, p # q, Proceed(p)
    PROVE  /\ UNCHANGED <<orderly, now, deployed, began>>
           /\ pc'[q] = pc[q] /\ sent'[q] = sent[q] /\ body'[q] = body[q]
           /\ used'[q] = used[q] /\ how'[q] = how[q]
BY DEF Proceed, Stat, ReadFresh, ReadETag, NotModified, Receive, RequestFails, UseRevalidated,
   Touch, Refetch, Fallback, TruncateBundle, WriteBundle, TruncateETag, WriteETag, WriteFails, Goto,
   Answer, load, disk, TypeOK

\* A load that another process's step leaves alone.
LEMMA LoadFrame ==
    ASSUME IInv, TypeOK', NEW q \in Procs, now' = now, deployed' = deployed,
           pc'[q] = pc[q], began'[q] = began[q], body'[q] = body[q], used'[q] = used[q],
           how'[q] = how[q]
    PROVE  LoadInv(q)'
<1>1. LoadInv(q)
  BY DEF IInv
<1> QED
  BY <1>1 DEF LoadInv, Loading, Writing, DeployedIn

\* A load receives what is deployed at that moment.
LEMMA LoadStep == ASSUME IInv, [Next]_vars, NEW q \in Procs PROVE LoadInv(q)'
<1>0. TypeOK /\ TypeOK' /\ DiskInv /\ LoadInv(q)
  BY TypeStep DEF IInv
<1>1. now \in Nat /\ now' \in Nat /\ began[q] \in Nat /\ MaxLatency \in Nat /\ MaxTime \in Nat
  BY <1>0, TimeAssumption DEF TypeOK, Times
<1>2. CASE UNCHANGED vars
  BY <1>0, <1>2, LoadFrame DEF vars, load
<1>3. CASE Tick
  BY <1>0, <1>1, <1>3 DEF Tick, LoadInv, DeployedIn, Loading, Writing, load, disk, Times, TypeOK
<1>4. ASSUME NEW p \in Procs, Start(p) PROVE LoadInv(q)'
  <2>1. CASE p = q
    BY <1>0, <1>1, <1>4, <2>1
       DEF Start, Goto, LoadInv, DeployedIn, Loading, Writing, disk, TypeOK
  <2>2. CASE p # q
    BY <1>0, <1>4, <2>2, LoadFrame DEF Start, Goto, disk, TypeOK
  <2> QED
    BY <2>1, <2>2
<1>5. ASSUME NEW p \in Procs, Gone(p) PROVE LoadInv(q)'
  <2>1. CASE p = q
    BY <1>0, <1>1, <1>5, <2>1
       DEF Gone, Goto, Answer, LoadInv, Loading, Writing, TypeOK
  <2>2. CASE p # q
    BY <1>0, <1>5, <2>2, LoadFrame DEF Gone, Goto, Answer, TypeOK
  <2> QED
    BY <2>1, <2>2
<1>6. ASSUME NEW p \in Procs, Proceed(p) PROVE LoadInv(q)'
  <2>1. CASE p # q
    BY <1>0, <1>6, <2>1, OthersKeep, LoadFrame
  <2>2. CASE p = q
    <3> USE <1>0, <1>1, <2>2 DEF Goto, Answer, load, LoadInv, Loading, Writing,
               DeployedIn, TypeOK
    <3>0. CASE Stat(p)
      BY <3>0 DEF Stat
    <3>1. CASE ReadFresh(p)
      BY <3>1 DEF ReadFresh, Usable, DiskInv
    <3>2. CASE ReadETag(p)
      BY <3>2 DEF ReadETag
    <3>3. CASE NotModified(p)
      BY <3>3 DEF NotModified
    <3>4. CASE Receive(p)
      BY <3>4 DEF Receive, Usable, Current, Times
    <3>5. CASE RequestFails(p)
      BY <3>5 DEF RequestFails
    <3>6. CASE UseRevalidated(p)
      BY <3>6 DEF UseRevalidated, Usable, DiskInv
    <3>7. CASE Touch(p)
      BY <3>7 DEF Touch
    <3>8. CASE Refetch(p)
      BY <3>8 DEF Refetch, Usable, Current, Times
    <3>9. CASE Fallback(p)
      BY <3>9 DEF Fallback, Usable, DiskInv
    <3>10. CASE TruncateBundle(p)
      BY <3>10 DEF TruncateBundle
    <3>11. CASE WriteBundle(p)
      BY <3>11 DEF WriteBundle
    <3>12. CASE TruncateETag(p)
      BY <3>12 DEF TruncateETag
    <3>13. CASE WriteETag(p)
      BY <3>13 DEF WriteETag
    <3>14. CASE WriteFails(p)
      BY <3>14 DEF WriteFails
    <3> QED
      BY <1>6, <3>0, <3>1, <3>2, <3>3, <3>4, <3>5, <3>6, <3>7, <3>8,
         <3>9, <3>10, <3>11, <3>12, <3>13, <3>14 DEF Proceed
  <2> QED
    BY <2>1, <2>2
<1> QED
  BY <1>2, <1>3, <1>4, <1>5, <1>6 DEF Next, Exit, Crash

\* Only a load proceeds; it is in order when no other one is under way.
LEMMA LoadsInTurn ==
    ASSUME IInv, [Next]_vars, orderly
    PROVE  (\A p, q \in Procs : Loading(p) /\ Loading(q) => p = q)'
<1>0. AgreeInv /\ TypeOK
  BY DEF IInv
<1>1. CASE UNCHANGED pc
  BY <1>0, <1>1 DEF AgreeInv, Loading
<1>2. ASSUME NEW p \in Procs, \A q \in Procs \ {p} : pc'[q] = pc[q], Loading(p)
      PROVE  (\A r, q \in Procs : Loading(r) /\ Loading(q) => r = q)'
  BY <1>0, <1>2 DEF AgreeInv, Loading
<1>3. ASSUME NEW p \in Procs, Start(p)
      PROVE  (\A r, q \in Procs : Loading(r) /\ Loading(q) => r = q)'
  BY <1>0, <1>3 DEF Start, Goto, TypeOK, Loading
<1>4. ASSUME NEW p \in Procs, Exit(p)
      PROVE  (\A r, q \in Procs : Loading(r) /\ Loading(q) => r = q)'
  BY <1>0, <1>4 DEF Exit, Gone, Goto, TypeOK, AgreeInv, Loading
<1>5. ASSUME NEW p \in Procs, Crash(p)
      PROVE  Loading(p) /\ \A q \in Procs \ {p} : pc'[q] = pc[q]
  BY <1>0, <1>5 DEF Crash, Gone, Goto, TypeOK
<1>6. ASSUME NEW p \in Procs, Proceed(p)
      PROVE  Loading(p) /\ \A q \in Procs \ {p} : pc'[q] = pc[q]
  BY <1>0, <1>6
     DEF Proceed, Stat, ReadFresh, ReadETag, NotModified, Receive, RequestFails, UseRevalidated,
         Touch, Refetch, Fallback, TruncateBundle, WriteBundle, TruncateETag, WriteETag,
         WriteFails, Goto, TypeOK, Loading
<1>7. Tick \/ UNCHANGED vars => UNCHANGED pc
  BY DEF Tick, vars
<1> QED
  BY <1>1, <1>2, <1>3, <1>4, <1>5, <1>6, <1>7 DEF Next

\* In order, bundle and etag are of one load, the bundle first.
LEMMA AgreeStep == ASSUME IInv, [Next]_vars, orderly PROVE AgreeInv'
<1>0. /\ TypeOK /\ TypeOK' /\ AgreeInv /\ DiskInv
      /\ \A p \in Procs : LoadInv(p) /\ OrderlyInv(p)
  BY TypeStep DEF IInv
<1> DEFINE Same == UNCHANGED <<deployed, bundle, mtime, etag>>
           Part == /\ Forward(deployed)
                   /\ bundle \in Valid => DeployedIn(bundle, mtime - MaxLatency, mtime)
                   /\ bundle \in Valid /\ etag \in Valid => etag <= bundle
<1>1. Part /\ now \in Nat /\ MaxLatency \in Nat
  BY <1>0, TimeAssumption DEF AgreeInv, TypeOK, Times
<1>2. ASSUME Same PROVE Part'
  BY <1>1, <1>2 DEF DeployedIn, Forward
<1>3. ASSUME NEW p \in Procs, Touch(p) PROVE Part'
  <2>1. /\ bundle \in Valid => DeployedIn(bundle, began[p], now) /\ mtime' = now
        /\ UNCHANGED <<deployed, bundle, etag>>
    BY <1>0, <1>3, VersionAssumption DEF Touch, OrderlyInv
  <2>2. began[p] \in Nat
    BY <1>0, TimeAssumption DEF TypeOK, Times
  <2>3. now <= began[p] + MaxLatency
    BY <1>0, <1>3 DEF Touch, LoadInv, Loading
  <2> QED
    BY <1>1, <2>1, <2>2, <2>3, TimeAssumption DEF DeployedIn, Forward, Times
<1>4. ASSUME NEW p \in Procs, TruncateBundle(p) PROVE Part'
  <2>1. bundle' \notin Valid /\ UNCHANGED <<deployed, etag>>
    BY <1>4, VersionAssumption DEF TruncateBundle
  <2> QED
    BY <1>1, <2>1 DEF Forward
<1>5. ASSUME NEW p \in Procs, WriteBundle(p) PROVE Part'
  <2>1. /\ bundle' = body[p] /\ mtime' = now /\ UNCHANGED <<deployed, etag>>
        /\ etag \in Valid => etag <= body[p]
    BY <1>0, <1>5 DEF WriteBundle, OrderlyInv
  <2>2. began[p] \in Nat
    BY <1>0, TimeAssumption DEF TypeOK, Times
  <2>3. now <= began[p] + MaxLatency /\ DeployedIn(body[p], began[p], now)
    BY <1>0, <1>5 DEF WriteBundle, LoadInv, Loading, Writing
  <2> QED
    BY <1>1, <2>1, <2>2, <2>3, TimeAssumption DEF DeployedIn, Forward, Times
<1>6. ASSUME NEW p \in Procs, TruncateETag(p) PROVE Part'
  <2>1. etag' \notin Valid /\ UNCHANGED <<deployed, bundle, mtime>>
    BY <1>6, VersionAssumption DEF TruncateETag
  <2> QED
    BY <1>1, <2>1 DEF DeployedIn, Forward
<1>7. ASSUME NEW p \in Procs, WriteETag(p) PROVE Part'
  <2>1. etag' = bundle /\ UNCHANGED <<deployed, bundle, mtime>>
    BY <1>0, <1>7 DEF WriteETag, OrderlyInv
  <2>2. bundle \in Valid => bundle \in Nat
    BY VersionAssumption
  <2> QED
    BY <1>1, <2>1, <2>2 DEF DeployedIn, Forward
<1>8. ASSUME NEW p \in Procs,
             \/ Start(p) \/ Exit(p) \/ Crash(p) \/ Stat(p) \/ ReadFresh(p)
             \/ ReadETag(p) \/ NotModified(p)
             \/ Receive(p) \/ RequestFails(p) \/ UseRevalidated(p) \/ Refetch(p) \/ Fallback(p)
             \/ WriteFails(p)
      PROVE  Same
  BY <1>8 DEF Start, Exit, Crash, Gone, Stat, ReadFresh, ReadETag, NotModified, Receive,
     RequestFails, UseRevalidated, Refetch, Fallback, WriteFails, disk
<1>9. Tick \/ UNCHANGED vars => Same
  BY DEF Tick, vars, disk
<1> HIDE DEF Same
<1>10. Part'
  BY <1>2, <1>3, <1>4, <1>5, <1>6, <1>7, <1>8, <1>9 DEF Next, Proceed
<1> QED
  BY <1>10, LoadsInTurn DEF AgreeInv

\* A load in order that another step leaves alone, and the disk if it is under way.
LEMMA OrderlyFrame ==
    ASSUME IInv, orderly, TypeOK', NEW q \in Procs, deployed' = deployed, now' >= now,
           pc'[q] = pc[q], began'[q] = began[q], sent'[q] = sent[q], body'[q] = body[q],
           used'[q] = used[q], how'[q] = how[q],
           Loading(q) => UNCHANGED <<bundle, etag, mtime>>
    PROVE  OrderlyInv(q)'
<1>1. OrderlyInv(q) /\ now \in Nat /\ now' \in Nat
  BY TimeAssumption DEF IInv, TypeOK, Times
<1>2. pc'[q] \in {"request", "revalidated"} => sent'[q] = etag'
  BY <1>1 DEF OrderlyInv, Loading
<1>3. (pc[q] = "revalidated" =>
         /\ DeployedIn(sent[q], began[q], now)
         /\ bundle \in Valid => bundle = sent[q])'
  BY <1>1, TimeAssumption DEF OrderlyInv, Loading, DeployedIn, Times
<1>4. (pc[q] = "touch" /\ bundle \in Valid => DeployedIn(bundle, began[q], now))'
  BY <1>1, TimeAssumption DEF OrderlyInv, Loading, DeployedIn, Times
<1>5. /\ (pc[q] = "read" => began[q] - MaxAge <= mtime)'
      /\ (pc[q] \in {"truncate", "write"} /\ etag \in Valid => etag <= body[q])'
      /\ (pc[q] = "write" => bundle = Torn)'
      /\ (pc[q] \in {"truncateETag", "writeETag"} => bundle = body[q])'
  BY <1>1 DEF OrderlyInv, Loading
<1>6. (how[q] = "revalidated" => DeployedIn(used[q], began[q], began[q] + MaxLatency))'
  BY <1>1 DEF OrderlyInv, DeployedIn
<1>7. (how[q] = "fresh" =>
         DeployedIn(used[q], began[q] - MaxAge - MaxLatency, began[q] + MaxLatency))'
  BY <1>1 DEF OrderlyInv, DeployedIn
<1> QED
  BY <1>2, <1>3, <1>4, <1>5, <1>6, <1>7 DEF OrderlyInv

\* In order, nothing that was deployed is newer than the version of this moment.
LEMMA CurrentIsNewest ==
    ASSUME IInv, orderly, NEW v \in Valid, DeployedIn(v, 0, now)
    PROVE  v <= Current
BY DEF IInv, AgreeInv, Forward, DeployedIn, TypeOK, Current

\* In order, a 304 is about the bundle that is there.
LEMMA OrderlyStep ==
    ASSUME IInv, [Next]_vars, orderly, NEW q \in Procs
    PROVE  OrderlyInv(q)'
<1>0. /\ TypeOK /\ TypeOK' /\ AgreeInv /\ DiskInv /\ LoadInv(q) /\ OrderlyInv(q)
  BY TypeStep DEF IInv
<1>1. /\ now \in Nat /\ MaxLatency \in Nat /\ MaxAge \in Nat /\ began[q] \in Nat
      /\ mtime \in Nat /\ Valid \subseteq Nat
  BY <1>0, TimeAssumption, VersionAssumption DEF TypeOK, Times
<1>2. CASE Tick \/ UNCHANGED vars
  <2>1. UNCHANGED <<deployed, bundle, etag, mtime, pc, began, sent, body, used, how>>
    BY <1>2 DEF Tick, vars, load, disk
  <2>2. now' = now \/ now' = now + 1
    BY <1>2 DEF Tick, vars
  <2>3. now' >= now
    BY <1>1, <2>2
  <2> QED
    BY <1>0, <2>1, <2>3, OrderlyFrame
<1>3. ASSUME NEW p \in Procs, Start(p) PROVE OrderlyInv(q)'
  <2>1. CASE p # q
    BY <1>0, <1>1, <1>3, <2>1, OrderlyFrame DEF Start, Goto, disk, TypeOK
  <2>2. CASE p = q
    BY <1>0, <1>1, <1>3, <2>2 DEF Start, Goto, disk, TypeOK, OrderlyInv, LoadInv
  <2> QED
    BY <2>1, <2>2
<1>4. ASSUME NEW p \in Procs, Gone(p) PROVE OrderlyInv(q)'
  <2>1. CASE p # q
    BY <1>0, <1>1, <1>4, <2>1, OrderlyFrame DEF Gone, Goto, Answer, disk, TypeOK
  <2>2. CASE p = q
    BY <1>0, <1>4, <2>2 DEF Gone, Goto, Answer, TypeOK, OrderlyInv
  <2> QED
    BY <2>1, <2>2
<1>5. ASSUME NEW p \in Procs, Proceed(p), p # q PROVE OrderlyInv(q)'
  <2>1. ~Loading(q)
    BY <1>0, <1>5
       DEF Proceed, Stat, ReadFresh, ReadETag, NotModified, Receive, RequestFails, UseRevalidated,
           Touch, Refetch, Fallback, TruncateBundle, WriteBundle, TruncateETag, WriteETag,
           WriteFails, AgreeInv, Loading
  <2>2. /\ UNCHANGED <<now, deployed, began>>
        /\ pc'[q] = pc[q] /\ sent'[q] = sent[q] /\ body'[q] = body[q]
        /\ used'[q] = used[q] /\ how'[q] = how[q]
    BY <1>0, <1>5, OthersKeep
  <2>3. now' >= now
    BY <1>1, <2>2
  <2> QED
    BY <1>0, <2>1, <2>2, <2>3, OrderlyFrame
<1>6. CASE Proceed(q)
  <2> USE <1>0, <1>1 DEF Goto, Answer, load, disk, TypeOK, OrderlyInv
  <2>0. CASE Stat(q)
    BY <2>0 DEF Stat, DeployedIn, LoadInv
  <2>1. CASE ReadFresh(q)
    <3>1. Usable(bundle) =>
            DeployedIn(bundle, began[q] - MaxAge - MaxLatency, began[q] + MaxLatency)
      <4> SUFFICES ASSUME bundle \in Valid
                   PROVE  DeployedIn(bundle, began[q] - MaxAge - MaxLatency,
                                       began[q] + MaxLatency)
        BY DEF Usable
      <4>1. DeployedIn(bundle, mtime - MaxLatency, mtime)
        BY DEF AgreeInv
      <4>2. began[q] - MaxAge <= mtime
        BY <2>1 DEF ReadFresh
      <4>3. mtime <= now /\ now <= began[q] + MaxLatency
        BY <2>1 DEF ReadFresh, DiskInv, LoadInv, Loading
      <4> HIDE DEF TypeOK, OrderlyInv
      <4> QED
        BY <1>1, <4>1, <4>2, <4>3, DeployedLonger
    <3> QED
      BY <2>1, <3>1 DEF ReadFresh, DeployedIn, LoadInv
  <2>2. CASE ReadETag(q)
    BY <2>2 DEF ReadETag, DeployedIn
  <2>3. CASE NotModified(q)
    <3>1. sent[q] = Current /\ sent[q] = etag /\ pc'[q] = "revalidated"
          /\ UNCHANGED <<now, deployed, bundle, etag, began, sent, body, used, how>>
      BY <2>3 DEF NotModified
    <3>2. etag \in Valid /\ DeployedIn(etag, began[q], now)
      BY <3>1, CurrentDeployed, VersionAssumption DEF LoadInv
    <3>3. ASSUME bundle \in Valid PROVE bundle = etag
      <4>1. bundle <= etag
        BY <3>1, <3>3, CurrentIsNewest DEF DiskInv
      <4>2. etag <= bundle
        BY <3>2, <3>3 DEF AgreeInv
      <4>3. bundle \in Int /\ etag \in Int
        BY <3>2, <3>3, VersionAssumption
      <4> HIDE DEF TypeOK, OrderlyInv
      <4> QED
        BY <4>1, <4>2, <4>3
    <3> QED
      BY <3>1, <3>2, <3>3 DEF DeployedIn
  <2>4. CASE Receive(q)
    <3>1. etag \in Valid => etag <= Current
      BY CurrentIsNewest DEF DiskInv
    <3>2. how'[q] \notin {"revalidated", "fresh"}
      BY <2>4 DEF Receive
    <3> QED
      BY <2>4, <3>1, <3>2 DEF Receive, DeployedIn
  <2>5. CASE RequestFails(q)
    BY <2>5 DEF RequestFails, DeployedIn
  <2>6. CASE UseRevalidated(q)
    BY <2>6 DEF UseRevalidated, Usable, LoadInv, Loading, DeployedIn
  <2>7. CASE Touch(q)
    BY <2>7 DEF Touch, DeployedIn
  <2>8. CASE Refetch(q)
    <3>1. etag \in Valid => etag <= Current
      BY CurrentIsNewest DEF DiskInv
    <3> QED
      BY <2>8, <3>1 DEF Refetch, DeployedIn
  <2>9. CASE Fallback(q)
    BY <2>9 DEF Fallback, DeployedIn
  <2>10. CASE TruncateBundle(q)
    BY <2>10 DEF TruncateBundle, DeployedIn
  <2>11. CASE WriteBundle(q)
    BY <2>11 DEF WriteBundle, DeployedIn
  <2>12. CASE TruncateETag(q)
    BY <2>12 DEF TruncateETag, DeployedIn
  <2>13. CASE WriteETag(q)
    BY <2>13 DEF WriteETag, DeployedIn
  <2>14. CASE WriteFails(q)
    BY <2>14 DEF WriteFails, DeployedIn
  <2> QED
    BY <1>6, <2>0, <2>1, <2>2, <2>3, <2>4, <2>5, <2>6, <2>7, <2>8,
       <2>9, <2>10, <2>11, <2>12, <2>13, <2>14 DEF Proceed
<1> QED
  BY <1>2, <1>3, <1>4, <1>5, <1>6 DEF Next, Exit, Crash

LEMMA OrderlyStays == [Next]_vars => orderly' = orderly
BY DEF Next, vars, Tick, Start, Exit, Crash, Gone, Proceed, Stat, ReadFresh, ReadETag, NotModified,
   Receive, RequestFails, UseRevalidated, Touch, Refetch, Fallback, TruncateBundle, WriteBundle,
   TruncateETag, WriteETag, WriteFails

LEMMA Invariant == Spec => []IInv
<1>1. IInv /\ [Next]_vars => IInv'
  BY TypeStep, DiskStep, LoadStep, AgreeStep, OrderlyStep, OrderlyStays DEF IInv
<1> QED
  BY <1>1, InitHolds, PTL DEF Spec

-----------------------------------------------------------------------------
(* The properties.                                                         *)

\* Type correctness.
THEOREM TypeCorrect == Spec => []TypeOK
<1>1. IInv => TypeOK
  BY DEF IInv
<1> QED
  BY <1>1, Invariant, PTL

\* Whatever is used was deployed; what was fetched, while it was being fetched.
\* Processes may overlap, and deployments be taken back.
THEOREM UsedCorrect == Spec => []UsedWasDeployed
<1>1. IInv => UsedWasDeployed
  BY DEF IInv, LoadInv, UsedWasDeployed
<1> QED
  BY <1>1, Invariant, PTL

\* A bundle used after a 304 is one that the server had during the load.
THEOREM RevalidatedCorrect == Spec => []RevalidatedIsCurrent
<1>1. IInv => RevalidatedIsCurrent
  BY DEF IInv, OrderlyInv, RevalidatedIsCurrent
<1> QED
  BY <1>1, Invariant, PTL

\* A bundle used without asking is young enough.
THEOREM FreshCorrect == Spec => []FreshIsYoung
<1>1. IInv => FreshIsYoung
  BY DEF IInv, OrderlyInv, FreshIsYoung
<1> QED
  BY <1>1, Invariant, PTL
=============================================================================
