---------------------------- MODULE CatalogCache ----------------------------
(***************************************************************************)
(* LoadAuto of internal/catalog/remote.go: processes that fetch the        *)
(* catalog bundle from a server which deploys new versions, and share a    *)
(* bundle file and an etag file.  One step is one request or one system    *)
(* call that another process can tell apart.                               *)
(*                                                                         *)
(* A version stands for the bundle, its hash and its etag.                 *)
(***************************************************************************)
EXTENDS Integers

CONSTANTS
    Procs,
    Versions,       \* numbered in the order of their deployment
    Valid,          \* those this engine can load
    MaxAge,         \* before a cached bundle is revalidated
    MaxLatency,     \* a load takes at most this long
    MaxTime,        \* bound of the clock
    MaxRaceTime,    \* bound of the clock where processes overlap
    NoFile, Torn, Embedded

ASSUME VersionAssumption ==
    /\ Versions \subseteq Nat /\ Valid \subseteq Versions
    /\ NoFile \notin Versions /\ Torn \notin Versions /\ Embedded \notin Versions
    /\ NoFile # Torn
ASSUME TimeAssumption ==
    /\ MaxAge \in Nat /\ MaxLatency \in Nat
    /\ MaxTime \in Nat /\ MaxRaceTime \in 0 .. MaxTime

Times == 0 .. MaxTime

VARIABLES
    orderly,        \* whether deployments only go forward, loads one at a time
    now,
    deployed,       \* the server's version at every time; the past matters
    bundle, mtime,  \* catalog-bundle.json
    etag,           \* catalog-bundle.etag, NoFile also when it is empty
    pc,
    began,          \* when the process's load began
    sent,           \* the etag it sent
    body,           \* the bundle it received
    used,           \* the catalog it ends up with
    how             \* and by which path

disk == <<bundle, mtime, etag>>
load == <<began, sent, body, used, how>>
vars == <<orderly, now, deployed, disk, pc, load>>

Current == deployed[now]

\* Faulty Usable: a file that does not decode counts as a bundle.
UsableAnything(content) == content # NoFile

\* registryFromBundle succeeds: a torn file is not JSON.
Usable(content) == content \in Valid

\* No deployment is taken back.
Forward(h) == \A s, t \in Times : s <= t => h[s] <= h[t]

\* Where the clock stops earlier, nothing is deployed after it.
Ended(h) == \A t \in Times : t > MaxRaceTime => h[t] = h[MaxRaceTime]

Init ==
    /\ now = 0
    /\ orderly \in BOOLEAN
    /\ deployed \in [Times -> Versions]
    /\ IF orderly THEN Forward(deployed) ELSE Ended(deployed)
    /\ bundle = NoFile /\ mtime = 0 /\ etag = NoFile
    /\ pc = [p \in Procs |-> "idle"]
    /\ began = [p \in Procs |-> 0]
    /\ sent = [p \in Procs |-> NoFile]
    /\ body = [p \in Procs |-> NoFile]
    /\ used = [p \in Procs |-> Embedded]
    /\ how = [p \in Procs |-> "none"]

Goto(p, l) == pc' = [pc EXCEPT ![p] = l]

Loading(p) == pc[p] \notin {"idle", "loaded"}

Answer(p, v, path) ==
    /\ used' = [used EXCEPT ![p] = v]
    /\ how' = [how EXCEPT ![p] = path]

\* A process starts and loads its catalog.
Start(p) ==
    /\ pc[p] = "idle"
    /\ orderly => \A q \in Procs : ~Loading(q)
    /\ began' = [began EXCEPT ![p] = now]
    /\ Goto(p, "stat")
    /\ UNCHANGED <<orderly, now, deployed, disk, sent, body, used, how>>

\* The process is gone, and its memory with it.
Gone(p) ==
    /\ began' = [began EXCEPT ![p] = 0]
    /\ sent' = [sent EXCEPT ![p] = NoFile]
    /\ body' = [body EXCEPT ![p] = NoFile]
    /\ Answer(p, Embedded, "none")
    /\ Goto(p, "idle")
    /\ UNCHANGED <<orderly, now, deployed, disk>>

\* Whether there is a cached bundle that is young enough, ...
Stat(p) ==
    /\ pc[p] = "stat"
    /\ Goto(p, IF bundle # NoFile /\ now - mtime <= MaxAge THEN "read" ELSE "etag")
    /\ UNCHANGED <<orderly, now, deployed, disk, load>>

\* ... which is read afterwards, and is the answer when it loads.
ReadFresh(p) ==
    /\ pc[p] = "read"
    /\ IF Usable(bundle)
       THEN Answer(p, bundle, "fresh") /\ Goto(p, "loaded")
       ELSE UNCHANGED <<used, how>> /\ Goto(p, "etag")
    /\ UNCHANGED <<orderly, now, deployed, disk, began, sent, body>>

ReadETag(p) ==
    /\ pc[p] = "etag"
    /\ sent' = [sent EXCEPT ![p] = etag]
    /\ Goto(p, "request")
    /\ UNCHANGED <<orderly, now, deployed, disk, began, body, used, how>>

NotModified(p) ==
    /\ pc[p] = "request"
    /\ sent[p] = Current
    /\ Goto(p, "revalidated")
    /\ UNCHANGED <<orderly, now, deployed, disk, load>>

\* 200: a bundle that loads is the answer, and is cached; any other is dropped.
Receive(p) ==
    /\ pc[p] = "request"
    /\ sent[p] # Current
    /\ body' = [body EXCEPT ![p] = Current]
    /\ IF Usable(Current)
       THEN Answer(p, Current, "fetched") /\ Goto(p, "truncate")
       ELSE Answer(p, Embedded, "invalid") /\ Goto(p, "loaded")
    /\ UNCHANGED <<orderly, now, deployed, disk, began, sent>>

\* 304: the cached bundle, whatever its age, is current; if it cannot be used it
\* is fetched again without the etag.
UseRevalidated(p) ==
    /\ pc[p] = "revalidated"
    /\ IF Usable(bundle)
       THEN Answer(p, bundle, "revalidated") /\ Goto(p, "touch")
       ELSE UNCHANGED <<used, how>> /\ Goto(p, "refetch")
    /\ UNCHANGED <<orderly, now, deployed, disk, began, sent, body>>

Touch(p) ==
    /\ pc[p] = "touch"
    /\ mtime' = IF bundle = NoFile THEN mtime ELSE now
    /\ Goto(p, "loaded")
    /\ UNCHANGED <<orderly, now, deployed, bundle, etag, load>>

Refetch(p) ==
    /\ pc[p] = "refetch"
    /\ body' = [body EXCEPT ![p] = Current]
    /\ IF Usable(Current)
       THEN Answer(p, Current, "fetched") /\ Goto(p, "truncate")
       ELSE UNCHANGED <<used, how>> /\ Goto(p, "fallback")
    /\ UNCHANGED <<orderly, now, deployed, disk, began, sent>>

\* Faulty RequestFails: an unreachable server is asked until it answers.
RequestFailsAgain(p) ==
    /\ pc[p] \in {"request", "refetch"}
    /\ Goto(p, "etag")
    /\ UNCHANGED <<orderly, now, deployed, disk, load>>

RequestFails(p) ==
    /\ pc[p] \in {"request", "refetch"}
    /\ Goto(p, "fallback")
    /\ UNCHANGED <<orderly, now, deployed, disk, load>>

\* Faulty Fallback: using a stale bundle renews it.
FallbackTouches(p) ==
    /\ pc[p] = "fallback"
    /\ IF Usable(bundle)
       THEN Answer(p, bundle, "stale") /\ Goto(p, "touch")
       ELSE Answer(p, Embedded, "embedded") /\ Goto(p, "loaded")
    /\ UNCHANGED <<orderly, now, deployed, disk, began, sent, body>>

\* No network: a stale bundle beats the embedded snapshot.
Fallback(p) ==
    /\ pc[p] = "fallback"
    /\ IF Usable(bundle)
       THEN Answer(p, bundle, "stale")
       ELSE Answer(p, Embedded, "embedded")
    /\ Goto(p, "loaded")
    /\ UNCHANGED <<orderly, now, deployed, disk, began, sent, body>>

\* os.WriteFile(bundle): the file is truncated, ...
TruncateBundle(p) ==
    /\ pc[p] = "truncate"
    /\ bundle' = Torn /\ mtime' = now
    /\ Goto(p, "write")
    /\ UNCHANGED <<orderly, now, deployed, etag, load>>

\* ... then filled; over another process's longer bundle a tail of that is left.
WriteBundle(p) ==
    /\ pc[p] = "write"
    /\ bundle' \in IF bundle \in {Torn, body[p]} THEN {body[p]} ELSE {body[p], Torn}
    /\ mtime' = now
    /\ Goto(p, "truncateETag")
    /\ UNCHANGED <<orderly, now, deployed, etag, load>>

\* Faulty WriteFails: the error of the first write is not looked at.
WriteFailsGoesOn(p) ==
    /\ pc[p] \in {"truncate", "write", "truncateETag", "writeETag"}
    /\ Goto(p, IF pc[p] = "truncate" THEN "truncateETag" ELSE "loaded")
    /\ UNCHANGED <<orderly, now, deployed, disk, load>>

\* Any of the writes fails; its error is not the load's.
WriteFails(p) ==
    /\ pc[p] \in {"truncate", "write", "truncateETag", "writeETag"}
    /\ Goto(p, "loaded")
    /\ UNCHANGED <<orderly, now, deployed, disk, load>>

\* os.WriteFile(etag), likewise.
TruncateETag(p) ==
    /\ pc[p] = "truncateETag"
    /\ etag' = NoFile
    /\ Goto(p, "writeETag")
    /\ UNCHANGED <<orderly, now, deployed, bundle, mtime, load>>

WriteETag(p) ==
    /\ pc[p] = "writeETag"
    /\ etag' = body[p]
    /\ Goto(p, "loaded")
    /\ UNCHANGED <<orderly, now, deployed, bundle, mtime, load>>

Exit(p) ==
    /\ pc[p] = "loaded"
    /\ Gone(p)

\* Ctrl-C, or worse.
Crash(p) ==
    /\ Loading(p)
    /\ Gone(p)

Tick ==
    /\ now < IF orderly THEN MaxTime ELSE MaxRaceTime
    /\ \A p \in Procs : Loading(p) => now - began[p] < MaxLatency
    /\ now' = now + 1
    /\ UNCHANGED <<orderly, deployed, disk, pc, load>>

Proceed(p) ==
    \/ Stat(p) \/ ReadFresh(p) \/ ReadETag(p)
    \/ NotModified(p) \/ Receive(p) \/ RequestFails(p)
    \/ UseRevalidated(p) \/ Touch(p) \/ Refetch(p) \/ Fallback(p)
    \/ TruncateBundle(p) \/ WriteBundle(p)
    \/ TruncateETag(p) \/ WriteETag(p) \/ WriteFails(p)

Next ==
    \/ \E p \in Procs : Start(p) \/ Proceed(p) \/ Exit(p) \/ Crash(p)
    \/ Tick

\* Requests have a timeout.
Spec == Init /\ [][Next]_vars /\ \A p \in Procs : WF_vars(Proceed(p))

-----------------------------------------------------------------------------
(* Properties.                                                             *)

Labels ==
    {"idle", "stat", "read", "etag", "request", "revalidated", "touch",
     "refetch", "fallback", "truncate", "write", "truncateETag", "writeETag", "loaded"}
Paths ==
    {"none", "fresh", "fetched", "invalid", "revalidated", "stale", "embedded"}

\* Type invariant.
TypeOK ==
    /\ orderly \in BOOLEAN
    /\ now \in Times /\ mtime \in Times
    /\ deployed \in [Times -> Versions]
    /\ bundle \in Valid \cup {NoFile, Torn}
    /\ etag \in Valid \cup {NoFile}
    /\ pc \in [Procs -> Labels]
    /\ began \in [Procs -> Times]
    /\ sent \in [Procs -> Valid \cup {NoFile}]
    /\ body \in [Procs -> Versions \cup {NoFile}]
    /\ used \in [Procs -> Valid \cup {Embedded}]
    /\ how \in [Procs -> Paths]

DeployedIn(v, lo, hi) == \E t \in Times : lo <= t /\ t <= hi /\ deployed[t] = v

\* "Revalidated: any cached copy (even past MaxAge) is current": a bundle used
\* after a 304 is one the server had at some moment of the load.
RevalidatedIsCurrent ==
    \A p \in Procs :
        orderly /\ how[p] = "revalidated" =>
            DeployedIn(used[p], began[p], began[p] + MaxLatency)

\* That documented claim, of loads that overlap too.
RevalidatedAlways ==
    \A p \in Procs :
        Forward(deployed) /\ how[p] = "revalidated" =>
            DeployedIn(used[p], began[p], began[p] + MaxLatency)

\* A bundle used without asking is at most MaxAge old, plus the load that cached it.
FreshIsYoung ==
    \A p \in Procs :
        orderly /\ how[p] = "fresh" =>
            DeployedIn(used[p], began[p] - MaxAge - MaxLatency, began[p] + MaxLatency)

\* Whatever is used was deployed, and fetched when there was an answer.
UsedWasDeployed ==
    \A p \in Procs :
        /\ used[p] # Embedded => DeployedIn(used[p], 0, now)
        /\ how[p] = "fetched" =>
              DeployedIn(used[p], began[p], began[p] + MaxLatency)

\* Every load ends with a catalog, unless the process is stopped.
LoadEnds == \A p \in Procs : pc[p] = "stat" ~> pc[p] \in {"loaded", "idle"}
=============================================================================
